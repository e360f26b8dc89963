------------------------- MODULE RelationshipProofs -------------------------
(***************************************************************************)
(* What is kept of a relationship.  Of its profile: what Profile promises  *)
(* for any sets of readers, requests, behaviors and processes, any paths   *)
(* and any times.  Of its conversation: what Summaries promises for any    *)
(* turns, pushes, requests and devices, any message limit and any number   *)
(* of resets.                                                              *)
(***************************************************************************)
EXTENDS Profile, Summaries, FiniteSetTheorems, TLAPS

(***************************************************************************)
(* Types                                                                   *)
(***************************************************************************)
LEMMA ProcessType ==
  ASSUME NEW w \in Readers \cup Requests
  PROVE  ProcessOf[w] \in Processes
BY ProcessAssumption

LEMMA PathType ==
  ASSUME NEW w \in Writers
  PROVE  /\ PathOf[w] \in Keys \X Leaves
         /\ PathOf[w][1] \in Keys
         /\ PathOf[w][2] \in Leaves
BY PathAssumption DEF Writers

LEMMA EmptyTypes ==
  /\ EmptyObject \in Objects
  /\ EmptyProfile \in [Keys -> Objects \cup {Missing}]
BY DEF EmptyObject, Objects, EmptyProfile

LEMMA CopyTypes ==
  /\ NoCopy \in Copies
  /\ NotCached \in [copy : Copies, exp : Nat]
  /\ edition \in Nat /\ now \in Nat => TheRow \in Copies
BY DEF NoCopy, Copies, NotCached, TheRow

\* The profile of a request, from any profile, is one.
LEMMA WithType ==
  ASSUME NEW r \in Requests, NEW new \in [Keys -> Objects \cup {Missing}]
  PROVE  With(new, r) \in [Keys -> Objects \cup {Missing}]
<1>1. r \in Writers
  BY DEF Writers
<1>2. [EmptyObject EXCEPT ![PathOf[r][2]] = r] \in Objects
  BY <1>1, PathType DEF EmptyObject, Objects
<1> QED
  BY <1>1, <1>2, PathType DEF With

\* A profile with one leaf replaced, where there is an object, is one.
LEMMA LeafType ==
  ASSUME NEW new \in [Keys -> Objects \cup {Missing}],
         NEW k \in Keys, NEW l \in Leaves, NEW w \in Writers \cup {Nobody},
         new[k] # Missing
  PROVE  /\ [new EXCEPT ![k][l] = w] \in [Keys -> Objects \cup {Missing}]
         /\ [new EXCEPT ![k][l] = w][k] \in Objects
<1>1. new[k] \in Objects
  OBVIOUS
<1>2. [new[k] EXCEPT ![l] = w] \in Objects
  BY <1>1 DEF Objects
<1> QED
  BY <1>2

LEMMA InitTypeOK == Init => TypeOK
BY EmptyTypes, CopyTypes DEF Init, TypeOK

LEMMA ReadingTypes ==
  ASSUME TypeOK, NEW t \in Readers,
         Hit(t) \/ Miss(t) \/ Fetch(t) \/ Store(t) \/ FailToHydrate(t) \/ Refresh(t)
  PROVE  TypeOK'
<1> USE DEF TypeOK
<1>1. ProcessOf[t] \in Processes
  BY ProcessType
<1>2. CASE Hit(t)
  BY <1>1, <1>2 DEF Hit, row, writer
<1>3. CASE Miss(t)
  BY <1>1, <1>3, CopyTypes DEF Miss, row, writer
<1>4. CASE Fetch(t)
  BY <1>4, CopyTypes DEF Fetch, row, writer
<1>5. CASE Store(t)
  <2>1. fetched[t] \in Copies /\ now + TTL \in Nat
    BY TimeAssumption
  <2> QED
    BY <1>1, <1>5, <2>1, CopyTypes DEF Store, row, writer
<1>6. CASE FailToHydrate(t)
  BY <1>6 DEF FailToHydrate, row, writer
<1>7. CASE Refresh(t)
  BY <1>1, <1>7, CopyTypes DEF Refresh, row, writer
<1> QED
  BY <1>2, <1>3, <1>4, <1>5, <1>6, <1>7

LEMMA RequestTypes ==
  ASSUME TypeOK, NEW r \in Requests,
         PatchProfile(r) \/ SetProfile(r) \/ ClearProfile(r) \/ Invalidate(r) \/ Reset(r)
  PROVE  TypeOK'
<1> USE DEF TypeOK
<1>1. \A keys : Overtake(keys) => overtaken' \subseteq Behaviors
  BY DEF Overtake
<1>2. \A new : new \in [Keys -> Objects \cup {Missing}] /\ Put(new) =>
        profile' \in [Keys -> Objects \cup {Missing}] /\ edition' \in Nat
  BY DEF Put
<1>3. ASSUME Wrote(r), NEW new \in [Keys -> Objects \cup {Missing}], Put(new),
             overtaken' \subseteq Behaviors
      PROVE  TypeOK'
  BY <1>2, <1>3 DEF Wrote, reader
<1>4. CASE PatchProfile(r)
  <2>1. With(profile, r) \in [Keys -> Objects \cup {Missing}]
    BY WithType
  <2> QED
    BY <1>1, <1>3, <1>4, <2>1 DEF PatchProfile
<1>5. CASE SetProfile(r)
  <2>1. With(EmptyProfile, r) \in [Keys -> Objects \cup {Missing}]
    BY WithType, EmptyTypes
  <2> QED
    BY <1>1, <1>3, <1>5, <2>1 DEF SetProfile
<1>6. CASE ClearProfile(r)
  BY <1>1, <1>3, <1>6, EmptyTypes DEF ClearProfile
<1>7. CASE Invalidate(r)
  <2>1. ProcessOf[r] \in Processes
    BY ProcessType
  <2>2. fetched' \in [Readers -> Copies]
    BY <1>7 DEF Invalidate, Copies
  <2>3. shown' \in [Processes -> Nat]
    BY <1>7, <2>1 DEF Invalidate
  <2> QED
    BY <1>7, <2>1, <2>2, <2>3, CopyTypes DEF Invalidate, row
<1>8. CASE Reset(r)
  BY <1>1, <1>2, <1>8, EmptyTypes DEF Reset, reader
<1> QED
  BY <1>4, <1>5, <1>6, <1>7, <1>8

LEMMA BehaviorTypes ==
  ASSUME TypeOK, NEW b \in Behaviors, EnsureParent(b) \/ SetLeaf(b) \/ DeleteLeaf(b)
  PROVE  TypeOK'
<1> USE DEF TypeOK
<1>1. PathOf[b][1] \in Keys /\ PathOf[b][2] \in Leaves /\ b \in Writers \cup {Nobody}
  BY PathType DEF Writers
<1>2. OvertakeAt(b) => overtaken' \subseteq Behaviors
  BY DEF OvertakeAt
<1>3. CASE EnsureParent(b)
  <2>1. [profile EXCEPT ![PathOf[b][1]] = EmptyObject] \in [Keys -> Objects \cup {Missing}]
    BY EmptyTypes
  <2>2. profile' \in [Keys -> Objects \cup {Missing}] /\ edition' \in Nat
    BY <1>3, <2>1 DEF EnsureParent, Put, row
  <2> QED
    BY <1>3, <2>2 DEF EnsureParent, reader
<1>4. CASE SetLeaf(b)
  <2>1. profile[PathOf[b][1]] # Missing =>
          [profile EXCEPT ![PathOf[b][1]][PathOf[b][2]] = b] \in [Keys -> Objects \cup {Missing}]
    BY <1>1, LeafType
  <2>2. profile' \in [Keys -> Objects \cup {Missing}] /\ edition' \in Nat
    BY <1>4, <2>1 DEF SetLeaf, Put
  <2> QED
    BY <1>2, <1>4, <2>2 DEF SetLeaf, reader
<1>5. CASE DeleteLeaf(b)
  <2>1. profile[PathOf[b][1]] # Missing =>
          [profile EXCEPT ![PathOf[b][1]][PathOf[b][2]] = Nobody]
            \in [Keys -> Objects \cup {Missing}]
    BY <1>1, LeafType
  <2>2. profile' \in [Keys -> Objects \cup {Missing}] /\ edition' \in Nat
    BY <1>5, <2>1 DEF DeleteLeaf, Put
  <2> QED
    BY <1>2, <1>5, <2>2 DEF DeleteLeaf, reader
<1> QED
  BY <1>3, <1>4, <1>5

LEMMA StepTypes == TypeOK /\ [Next]_vars => TypeOK'
<1> SUFFICES ASSUME TypeOK, [Next]_vars PROVE TypeOK'
  OBVIOUS
<1>1. CASE \E t \in Readers :
             Hit(t) \/ Miss(t) \/ Fetch(t) \/ Store(t) \/ FailToHydrate(t) \/ Refresh(t)
  BY <1>1, ReadingTypes
<1>2. CASE \E r \in Requests :
             PatchProfile(r) \/ SetProfile(r) \/ ClearProfile(r) \/ Invalidate(r) \/ Reset(r)
  BY <1>2, RequestTypes
<1>3. CASE \E b \in Behaviors : EnsureParent(b) \/ SetLeaf(b) \/ DeleteLeaf(b)
  BY <1>3, BehaviorTypes
<1>4. CASE Tick
  BY <1>4 DEF Tick, TypeOK, row, reader, writer
<1>5. CASE UNCHANGED vars
  BY <1>5 DEF vars, TypeOK, row, reader, writer
<1> QED
  BY <1>1, <1>2, <1>3, <1>4, <1>5 DEF Next

\* Every variable of the profile keeps its type.
THEOREM TypeCorrect == Spec => []TypeOK
BY InitTypeOK, StepTypes, PTL DEF Spec

(***************************************************************************)
(* What the turns see.  The writes a process has made known by an          *)
(* invalidation are in its cache, in the copies its turns are about to     *)
(* cache unless they were overtaken, and no later than the row.            *)
(***************************************************************************)
Editions ==
  /\ \A r \in Requests : written[r] <= edition
  /\ \A p \in Processes : shown[p] <= edition

CachedShow ==
  \A p \in Processes : cache[p].exp > 0 =>
    cache[p].copy.raced \/ shown[p] <= cache[p].copy.edition

FetchedShow ==
  \A t \in Readers : turnPc[t] = "fetched" =>
    fetched[t].raced \/ shown[ProcessOf[t]] <= fetched[t].edition

FloorsBelow ==
  \A t \in Readers : turnPc[t] \in {"select", "fetched"} => floor[t] <= shown[ProcessOf[t]]

ShowInv == TypeOK /\ Editions /\ CachedShow /\ FetchedShow /\ FloorsBelow /\ OwnWritesShow

\* The age of what is cached, and of what is about to be.
CachedAge ==
  \A p \in Processes : cache[p].exp > 0 =>
    cache[p].exp <= cache[p].copy.at + FetchMax + TTL

FetchedAge ==
  \A t \in Readers : turnPc[t] = "fetched" => now <= fetched[t].at + FetchMax

AgeInv == TypeOK /\ CachedAge /\ FetchedAge /\ OldProfilesFade

LEMMA ReadingShows ==
  ASSUME ShowInv, TypeOK', NEW t \in Readers,
         Hit(t) \/ Miss(t) \/ Fetch(t) \/ Store(t) \/ FailToHydrate(t) \/ Refresh(t)
  PROVE  ShowInv'
<1> USE DEF ShowInv, TypeOK, Editions, CachedShow, FetchedShow, FloorsBelow, OwnWritesShow
<1>1. \A u \in Readers : ProcessOf[u] \in Processes
  BY ProcessType
<1>2. CASE Hit(t)
  <2>1. cache[ProcessOf[t]].exp > 0
    BY <1>1, <1>2 DEF Hit, Live
  <2> QED
    BY <1>1, <1>2, <2>1 DEF Hit, row, writer
<1>3. CASE Miss(t)
  BY <1>1, <1>3 DEF Miss, NotCached, row, writer
<1>4. CASE Fetch(t)
  BY <1>1, <1>4 DEF Fetch, TheRow, row, writer
<1>5. CASE Store(t)
  <2>1. fetched[t].raced \/ shown[ProcessOf[t]] <= fetched[t].edition
    BY <1>5 DEF Store
  <2>2. floor[t] <= shown[ProcessOf[t]]
    BY <1>5 DEF Store
  <2>3. CachedShow'
    BY <1>1, <1>5, <2>1 DEF Store, writer
  <2>4. OwnWritesShow'
    BY <1>1, <1>5, <2>1, <2>2 DEF Store, Copies
  <2> QED
    BY <1>1, <1>5, <2>3, <2>4 DEF Store, row, writer
<1>6. CASE FailToHydrate(t)
  BY <1>6 DEF FailToHydrate, row, writer
<1>7. CASE Refresh(t)
  BY <1>1, <1>7 DEF Refresh, TheRow, row, writer
<1> QED
  BY <1>2, <1>3, <1>4, <1>5, <1>6, <1>7

LEMMA RequestShows ==
  ASSUME ShowInv, TypeOK', NEW r \in Requests,
         PatchProfile(r) \/ SetProfile(r) \/ ClearProfile(r) \/ Invalidate(r) \/ Reset(r)
  PROVE  ShowInv'
<1> USE DEF ShowInv, TypeOK, Editions, CachedShow, FetchedShow, FloorsBelow, OwnWritesShow
<1>1. CASE (PatchProfile(r) \/ SetProfile(r) \/ ClearProfile(r))
  <2>1. Wrote(r) /\ edition' = edition + 1
    BY <1>1 DEF PatchProfile, SetProfile, ClearProfile, Put
  <2> QED
    BY <2>1 DEF Wrote, reader
<1>2. CASE Invalidate(r)
  <2> DEFINE p == ProcessOf[r]
  <2>1. p \in Processes /\ \A u \in Readers : ProcessOf[u] \in Processes
    BY ProcessType
  <2>2. /\ \A q \in Processes : shown[q] <= shown'[q] /\ shown'[q] <= edition
        /\ \A q \in Processes : q # p => shown'[q] = shown[q]
    BY <1>2, <2>1 DEF Invalidate
  <2>3. Editions'
    BY <1>2, <2>2 DEF Invalidate, row
  <2>4. CachedShow'
    BY <1>2, <2>1, <2>2 DEF Invalidate, NotCached
  <2>5. FetchedShow'
    <3> SUFFICES ASSUME NEW t \in Readers, turnPc'[t] = "fetched"
                 PROVE  fetched'[t].raced \/ shown'[ProcessOf[t]] <= fetched'[t].edition
      OBVIOUS
    <3>1. turnPc[t] = "fetched"
      BY <1>2 DEF Invalidate
    <3>2. CASE ProcessOf[t] = p
      BY <1>2, <3>1, <3>2 DEF Invalidate, Copies
    <3>3. CASE ProcessOf[t] # p
      BY <1>2, <2>1, <2>2, <3>1, <3>3 DEF Invalidate
    <3> QED
      BY <3>2, <3>3
  <2>6. FloorsBelow'
    BY <1>2, <2>1, <2>2 DEF Invalidate
  <2>7. OwnWritesShow'
    BY <1>2 DEF Invalidate
  <2> QED
    BY <2>3, <2>4, <2>5, <2>6, <2>7
<1>3. CASE Reset(r)
  BY <1>3 DEF Reset, Put, reader
<1> QED
  BY <1>1, <1>2, <1>3

\* The other steps leave the cache and the turns alone.
LEMMA OtherShows ==
  ASSUME ShowInv, TypeOK',
         edition' \in {edition, edition + 1},
         UNCHANGED <<cache, turnPc, fetched, seen, floor, written, shown>>
  PROVE  ShowInv'
BY DEF ShowInv, TypeOK, Editions, CachedShow, FetchedShow, FloorsBelow, OwnWritesShow

LEMMA BehaviorKeeps ==
  ASSUME NEW b \in Behaviors, EnsureParent(b) \/ SetLeaf(b) \/ DeleteLeaf(b)
  PROVE  /\ edition' \in {edition, edition + 1}
         /\ UNCHANGED <<cache, turnPc, fetched, seen, floor, written, shown, now>>
BY DEF EnsureParent, SetLeaf, DeleteLeaf, Put, row, reader

LEMMA ShowStep == ShowInv /\ [Next]_vars => ShowInv'
<1> SUFFICES ASSUME ShowInv, [Next]_vars PROVE ShowInv'
  OBVIOUS
<1>0. TypeOK'
  BY StepTypes DEF ShowInv
<1>1. CASE \E t \in Readers :
             Hit(t) \/ Miss(t) \/ Fetch(t) \/ Store(t) \/ FailToHydrate(t) \/ Refresh(t)
  BY <1>0, <1>1, ReadingShows
<1>2. CASE \E r \in Requests :
             PatchProfile(r) \/ SetProfile(r) \/ ClearProfile(r) \/ Invalidate(r) \/ Reset(r)
  BY <1>0, <1>2, RequestShows
<1>3. CASE \E b \in Behaviors : EnsureParent(b) \/ SetLeaf(b) \/ DeleteLeaf(b)
  BY <1>0, <1>3, OtherShows, BehaviorKeeps
<1>4. CASE Tick
  BY <1>0, <1>4, OtherShows DEF Tick, row, reader, writer
<1>5. CASE UNCHANGED vars
  BY <1>0, <1>5, OtherShows DEF vars, row, reader, writer
<1> QED
  BY <1>1, <1>2, <1>3, <1>4, <1>5 DEF Next

\* A turn sees the writes that its process had made known when it began to
\* read, unless its row was overtaken between SELECT and cache.
THEOREM WritesShow == Spec => []OwnWritesShow
<1>1. Init => ShowInv
  BY InitTypeOK, ProcessAssumption
  DEF Init, ShowInv, Editions, CachedShow, FetchedShow, FloorsBelow, OwnWritesShow, NotCached
<1>2. ShowInv => OwnWritesShow
  BY DEF ShowInv
<1> QED
  BY <1>1, <1>2, ShowStep, PTL DEF Spec

LEMMA ReadingAges ==
  ASSUME AgeInv, TypeOK', NEW t \in Readers,
         Hit(t) \/ Miss(t) \/ Fetch(t) \/ Store(t) \/ FailToHydrate(t) \/ Refresh(t)
  PROVE  AgeInv'
<1> USE TimeAssumption DEF AgeInv, TypeOK, Copies, CachedAge, FetchedAge, OldProfilesFade
<1>1. ProcessOf[t] \in Processes
  BY ProcessType
<1>2. CASE Hit(t)
  <2>1. /\ cache[ProcessOf[t]].exp > 0
        /\ now < cache[ProcessOf[t]].copy.at + FetchMax + TTL
    BY <1>1, <1>2 DEF Hit, Live
  <2> QED
    BY <1>1, <1>2, <2>1 DEF Hit
<1>3. CASE Miss(t)
  BY <1>1, <1>3 DEF Miss, NotCached
<1>4. CASE Fetch(t)
  BY <1>4 DEF Fetch, TheRow
<1>5. CASE Store(t)
  <2>1. now <= fetched[t].at + FetchMax /\ fetched[t].at \in Nat
    BY <1>5 DEF Store
  <2>2. CachedAge'
    BY <1>1, <1>5, <2>1 DEF Store
  <2>3. OldProfilesFade'
    BY <1>5, <2>1 DEF Store
  <2> QED
    BY <1>5, <2>2, <2>3 DEF Store
<1>6. CASE FailToHydrate(t)
  BY <1>6 DEF FailToHydrate
<1>7. CASE Refresh(t)
  BY <1>7 DEF Refresh, TheRow
<1> QED
  BY <1>2, <1>3, <1>4, <1>5, <1>6, <1>7

LEMMA RequestAges ==
  ASSUME AgeInv, TypeOK', NEW r \in Requests,
         PatchProfile(r) \/ SetProfile(r) \/ ClearProfile(r) \/ Invalidate(r) \/ Reset(r)
  PROVE  AgeInv'
<1> USE DEF AgeInv, CachedAge, FetchedAge, OldProfilesFade
<1>1. CASE (PatchProfile(r) \/ SetProfile(r) \/ ClearProfile(r) \/ Reset(r))
  <2>1. UNCHANGED <<cache, reader, now>>
    BY <1>1 DEF PatchProfile, SetProfile, ClearProfile, Reset, Wrote
  <2> QED
    BY <2>1 DEF reader
<1>2. CASE Invalidate(r)
  <2>1. ProcessOf[r] \in Processes
    BY ProcessType
  <2>2. \A t \in Readers : fetched'[t].at = fetched[t].at
    BY <1>2 DEF Invalidate, TypeOK, Copies
  <2>3. \A p \in Processes : cache'[p] = cache[p] \/ cache'[p].exp = 0
    BY <1>2, <2>1 DEF Invalidate, NotCached, TypeOK
  <2> QED
    BY <1>2, <2>2, <2>3 DEF Invalidate
<1> QED
  BY <1>1, <1>2

LEMMA AgeStep == AgeInv /\ [Next]_vars => AgeInv'
<1> SUFFICES ASSUME AgeInv, [Next]_vars PROVE AgeInv'
  OBVIOUS
<1> USE DEF AgeInv, CachedAge, FetchedAge, OldProfilesFade
<1>0. TypeOK'
  BY StepTypes
<1>1. CASE \E t \in Readers :
             Hit(t) \/ Miss(t) \/ Fetch(t) \/ Store(t) \/ FailToHydrate(t) \/ Refresh(t)
  BY <1>0, <1>1, ReadingAges
<1>2. CASE \E r \in Requests :
             PatchProfile(r) \/ SetProfile(r) \/ ClearProfile(r) \/ Invalidate(r) \/ Reset(r)
  BY <1>0, <1>2, RequestAges
<1>3. CASE \E b \in Behaviors : EnsureParent(b) \/ SetLeaf(b) \/ DeleteLeaf(b)
  BY <1>0, <1>3, BehaviorKeeps
<1>4. CASE Tick
  <2>1. \A t \in Readers : fetched[t].at + FetchMax \in Nat
    BY TimeAssumption DEF TypeOK, Copies
  <2> QED
    BY <1>0, <1>4, <2>1 DEF Tick, row, reader, writer, TypeOK
<1>5. CASE UNCHANGED vars
  BY <1>0, <1>5 DEF vars, row, reader, writer
<1> QED
  BY <1>1, <1>2, <1>3, <1>4, <1>5 DEF Next

\* What a turn is given is younger than a time to live and a fetch.
THEOREM ProfilesFade == Spec => []OldProfilesFade
<1>1. Init => AgeInv
  BY InitTypeOK DEF Init, AgeInv, CachedAge, FetchedAge, OldProfilesFade, NotCached
<1>2. AgeInv => OldProfilesFade
  BY DEF AgeInv
<1> QED
  BY <1>1, <1>2, AgeStep, PTL DEF Spec

(***************************************************************************)
(* What behaviors write.  From the statement that makes its parent on, an  *)
(* effect finds the object above its leaf, as long as nobody overtakes it. *)
(***************************************************************************)
ParentsStay ==
  \A b \in Behaviors : behaviorPc[b] \in {"ensured", "set"} /\ b \notin overtaken =>
    profile[PathOf[b][1]] # Missing

LeavesInv == TypeOK /\ ParentsStay /\ LeavesSurvive

\* What has to be shown of a behavior's leaf.
LeafStays(b) ==
  behaviorPc[b] \in {"ensured", "set"} /\ b \notin overtaken =>
    /\ profile[PathOf[b][1]] # Missing
    /\ behaviorPc[b] = "set" => profile[PathOf[b][1]][PathOf[b][2]] = b

LEMMA LeavesInvForm == LeavesInv <=> TypeOK /\ \A b \in Behaviors : LeafStays(b)
BY DEF LeavesInv, ParentsStay, LeavesSurvive, LeafStays

\* A request, whatever it writes, overtakes the behaviors whose keys it touches.
LEMMA RequestLeaves ==
  ASSUME LeavesInv, NEW r \in Requests, NEW b \in Behaviors,
         PatchProfile(r) \/ SetProfile(r) \/ ClearProfile(r) \/ Invalidate(r) \/ Reset(r)
  PROVE  LeafStays(b)'
<1> USE DEF LeafStays
<1>1. LeafStays(b)
  BY LeavesInvForm
<1>2. PathOf[b][1] \in Keys
  BY PathType DEF Writers
<1>3. behaviorPc' = behaviorPc
  BY DEF PatchProfile, SetProfile, ClearProfile, Invalidate, Reset, Wrote
<1>4. CASE PatchProfile(r)
  <2>1. CASE PathOf[b][1] = PathOf[r][1]
    BY <1>3, <1>4, <2>1 DEF PatchProfile, Overtake
  <2>2. CASE PathOf[b][1] # PathOf[r][1]
    <3>1. profile'[PathOf[b][1]] = profile[PathOf[b][1]]
      BY <1>2, <1>4, <2>2 DEF PatchProfile, Put, With, LeavesInv, TypeOK
    <3>2. overtaken \subseteq overtaken'
      BY <1>4 DEF PatchProfile, Overtake
    <3> QED
      BY <1>1, <1>3, <3>1, <3>2
  <2> QED
    BY <2>1, <2>2
<1>5. CASE (SetProfile(r) \/ ClearProfile(r) \/ Reset(r))
  BY <1>2, <1>3, <1>5 DEF SetProfile, ClearProfile, Reset, Overtake
<1>6. CASE Invalidate(r)
  BY <1>1, <1>6 DEF Invalidate, row
<1> QED
  BY <1>4, <1>5, <1>6

\* A behavior leaves its neighbours' leaves alone, and finds its own parent.
LEMMA BehaviorLeaves ==
  ASSUME LeavesInv, NEW c \in Behaviors, NEW b \in Behaviors,
         EnsureParent(c) \/ SetLeaf(c) \/ DeleteLeaf(c)
  PROVE  LeafStays(b)'
<1> USE DEF LeafStays
<1> DEFINE k == PathOf[b][1]
           l == PathOf[b][2]
           kc == PathOf[c][1]
           lc == PathOf[c][2]
<1>1. LeafStays(b) /\ LeafStays(c)
  BY LeavesInvForm
<1>2. /\ k \in Keys /\ l \in Leaves /\ kc \in Keys /\ lc \in Leaves
      /\ PathOf[b] = <<k, l>> /\ PathOf[c] = <<kc, lc>>
      /\ c \in Writers
  BY PathType DEF Writers
<1>3. /\ profile \in [Keys -> Objects \cup {Missing}]
      /\ behaviorPc \in [Behaviors -> {"idle", "ensured", "set", "deleted"}]
  BY DEF LeavesInv, TypeOK
<1>4. CASE EnsureParent(c)
  <2>1. profile'[kc] # Missing
    BY <1>2, <1>3, <1>4, EmptyTypes, MissingAssumption DEF EnsureParent, Put, row
  <2>2. profile[k] # Missing => profile'[k] = profile[k]
    BY <1>2, <1>3, <1>4 DEF EnsureParent, Put, row
  <2>3. overtaken' = overtaken /\ behaviorPc' = [behaviorPc EXCEPT ![c] = "ensured"]
    BY <1>4 DEF EnsureParent
  <2>4. CASE b = c
    BY <1>3, <2>1, <2>3, <2>4
  <2>5. CASE b # c
    BY <1>1, <1>3, <2>2, <2>3, <2>5
  <2> QED
    BY <2>4, <2>5
<1>5. ASSUME NEW w \in Writers \cup {Nobody},
             profile' = IF profile[kc] = Missing THEN profile ELSE [profile EXCEPT ![kc][lc] = w],
             b # c, OvertakeAt(c), behaviorPc'[b] = behaviorPc[b]
      PROVE  LeafStays(b)'
  <2> SUFFICES ASSUME behaviorPc[b] \in {"ensured", "set"}, b \notin overtaken'
               PROVE  /\ profile'[k] # Missing
                      /\ behaviorPc[b] = "set" => profile'[k][l] = b
    BY <1>5
  <2>1. b \notin overtaken /\ <<k, l>> # <<kc, lc>>
    BY <1>2, <1>5 DEF OvertakeAt
  <2>2. profile[k] # Missing /\ (behaviorPc[b] = "set" => profile[k][l] = b)
    BY <1>1, <2>1
  <2>3. CASE kc # k
    BY <1>2, <1>3, <1>5, <2>2, <2>3
  <2>4. CASE kc = k
    <3>1. lc # l
      BY <2>1, <2>4
    <3>2. profile' = [profile EXCEPT ![k][lc] = w]
      BY <1>5, <2>2, <2>4
    <3>3. profile'[k] \in Objects
      BY <1>2, <1>3, <2>2, <3>2, LeafType
    <3>4. profile[k] \in Objects
      BY <1>2, <1>3, <2>2
    <3>5. profile'[k][l] = profile[k][l]
      BY <1>2, <1>3, <3>1, <3>2, <3>4 DEF Objects
    <3> QED
      BY <2>2, <3>3, <3>5, MissingAssumption
  <2> QED
    BY <2>3, <2>4
<1>6. CASE SetLeaf(c)
  <2>1. CASE b # c
    BY <1>2, <1>3, <1>5, <1>6, <2>1 DEF SetLeaf, Put
  <2>2. CASE b = c
    <3> SUFFICES ASSUME b \notin overtaken' PROVE profile'[k] # Missing /\ profile'[k][l] = b
      OBVIOUS
    <3>1. profile[k] # Missing
      BY <1>1, <1>6, <2>2 DEF SetLeaf, OvertakeAt
    <3>2. profile' = [profile EXCEPT ![k][l] = b]
      BY <1>6, <2>2, <3>1 DEF SetLeaf, Put
    <3>3. profile'[k] \in Objects
      BY <1>2, <1>3, <2>2, <3>1, <3>2, LeafType
    <3>4. profile[k] \in Objects
      BY <1>2, <1>3, <3>1
    <3>5. profile'[k][l] = b
      BY <1>2, <1>3, <3>2, <3>4 DEF Objects
    <3> QED
      BY <3>3, <3>5, MissingAssumption
  <2> QED
    BY <2>1, <2>2
<1>7. CASE DeleteLeaf(c)
  <2>1. CASE b # c
    BY <1>2, <1>3, <1>5, <1>7, <2>1 DEF DeleteLeaf, Put
  <2>2. CASE b = c
    BY <1>3, <1>7, <2>2 DEF DeleteLeaf
  <2> QED
    BY <2>1, <2>2
<1> QED
  BY <1>4, <1>6, <1>7

LEMMA ReadingLeaves ==
  ASSUME NEW t \in Readers,
         Hit(t) \/ Miss(t) \/ Fetch(t) \/ Store(t) \/ FailToHydrate(t) \/ Refresh(t)
  PROVE  UNCHANGED <<profile, behaviorPc, overtaken>>
BY DEF Hit, Miss, Fetch, Store, FailToHydrate, Refresh, row, writer

LEMMA LeavesStep == LeavesInv /\ [Next]_vars => LeavesInv'
<1> SUFFICES ASSUME LeavesInv, [Next]_vars, NEW b \in Behaviors PROVE LeafStays(b)'
  BY StepTypes, LeavesInvForm DEF LeavesInv, ParentsStay, LeavesSurvive, LeafStays
<1>0. ASSUME UNCHANGED <<profile, behaviorPc, overtaken>> PROVE LeafStays(b)'
  BY <1>0, LeavesInvForm DEF LeafStays
<1>1. CASE \E t \in Readers :
             Hit(t) \/ Miss(t) \/ Fetch(t) \/ Store(t) \/ FailToHydrate(t) \/ Refresh(t)
  BY <1>0, <1>1, ReadingLeaves
<1>2. CASE \E r \in Requests :
             PatchProfile(r) \/ SetProfile(r) \/ ClearProfile(r) \/ Invalidate(r) \/ Reset(r)
  BY <1>2, RequestLeaves
<1>3. CASE \E c \in Behaviors : EnsureParent(c) \/ SetLeaf(c) \/ DeleteLeaf(c)
  BY <1>3, BehaviorLeaves
<1>4. CASE Tick
  BY <1>0, <1>4 DEF Tick, row, reader, writer
<1>5. CASE UNCHANGED vars
  BY <1>0, <1>5 DEF vars, row, reader, writer
<1> QED
  BY <1>1, <1>2, <1>3, <1>4, <1>5 DEF Next

\* A leaf that a behavior has set is lost to nobody but a later writer of the
\* same path or of the whole key.
THEOREM LeavesStay == Spec => []LeavesSurvive
<1>1. Init => LeavesInv
  BY InitTypeOK DEF Init, LeavesInv, ParentsStay, LeavesSurvive
<1>2. LeavesInv => LeavesSurvive
  BY DEF LeavesInv
<1> QED
  BY <1>1, <1>2, LeavesStep, PTL DEF Spec

(***************************************************************************)
(* The conversation: types and versions of its summaries                   *)
(***************************************************************************)
\* A summary has a version from 1 on, and among those there are one is the latest.
HasLatest ==
  /\ summaries = [v \in DOMAIN summaries |-> summaries[v]]
  /\ DOMAIN summaries = {} \/ LatestVersions # {}
  /\ \A j \in jobs : j.version # 0

\* Every step of a coroutine, a job or the reset.
LEMMA SummariesCases ==
  ASSUME SummariesNext
  PROVE  \/ \E c \in Turns \cup Pushes : TakeNumber(c)
         \/ \E t \in Turns : \/ SaveUser(t) \/ RefreshRelationship(t) \/ SaveReply(t)
                             \/ FinalizeTurn(t) \/ FailTurn(t)
         \/ \E p \in Pushes : SavePush(p)
         \/ \E r \in Askers : Ask(r)
         \/ \E c \in Callers : Look(c) \/ Spawn(c)
         \/ \E j \in jobs : Land(j) \/ Lose(j)
         \/ ResetRelationship
BY DEF SummariesNext, TurnStep, PushStep, RequestStep, Callers

\* The latest version, where there is one.
LEMMA LatestIs ==
  ASSUME SummariesTypeOK, HasLatest
  PROVE  /\ LatestVersion \in Nat
         /\ DOMAIN summaries = {} => LatestVersion = 0 /\ Known = {}
         /\ DOMAIN summaries # {} =>
              /\ LatestVersion \in DOMAIN summaries
              /\ \A w \in DOMAIN summaries : w <= LatestVersion
              /\ Known = summaries[LatestVersion].covers
<1>1. CASE DOMAIN summaries = {}
  <2>1. summaries = <<>>
    BY <1>1 DEF HasLatest
  <2> QED BY <1>1, <2>1 DEF LatestVersion, Known, LatestVersions
<1>2. CASE DOMAIN summaries # {}
  <2>1. summaries # <<>>
    BY <1>2
  <2>0. DOMAIN summaries \subseteq Nat
    BY DEF SummariesTypeOK
  <2>2. PICK v \in DOMAIN summaries : v \in LatestVersions
    BY <1>2 DEF HasLatest, LatestVersions
  <2>3. \A w \in LatestVersions : w = v
    BY <2>0, <2>2 DEF LatestVersions
  <2>4. LatestVersions = {v}
    BY <2>2, <2>3
  <2>5. LatestVersion = v
    BY <2>1, <2>4 DEF LatestVersion
  <2>6. v \in Nat /\ \A w \in DOMAIN summaries : w <= v
    BY <2>0, <2>2 DEF LatestVersions
  <2>7. Known = summaries[v].covers
    BY <2>4 DEF Known
  <2> QED BY <1>2, <2>2, <2>5, <2>6, <2>7
<1> QED BY <1>1, <1>2

LEMMA KnownType ==
  ASSUME SummariesTypeOK, HasLatest
  PROVE  Known \subseteq Message
<1>1. \A v \in DOMAIN summaries : summaries[v].covers \subseteq Message
  BY DEF SummariesTypeOK, Summary
<1> QED BY <1>1, LatestIs

\* The end of a coroutine leaves its variables in their types.
LEMMA LeaveType ==
  ASSUME SummariesTypeOK, NEW c \in Actors, NEW how \in Pc, Leave(c, how)
  PROVE  /\ pc' \in [Actors -> Pc] /\ number' \in [Actors -> Nat]
         /\ snap' \in [Actors -> Snapshot]
         /\ latest' \in [Actors -> [version : Nat, covers : SUBSET Message]]
<1>1. Unread \in Snapshot /\ NoSummary \in [version : Nat, covers : SUBSET Message]
  BY DEF Unread, NoSummary, Snapshot
<1> QED BY <1>1 DEF Leave, SummariesTypeOK

LEMMA CountOfType ==
  ASSUME SummariesTypeOK, NEW c \in Callers
  PROVE  CountOf(c) \in Nat /\ WindowEnd(c) \in Nat /\ NextVersion(c) \in Nat \ {0}
<1>1. snap[c] \in Snapshot /\ latest[c] \in [version : Nat, covers : SUBSET Message]
  BY DEF SummariesTypeOK, Callers, Actors
<1>2. CountOf(c) \in Nat
  BY <1>1 DEF CountOf, Snapshot
<1>3. NextVersion(c) \in Nat \ {0}
  BY <1>1 DEF NextVersion
<1>4. WindowEnd(c) \in Nat
  BY <1>2, LimitAssumption DEF WindowEnd
<1> QED BY <1>2, <1>3, <1>4

\* What a caller hands to its job.
JobOf(c) ==
  [by |-> c, version |-> NextVersion(c),
   summary |-> [from |-> snap[c].last + 1, to |-> WindowEnd(c),
                covers |-> latest[c].covers \cup InRange(snap[c].last + 1, WindowEnd(c)),
                life |-> snap[c].life]]

LEMMA JobType ==
  ASSUME SummariesTypeOK, NEW c \in Callers
  PROVE  /\ JobOf(c) \in Payload /\ JobOf(c).version # 0
         /\ Spawn(c) => jobs' = jobs \/ jobs' = jobs \cup {JobOf(c)}
<1>1. snap[c] \in Snapshot /\ latest[c] \in [version : Nat, covers : SUBSET Message]
  BY DEF SummariesTypeOK, Callers, Actors
<1>2. snap[c].last \in Nat /\ snap[c].life \in Nat /\ latest[c].covers \subseteq Message
  BY <1>1 DEF Snapshot
<1>3. InRange(snap[c].last + 1, WindowEnd(c)) \subseteq Message
  BY DEF InRange, Rows
<1>4. JobOf(c).summary \in Summary
  BY <1>2, <1>3, CountOfType DEF JobOf, Summary
<1>5. JobOf(c) \in Payload /\ JobOf(c).version # 0
  BY <1>4, CountOfType DEF JobOf, Payload
<1>6. Spawn(c) => jobs' = jobs \/ jobs' = jobs \cup {JobOf(c)}
  BY DEF Spawn, JobOf
<1> QED BY <1>5, <1>6

\* Storing a summary adds one version and changes none.
LEMMA StoreSummaryAdds ==
  ASSUME SummariesTypeOK, HasLatest, NEW j \in jobs, Land(j)
  PROVE  /\ DOMAIN summaries' = DOMAIN summaries \cup {j.version}
         /\ j.version \in Nat \ {0} /\ j.version \notin DOMAIN summaries
         /\ j.summary \in Summary
         /\ summaries'[j.version] = j.summary
         /\ \A v \in DOMAIN summaries : summaries'[v] = summaries[v]
         /\ summaries' = [v \in DOMAIN summaries' |-> summaries'[v]]
         /\ lastSummarized' = j.summary.to
<1>1. j.version \in Nat \ {0} /\ j.summary \in Summary
  BY DEF SummariesTypeOK, HasLatest, Payload
<1> QED BY <1>1 DEF Land, StoreSummary

LEMMA SummariesTypeStep ==
  ASSUME SummariesTypeOK, HasLatest, [SummariesNext]_summariesVars
  PROVE  SummariesTypeOK'
<1>1. CASE UNCHANGED summariesVars
  BY <1>1 DEF summariesVars, rows, caller, history, SummariesTypeOK
<1>2. ASSUME NEW c \in Turns \cup Pushes, TakeNumber(c)
      PROVE  SummariesTypeOK'
  <2>1. c \in Actors
    BY DEF Actors, Callers
  <2>2. NextSeqs \subseteq Nat
    BY DEF NextSeqs, SummariesTypeOK
  <2>3. number' \in [Actors -> Nat] /\ pc' \in [Actors -> Pc] /\ smooth' \in BOOLEAN
    BY <1>2, <2>1, <2>2 DEF TakeNumber, SummariesTypeOK, Pc
  <2> QED BY <1>2, <2>3 DEF TakeNumber, SummariesTypeOK, rows
<1>3. ASSUME NEW t \in Turns, SaveUser(t)
      PROVE  SummariesTypeOK'
  BY <1>3 DEF SaveUser, SummariesTypeOK, Message, User, Actors, Callers, Pc, history
<1>4. ASSUME NEW t \in Turns, RefreshRelationship(t)
      PROVE  SummariesTypeOK'
  <2>1. [count |-> messageCount, last |-> lastSummarized, life |-> life] \in Snapshot
    BY ResetsAssumption DEF SummariesTypeOK, Snapshot
  <2> QED BY <1>4, <2>1 DEF RefreshRelationship, SummariesTypeOK, Actors, Callers, Pc, history, rows
<1>5. ASSUME NEW t \in Turns, SaveReply(t)
      PROVE  SummariesTypeOK'
  BY <1>5 DEF SaveReply, SummariesTypeOK, Message, Reply, Actors, Callers, Pc, history
<1>6. ASSUME NEW t \in Turns, FinalizeTurn(t)
      PROVE  SummariesTypeOK'
  BY <1>6 DEF FinalizeTurn, SummariesTypeOK, Actors, Callers, Pc, history
<1>7. ASSUME NEW t \in Turns, FailTurn(t)
      PROVE  SummariesTypeOK'
  <2>1. t \in Actors /\ "failed" \in Pc
    BY DEF Actors, Callers, Pc
  <2> QED BY <1>7, <2>1, LeaveType DEF FailTurn, SummariesTypeOK, history, rows
<1>8. ASSUME NEW p \in Pushes, SavePush(p)
      PROVE  SummariesTypeOK'
  <2>1. p \in Actors /\ "done" \in Pc /\ Push(p) \in Message
    BY DEF Actors, Pc, Message
  <2> QED BY <1>8, <2>1, LeaveType DEF SavePush, SummariesTypeOK, history
<1>9. ASSUME NEW r \in Askers, Ask(r)
      PROVE  SummariesTypeOK'
  <2>1. [count |-> messageCount, last |-> lastSummarized, life |-> life] \in Snapshot
    BY ResetsAssumption DEF SummariesTypeOK, Snapshot
  <2> QED BY <1>9, <2>1 DEF Ask, SummariesTypeOK, Actors, Callers, Pc, rows
<1>10. ASSUME NEW c \in Callers, Look(c)
       PROVE  SummariesTypeOK'
  <2>1. c \in Actors /\ "done" \in Pc /\ "looked" \in Pc
    BY DEF Actors, Pc
  <2>2. CASE Crossed(c)
    <3>1. [version |-> LatestVersion, covers |-> Known] \in [version : Nat, covers : SUBSET Message]
      BY LatestIs, KnownType
    <3>2. /\ latest' = [latest EXCEPT ![c] = [version |-> LatestVersion, covers |-> Known]]
          /\ pc' = [pc EXCEPT ![c] = "looked"]
          /\ UNCHANGED <<rows, number, snap, jobs, history>>
      BY <1>10, <2>2 DEF Look
    <3> QED BY <2>1, <3>1, <3>2 DEF SummariesTypeOK, history, rows
  <2>3. CASE ~Crossed(c)
    BY <1>10, <2>1, <2>3, LeaveType DEF Look, SummariesTypeOK, history, rows
  <2> QED BY <2>2, <2>3
<1>11. ASSUME NEW c \in Callers, Spawn(c)
       PROVE  SummariesTypeOK'
  <2>1. c \in Actors /\ "done" \in Pc
    BY DEF Actors, Pc
  <2>2. jobs' \subseteq Payload
    BY <1>11, JobType DEF SummariesTypeOK
  <2>3. smooth' \in BOOLEAN
    BY <1>11 DEF Spawn, SummariesTypeOK
  <2>4. Leave(c, "done") /\ UNCHANGED <<rows, life, torn>>
    BY <1>11 DEF Spawn
  <2> QED BY <2>1, <2>2, <2>3, <2>4, LeaveType DEF SummariesTypeOK, rows
<1>12. ASSUME NEW j \in jobs, Land(j)
       PROVE  SummariesTypeOK'
  <2>1. \A v \in DOMAIN summaries' : summaries'[v] \in Summary
    BY <1>12, StoreSummaryAdds DEF SummariesTypeOK
  <2>2. DOMAIN summaries' \subseteq Nat \ {0} /\ lastSummarized' \in Nat
    BY <1>12, StoreSummaryAdds DEF SummariesTypeOK, Summary
  <2> QED BY <1>12, <2>1, <2>2 DEF Land, SummariesTypeOK, caller, history
<1>13. ASSUME NEW j \in jobs, Lose(j)
       PROVE  SummariesTypeOK'
  BY <1>13 DEF Lose, SummariesTypeOK, rows, caller
<1>14. CASE ResetRelationship
  <2>1. DOMAIN summaries' = {}
    BY <1>14 DEF ResetRelationship
  <2>2. life' \in 0..MaxResets /\ torn' \in BOOLEAN /\ smooth' \in BOOLEAN
    BY <1>14, ResetsAssumption DEF ResetRelationship, SummariesTypeOK
  <2> QED BY <1>14, <2>1, <2>2 DEF ResetRelationship, SummariesTypeOK, caller
<1> QED
  BY <1>1, <1>2, <1>3, <1>4, <1>5, <1>6, <1>7, <1>8, <1>9, <1>10, <1>11, <1>12, <1>13, <1>14,
     SummariesCases

LEMMA HasLatestStep ==
  ASSUME SummariesTypeOK, HasLatest, [SummariesNext]_summariesVars
  PROVE  HasLatest'
<1>1. CASE \E j \in jobs : Land(j)
  <2>1. PICK j \in jobs : Land(j)
    BY <1>1
  <2>2. jobs' \subseteq jobs
    BY <2>1 DEF Land
  <2>3. \E v \in DOMAIN summaries' : \A w \in DOMAIN summaries' : w <= v
    <3>0. /\ DOMAIN summaries \subseteq Nat /\ j.version \in Nat
          /\ DOMAIN summaries' = DOMAIN summaries \cup {j.version}
      BY <2>1, StoreSummaryAdds DEF SummariesTypeOK
    <3>1. CASE \A w \in DOMAIN summaries : w <= j.version
      BY <3>0, <3>1
    <3>2. CASE \E w \in DOMAIN summaries : ~(w <= j.version)
      <4>1. LatestVersion \in DOMAIN summaries /\ \A w \in DOMAIN summaries : w <= LatestVersion
        BY <3>2, LatestIs
      <4>2. j.version <= LatestVersion
        BY <3>0, <3>2, <4>1
      <4> QED BY <3>0, <4>1, <4>2
    <3> QED BY <3>1, <3>2
  <2> QED BY <2>1, <2>2, <2>3, StoreSummaryAdds DEF HasLatest, LatestVersions
<1>2. CASE ResetRelationship
  BY <1>2 DEF ResetRelationship, HasLatest, LatestVersions
<1>3. CASE \E c \in Callers : Spawn(c)
  <2>1. PICK c \in Callers : Spawn(c)
    BY <1>3
  <2>2. summaries' = summaries
    BY <2>1 DEF Spawn, rows
  <2> QED BY <2>1, <2>2, JobType DEF HasLatest, LatestVersions
<1>4. CASE summaries' = summaries /\ jobs' \subseteq jobs
  BY <1>4 DEF HasLatest, LatestVersions
<1>5. \/ \E j \in jobs : Land(j)
      \/ ResetRelationship
      \/ \E c \in Callers : Spawn(c)
      \/ summaries' = summaries /\ jobs' \subseteq jobs
  BY SummariesCases DEF summariesVars, rows, TakeNumber, SaveUser, RefreshRelationship, SaveReply,
     FinalizeTurn, FailTurn, SavePush, Ask, Look, Lose
<1> QED BY <1>1, <1>2, <1>3, <1>4, <1>5

(***************************************************************************)
(* The rows that turns and pushes write                                    *)
(***************************************************************************)
\* Rows and the progress of the turn that writes them.
WroteRows(t) ==
  /\ pc[t] \in {"idle", "numbered"} => User(t) \notin Rows
  /\ pc[t] \in {"idle", "numbered", "saved", "fresh", "failed"} => Reply(t) \notin Rows
  /\ ~torn /\ pc[t] \in {"saved", "fresh"} => User(t) \in Rows /\ number[t] = seqOf[User(t)]
  /\ ~torn /\ pc[t] \in {"answered", "counted", "looked"} =>
       User(t) \in Rows /\ Reply(t) \in Rows

Writing ==
  /\ \A c \in Actors : pc[c] = "numbered" => number[c] > 0
  /\ \A t \in Turns : WroteRows(t)
  /\ \A p \in Pushes : pc[p] # "done" => Push(p) \notin Rows

\* A row is one call's.
LEMMA MessagesDiffer ==
  ASSUME NEW t \in Turns, NEW u \in Turns, NEW p \in Pushes, NEW q \in Pushes
  PROVE  /\ User(t) \in Message /\ Reply(t) \in Message /\ Push(p) \in Message
         /\ User(t) # Reply(u) /\ User(t) # Push(p) /\ Reply(t) # Push(p)
         /\ t # u => User(t) # User(u) /\ Reply(t) # Reply(u)
         /\ p # q => Push(p) # Push(q)
BY DEF User, Reply, Push, Message

LEMMA TurnMessagesDiffer ==
  ASSUME NEW t \in Turns, NEW u \in Turns
  PROVE  /\ User(t) \in Message /\ Reply(t) \in Message
         /\ User(t) # Reply(u)
         /\ t # u => User(t) # User(u) /\ Reply(t) # Reply(u)
BY DEF User, Reply, Message

LEMMA CallersDiffer ==
  /\ \A t \in Turns : t \in Callers /\ t \in Actors /\ t \notin Pushes /\ t \notin Askers
  /\ \A p \in Pushes : p \in Actors /\ p \notin Turns /\ p \notin Askers /\ p \notin Callers
  /\ \A r \in Askers : r \in Callers /\ r \in Actors /\ r \notin Turns /\ r \notin Pushes
  /\ \A c \in Actors : c \in Turns \/ c \in Pushes \/ c \in Askers
  /\ \A c \in Callers : c \in Actors /\ (c \in Turns \/ c \in Askers)
BY CallerAssumption DEF Callers, Actors

\* Writing a row under a number that is not 0.
LEMMA RowAdded ==
  ASSUME SummariesTypeOK, NEW m \in Message, NEW n \in Nat \ {0},
         seqOf' = [seqOf EXCEPT ![m] = n]
  PROVE  /\ Rows' = Rows \cup {m} /\ seqOf'[m] = n
         /\ \A k \in Message : k # m => seqOf'[k] = seqOf[k]
BY DEF SummariesTypeOK, Rows

LEMMA RowsKept ==
  ASSUME UNCHANGED seqOf
  PROVE  Rows' = Rows
BY DEF Rows

\* What a step does to the rows of the table.
LEMMA WritingCases ==
  ASSUME [SummariesNext]_summariesVars
  PROVE  \/ \E t \in Turns : SaveUser(t) \/ SaveReply(t)
         \/ \E p \in Pushes : SavePush(p)
         \/ ResetRelationship
         \/ UNCHANGED <<seqOf, torn, life>>
BY SummariesCases DEF summariesVars, rows, history, TakeNumber, RefreshRelationship, FinalizeTurn,
   FailTurn, Ask, Look, Spawn, Land, Lose

\* A turn that a step of another leaves alone.
LEMMA WroteKept ==
  ASSUME NEW t \in Turns, WroteRows(t), pc'[t] = pc[t], number'[t] = number[t], torn' = torn,
         User(t) \in Rows' <=> User(t) \in Rows, Reply(t) \in Rows' <=> Reply(t) \in Rows,
         seqOf'[User(t)] = seqOf[User(t)]
  PROVE  WroteRows(t)'
BY DEF WroteRows

LEMMA WritingStep ==
  ASSUME SummariesTypeOK, Writing, [SummariesNext]_summariesVars
  PROVE  Writing'
<1>1. ASSUME NEW t \in Turns, SaveUser(t)
      PROVE  Writing'
  <2>1. /\ number[t] \in Nat \ {0} /\ User(t) \in Message
        /\ pc' = [pc EXCEPT ![t] = "saved"] /\ UNCHANGED <<number, torn>>
        /\ seqOf' = [seqOf EXCEPT ![User(t)] = number[t]]
        /\ pc[t] = "numbered"
    BY <1>1, CallersDiffer, TurnMessagesDiffer DEF SaveUser, history, Writing, SummariesTypeOK
  <2>2. /\ Rows' = Rows \cup {User(t)} /\ seqOf'[User(t)] = number[t]
        /\ \A k \in Message : k # User(t) => seqOf'[k] = seqOf[k]
    BY <2>1, RowAdded
  <2>3. \A u \in Turns \ {t} : WroteRows(u)'
    BY <2>1, <2>2, WroteKept, TurnMessagesDiffer, CallersDiffer DEF Writing, SummariesTypeOK
  <2>4. WroteRows(t)'
    BY <2>1, <2>2, TurnMessagesDiffer, CallersDiffer DEF Writing, WroteRows, SummariesTypeOK
  <2>5. \A c \in Actors : pc'[c] = "numbered" => number'[c] > 0
    BY <2>1, CallersDiffer DEF Writing, SummariesTypeOK
  <2>6. \A p \in Pushes : pc'[p] # "done" => Push(p) \notin Rows'
    BY <2>1, <2>2, MessagesDiffer, CallersDiffer DEF Writing, SummariesTypeOK
  <2> QED BY <2>3, <2>4, <2>5, <2>6 DEF Writing
<1>2. ASSUME NEW t \in Turns, SaveReply(t)
      PROVE  Writing'
  <2>1. /\ number[t] + 1 \in Nat \ {0} /\ Reply(t) \in Message
        /\ pc' = [pc EXCEPT ![t] = "answered"] /\ number' = [number EXCEPT ![t] = 0]
        /\ UNCHANGED torn
        /\ seqOf' = [seqOf EXCEPT ![Reply(t)] = number[t] + 1]
        /\ pc[t] = "fresh"
    BY <1>2, CallersDiffer, TurnMessagesDiffer DEF SaveReply, history, SummariesTypeOK
  <2>2. /\ Rows' = Rows \cup {Reply(t)}
        /\ \A k \in Message : k # Reply(t) => seqOf'[k] = seqOf[k]
    BY <2>1, RowAdded
  <2>3. \A u \in Turns \ {t} : WroteRows(u)'
    BY <2>1, <2>2, WroteKept, TurnMessagesDiffer, CallersDiffer DEF Writing, SummariesTypeOK
  <2>4. WroteRows(t)'
    BY <2>1, <2>2, TurnMessagesDiffer, CallersDiffer DEF Writing, WroteRows, SummariesTypeOK
  <2>5. \A c \in Actors : pc'[c] = "numbered" => number'[c] > 0
    BY <2>1, CallersDiffer DEF Writing, SummariesTypeOK
  <2>6. \A p \in Pushes : pc'[p] # "done" => Push(p) \notin Rows'
    BY <2>1, <2>2, MessagesDiffer, CallersDiffer DEF Writing, SummariesTypeOK
  <2> QED BY <2>3, <2>4, <2>5, <2>6 DEF Writing
<1>3. ASSUME NEW p \in Pushes, SavePush(p)
      PROVE  Writing'
  <2>1. /\ number[p] \in Nat \ {0} /\ Push(p) \in Message
        /\ pc' = [pc EXCEPT ![p] = "done"] /\ number' = [number EXCEPT ![p] = 0]
        /\ UNCHANGED torn
        /\ seqOf' = [seqOf EXCEPT ![Push(p)] = number[p]]
    BY <1>3, CallersDiffer DEF SavePush, Leave, history, Writing, SummariesTypeOK, Message
  <2>2. /\ Rows' = Rows \cup {Push(p)}
        /\ \A k \in Message : k # Push(p) => seqOf'[k] = seqOf[k]
    BY <2>1, RowAdded
  <2>3. \A u \in Turns : WroteRows(u)'
    BY <2>1, <2>2, WroteKept, MessagesDiffer, CallersDiffer DEF Writing, SummariesTypeOK
  <2>5. \A c \in Actors : pc'[c] = "numbered" => number'[c] > 0
    BY <2>1, CallersDiffer DEF Writing, SummariesTypeOK
  <2>6. \A q \in Pushes : pc'[q] # "done" => Push(q) \notin Rows'
    <3> SUFFICES ASSUME NEW q \in Pushes, pc'[q] # "done" PROVE Push(q) \notin Rows'
      OBVIOUS
    <3>1. q # p
      BY <2>1, CallersDiffer DEF SummariesTypeOK
    <3>2. Push(q) # Push(p)
      BY <3>1 DEF Push
    <3> QED BY <2>1, <2>2, <3>1, <3>2, CallersDiffer DEF Writing, SummariesTypeOK
  <2> QED BY <2>3, <2>5, <2>6 DEF Writing
<1>4. CASE ResetRelationship
  <2>1. /\ Rows' = {} /\ UNCHANGED <<pc, number>> /\ (torn' \/ Quiet)
    BY <1>4 DEF ResetRelationship, Rows, caller
  <2>2. \A t \in Turns : WroteRows(t)'
    BY <2>1, CallersDiffer DEF WroteRows, Quiet, Busy
  <2> QED BY <2>1, <2>2 DEF Writing
<1>5. CASE UNCHANGED <<seqOf, torn>>
  <2>1. Rows' = Rows
    BY <1>5, RowsKept
  <2>2. ASSUME UNCHANGED <<pc, number>>
        PROVE  Writing'
    BY <1>5, <2>1, <2>2, WroteKept DEF Writing
  <2>3. ASSUME NEW c \in Turns \cup Pushes, TakeNumber(c)
        PROVE  Writing'
    <3>1. PICK n \in NextSeqs : number' = [number EXCEPT ![c] = n]
      BY <2>3 DEF TakeNumber
    <3>2. n > 0
      BY <3>1 DEF NextSeqs, SummariesTypeOK
    <3>3. pc' = [pc EXCEPT ![c] = "numbered"] /\ pc[c] = "idle" /\ c \in Actors
      BY <2>3, CallersDiffer DEF TakeNumber
    <3>4. \A t \in Turns : WroteRows(t)'
      BY <1>5, <2>1, <3>1, <3>3, CallersDiffer DEF Writing, WroteRows, SummariesTypeOK
    <3>5. \A d \in Actors : pc'[d] = "numbered" => number'[d] > 0
      BY <3>1, <3>2, <3>3 DEF Writing, SummariesTypeOK
    <3>6. \A p \in Pushes : pc'[p] # "done" => Push(p) \notin Rows'
      BY <2>1, <3>3, CallersDiffer DEF Writing, SummariesTypeOK
    <3> QED BY <3>4, <3>5, <3>6 DEF Writing
  <2>4. ASSUME NEW t \in Turns, NEW how \in {"fresh", "counted", "looked", "done", "failed"},
               pc' = [pc EXCEPT ![t] = how],
               number' = number \/ number' = [number EXCEPT ![t] = 0],
               \/ how = "fresh" /\ pc[t] = "saved" /\ number' = number
               \/ how = "counted" /\ pc[t] = "answered"
               \/ how = "looked" /\ pc[t] = "counted"
               \/ how = "done"
               \/ how = "failed" /\ pc[t] = "fresh"
        PROVE  Writing'
    <3>1. \A u \in Turns \ {t} : WroteRows(u)'
      BY <1>5, <2>1, <2>4, WroteKept, CallersDiffer DEF Writing, SummariesTypeOK
    <3>2. WroteRows(t)'
      BY <1>5, <2>1, <2>4, CallersDiffer DEF Writing, WroteRows, SummariesTypeOK
    <3>3. \A d \in Actors : pc'[d] = "numbered" => number'[d] > 0
      BY <2>4, CallersDiffer DEF Writing, SummariesTypeOK
    <3>4. \A p \in Pushes : pc'[p] # "done" => Push(p) \notin Rows'
      BY <2>1, <2>4, CallersDiffer DEF Writing, SummariesTypeOK
    <3> QED BY <3>1, <3>2, <3>3, <3>4 DEF Writing
  <2>5. ASSUME NEW r \in Askers, NEW how \in {"counted", "looked", "done"},
               pc' = [pc EXCEPT ![r] = how],
               number' = number \/ number' = [number EXCEPT ![r] = 0]
        PROVE  Writing'
    <3>1. \A u \in Turns : WroteRows(u)'
      BY <1>5, <2>1, <2>5, WroteKept, CallersDiffer DEF Writing, SummariesTypeOK
    <3>3. \A d \in Actors : pc'[d] = "numbered" => number'[d] > 0
      BY <2>5, CallersDiffer DEF Writing, SummariesTypeOK
    <3>4. \A p \in Pushes : pc'[p] # "done" => Push(p) \notin Rows'
      BY <2>1, <2>5, CallersDiffer DEF Writing, SummariesTypeOK
    <3> QED BY <3>1, <3>3, <3>4 DEF Writing
  <2>6. ASSUME NEW t \in Turns, RefreshRelationship(t) \/ FinalizeTurn(t) \/ FailTurn(t)
        PROVE  Writing'
    BY <2>4, <2>6 DEF RefreshRelationship, FinalizeTurn, FailTurn, Leave
  <2>7. ASSUME NEW c \in Callers, Look(c) \/ Spawn(c)
        PROVE  Writing'
    <3>1. PICK how \in {"looked", "done"} :
            /\ pc' = [pc EXCEPT ![c] = how]
            /\ number' = number \/ number' = [number EXCEPT ![c] = 0]
            /\ how = "looked" => pc[c] = "counted"
      BY <2>7 DEF Look, Spawn, Leave
    <3> QED BY <2>4, <2>5, <3>1, CallersDiffer
  <2>8. ASSUME NEW r \in Askers, Ask(r)
        PROVE  Writing'
    BY <2>5, <2>8 DEF Ask
  <2>9. ASSUME NEW t \in Turns, SaveUser(t) \/ SaveReply(t)
        PROVE  Writing'
    BY <1>1, <1>2, <2>9
  <2>10. ASSUME NEW p \in Pushes, SavePush(p)
         PROVE  Writing'
    BY <1>3, <2>10
  <2>11. ASSUME NEW j \in jobs, Land(j) \/ Lose(j)
         PROVE  Writing'
    BY <2>2, <2>11 DEF Land, Lose, caller
  <2>12. CASE UNCHANGED summariesVars
    BY <2>2, <2>12 DEF summariesVars, caller
  <2> QED
    BY <1>4, <2>3, <2>6, <2>7, <2>8, <2>9, <2>10, <2>11, <2>12, SummariesCases
<1> QED BY <1>1, <1>2, <1>3, <1>4, <1>5, WritingCases

(***************************************************************************)
(* Summaries follow each other                                             *)
(***************************************************************************)
\* The versions are numbered without a gap; a caller, and a job, go on from one of
\* them, and what it covers is not lost.
CoveredBy(v) == IF v = 0 THEN {} ELSE summaries[v].covers
Versions == {0} \cup DOMAIN summaries

Versioned ==
  ~torn =>
    /\ DOMAIN summaries = 1..LatestVersion
    /\ \A c \in Callers : pc[c] = "looked" =>
         /\ latest[c].version \in Versions
         /\ latest[c].covers = CoveredBy(latest[c].version)
    /\ \A j \in jobs :
         /\ j.version - 1 \in Versions
         /\ CoveredBy(j.version - 1) \subseteq j.summary.covers

\* The latest version is one of the versions, and what is known is its text.
LEMMA LatestCovers ==
  ASSUME SummariesTypeOK, HasLatest
  PROVE  LatestVersion \in Versions /\ CoveredBy(LatestVersion) = Known
BY LatestIs DEF Versions, CoveredBy, SummariesTypeOK

\* Without a reset in flight a job lands as the next version, and its text goes
\* on where the latest one ended.
LEMMA LandsNext ==
  ASSUME SummariesTypeOK, HasLatest, Versioned, ~torn, NEW j \in jobs, Land(j)
  PROVE  /\ j.version = LatestVersion + 1
         /\ LatestVersion' = j.version
         /\ DOMAIN summaries' = 1 .. LatestVersion'
         /\ Known' = j.summary.covers
         /\ Known \subseteq Known'
         /\ Versions \subseteq Versions'
         /\ \A v \in Versions : CoveredBy(v)' = CoveredBy(v)
<1>1. LatestVersion \in Nat /\ DOMAIN summaries = 1 .. LatestVersion
  BY LatestIs DEF Versioned
<1>2. j.version \in Nat \ {0} /\ j.version \notin DOMAIN summaries
  BY StoreSummaryAdds
<1>3. j.version - 1 \in {0} \cup DOMAIN summaries
  BY DEF Versioned, Versions
<1>4. j.version = LatestVersion + 1
  BY <1>1, <1>2, <1>3
<1>5. DOMAIN summaries' = 1 .. j.version
  <2>1. DOMAIN summaries' = DOMAIN summaries \cup {j.version}
    BY StoreSummaryAdds
  <2> QED BY <1>1, <1>2, <1>4, <2>1
<1>6. LatestVersions' = {j.version}
  BY <1>2, <1>5 DEF LatestVersions
<1>7. LatestVersion' = j.version
  <2>1. summaries' # <<>>
    BY <1>2, <1>5
  <2> QED BY <1>6, <2>1 DEF LatestVersion
<1>8. Known' = j.summary.covers
  <2>1. summaries'[j.version].covers = j.summary.covers
    BY StoreSummaryAdds
  <2> QED BY <1>6, <2>1 DEF Known
<1>9. CoveredBy(j.version - 1) \subseteq j.summary.covers
  BY DEF Versioned
<1>10. j.version - 1 = LatestVersion
  BY <1>1, <1>4
<1>11. Known \subseteq Known'
  BY <1>8, <1>9, <1>10, LatestCovers
<1>12. Versions \subseteq Versions' /\ \A v \in Versions : CoveredBy(v)' = CoveredBy(v)
  BY StoreSummaryAdds, <1>2 DEF Versions, CoveredBy, SummariesTypeOK
<1> QED BY <1>4, <1>5, <1>7, <1>8, <1>11, <1>12

\* What a step does to the versions that are stored.
LEMMA StoringCases ==
  ASSUME [SummariesNext]_summariesVars
  PROVE  \/ \E j \in jobs : Land(j)
         \/ ResetRelationship
         \/ UNCHANGED <<summaries, lastSummarized, torn>>
BY SummariesCases DEF summariesVars, rows, history, TakeNumber, RefreshRelationship, FinalizeTurn,
   FailTurn, Ask, Look, Spawn, Lose, SaveUser, SaveReply, SavePush

LEMMA SummariesKept ==
  ASSUME UNCHANGED summaries
  PROVE  /\ Known' = Known /\ LatestVersion' = LatestVersion /\ Versions' = Versions
         /\ LatestVersions' = LatestVersions
         /\ \A v : CoveredBy(v)' = CoveredBy(v)
BY DEF Known, LatestVersions, LatestVersion, Versions, CoveredBy

\* After a reset that met nothing, nothing is stored and nothing in flight.
LEMMA CleanReset ==
  ASSUME SummariesTypeOK, ResetRelationship, ~torn'
  PROVE  /\ ~torn /\ Quiet /\ jobs' = {} /\ UNCHANGED <<pc, number, snap, latest>>
         /\ \A c \in Actors : pc'[c] \in {"idle", "done", "failed"}
         /\ Rows' = {} /\ summaries' = <<>> /\ DOMAIN summaries' = {}
         /\ LatestVersion' = 0 /\ Known' = {}
         /\ messageCount' = 0 /\ lastSummarized' = 0
<1>1. summaries' = <<>> /\ DOMAIN summaries' = {}
  BY DEF ResetRelationship
<1>2. LatestVersions' = {}
  BY <1>1 DEF LatestVersions
<1>3. LatestVersion' = 0 /\ Known' = {}
  BY <1>1, <1>2 DEF LatestVersion, Known
<1>4. Quiet
  BY DEF ResetRelationship, SummariesTypeOK
<1> QED BY <1>1, <1>3, <1>4 DEF ResetRelationship, SummariesTypeOK, Quiet, Busy, Rows, caller

LEMMA VersionedStep ==
  ASSUME SummariesTypeOK, HasLatest, Versioned, [SummariesNext]_summariesVars
  PROVE  Versioned'
<1> SUFFICES ASSUME ~torn'
             PROVE  Versioned'
  BY DEF Versioned
<1>1. ASSUME NEW j \in jobs, Land(j)
      PROVE  Versioned'
  <2>1. ~torn /\ jobs' = jobs \ {j} /\ UNCHANGED <<pc, latest, torn>>
    BY <1>1 DEF Land, caller, history
  <2> QED BY <1>1, <2>1, LandsNext DEF Versioned
<1>2. CASE ResetRelationship
  <2>1. 1 .. 0 = {}
    OBVIOUS
  <2>2. \A c \in Callers : pc'[c] # "looked"
    BY <1>2, CleanReset, CallersDiffer
  <2> QED BY <1>2, <2>1, <2>2, CleanReset DEF Versioned
<1>3. CASE UNCHANGED <<summaries, lastSummarized, torn>>
  <2>1. /\ ~torn /\ LatestVersion' = LatestVersion /\ Versions' = Versions
        /\ \A v : CoveredBy(v)' = CoveredBy(v)
    BY <1>3, SummariesKept
  <2>2. /\ DOMAIN summaries' = 1 .. LatestVersion'
        /\ \A c \in Callers : pc[c] = "looked" =>
             /\ latest[c].version \in Versions
             /\ latest[c].covers = CoveredBy(latest[c].version)
        /\ \A j \in jobs : /\ j.version - 1 \in Versions
                           /\ CoveredBy(j.version - 1) \subseteq j.summary.covers
    BY <1>3, <2>1 DEF Versioned
  <2>3. ASSUME \A c \in Callers : pc'[c] = "looked" => pc[c] = "looked" /\ latest'[c] = latest[c],
               jobs' \subseteq jobs
        PROVE  Versioned'
    BY <2>1, <2>2, <2>3 DEF Versioned
  <2>4. ASSUME NEW c \in Callers, Look(c)
        PROVE  Versioned'
    <3>1. CASE Crossed(c)
      <4>1. /\ latest' = [latest EXCEPT ![c] = [version |-> LatestVersion, covers |-> Known]]
            /\ pc' = [pc EXCEPT ![c] = "looked"] /\ jobs' = jobs
        BY <2>4, <3>1 DEF Look
      <4>2. /\ latest'[c].version = LatestVersion /\ latest'[c].covers = Known
            /\ \A d \in Callers : d # c => latest'[d] = latest[d] /\ pc'[d] = pc[d]
        BY <4>1, CallersDiffer DEF SummariesTypeOK
      <4>3. \A d \in Callers : pc'[d] = "looked" =>
              /\ latest'[d].version \in Versions
              /\ latest'[d].covers = CoveredBy(latest'[d].version)
        BY <2>2, <4>2, LatestCovers
      <4> QED BY <2>1, <2>2, <4>1, <4>3 DEF Versioned
    <3>2. CASE ~Crossed(c)
      <4>1. Leave(c, "done") /\ jobs' = jobs
        BY <2>4, <3>2 DEF Look
      <4> QED BY <2>3, <4>1, CallersDiffer DEF Leave, SummariesTypeOK
    <3> QED BY <3>1, <3>2
  <2>5. ASSUME NEW c \in Callers, Spawn(c)
        PROVE  Versioned'
    <3>1. Leave(c, "done") /\ pc[c] = "looked"
      BY <2>5 DEF Spawn
    <3>2. \A d \in Callers : pc'[d] = "looked" => pc[d] = "looked" /\ latest'[d] = latest[d]
      BY <3>1, CallersDiffer DEF Leave, SummariesTypeOK
    <3>3. /\ latest[c].version \in Nat
          /\ JobOf(c).version = latest[c].version + 1
          /\ JobOf(c).summary.covers =
               latest[c].covers \cup InRange(snap[c].last + 1, WindowEnd(c))
      BY CallersDiffer DEF SummariesTypeOK, JobOf, NextVersion
    <3>4. /\ JobOf(c).version - 1 = latest[c].version
          /\ latest[c].covers \subseteq JobOf(c).summary.covers
      BY <3>3
    <3>5. \A j \in jobs' : /\ j.version - 1 \in Versions
                           /\ CoveredBy(j.version - 1) \subseteq j.summary.covers
      BY <2>2, <2>5, <3>1, <3>4, JobType
    <3> QED BY <2>1, <2>2, <3>2, <3>5 DEF Versioned
  <2>6. ASSUME NEW j \in jobs, Land(j)
        PROVE  Versioned'
    BY <1>1, <2>6
  <2>7. ASSUME NEW j \in jobs, Lose(j)
        PROVE  Versioned'
    BY <2>3, <2>7 DEF Lose, caller
  <2>8. ASSUME NEW c \in Actors, NEW how \in Pc, how # "looked", pc' = [pc EXCEPT ![c] = how],
               \A d \in Actors : d # c => latest'[d] = latest[d], jobs' = jobs
        PROVE  Versioned'
    BY <2>3, <2>8, CallersDiffer DEF SummariesTypeOK
  <2>9. ASSUME NEW c \in Turns \cup Pushes, TakeNumber(c)
        PROVE  Versioned'
    BY <2>8, <2>9, CallersDiffer DEF TakeNumber, Pc
  <2>10. ASSUME NEW t \in Turns,
                \/ SaveUser(t) \/ RefreshRelationship(t)
                \/ SaveReply(t) \/ FinalizeTurn(t)
         PROVE  Versioned'
    BY <2>8, <2>10, CallersDiffer DEF SaveUser, RefreshRelationship, SaveReply, FinalizeTurn, Pc
  <2>11. ASSUME NEW t \in Turns, FailTurn(t)
         PROVE  Versioned'
    BY <2>8, <2>11, CallersDiffer DEF FailTurn, Leave, Pc, SummariesTypeOK
  <2>12. ASSUME NEW p \in Pushes, SavePush(p)
         PROVE  Versioned'
    BY <2>8, <2>12, CallersDiffer DEF SavePush, Leave, Pc, SummariesTypeOK
  <2>13. ASSUME NEW r \in Askers, Ask(r)
         PROVE  Versioned'
    BY <2>8, <2>13, CallersDiffer DEF Ask, Pc
  <2>14. CASE UNCHANGED summariesVars
    BY <2>3, <2>14 DEF summariesVars, caller
  <2> QED
    BY <1>2, <2>4, <2>5, <2>6, <2>7, <2>9, <2>10, <2>11, <2>12, <2>13, <2>14, SummariesCases
<1> QED BY <1>1, <1>2, <1>3, StoringCases

\* A step of the action property.
LEMMA KnowledgeStep ==
  ASSUME SummariesTypeOK, HasLatest, Versioned, [SummariesNext]_summariesVars, life' = life, ~torn
  PROVE  Known \subseteq Known'
<1>1. ~ResetRelationship
  BY ResetsAssumption DEF ResetRelationship, SummariesTypeOK
<1> QED BY <1>1, StoringCases, LandsNext, SummariesKept

(***************************************************************************)
(* What is counted are rows                                                *)
(***************************************************************************)
\* The count is that of the rows of finalized turns, and no snapshot is ahead of it.
CountedRows ==
  {m \in Rows : \E t \in Turns : /\ pc[t] \in {"counted", "looked", "done"}
                                /\ m \in {User(t), Reply(t)}}

Counting ==
  ~torn =>
    /\ messageCount = Cardinality(CountedRows)
    /\ \A t \in Turns :
         /\ pc[t] \in {"fresh", "answered"} => snap[t].count <= messageCount
         /\ pc[t] \in {"counted", "looked"} => snap[t].count + 2 <= messageCount
    /\ \A r \in Askers : pc[r] \in {"counted", "looked"} => snap[r].count <= messageCount

Size == Cardinality(Rows)

\* The rows that a step leaves counted.
LEMMA CountedKept ==
  ASSUME \A t \in Turns : pc'[t] \in {"counted", "looked", "done"} <=>
                            pc[t] \in {"counted", "looked", "done"},
         \A t \in Turns : pc[t] \in {"counted", "looked", "done"} =>
           /\ User(t) \in Rows' <=> User(t) \in Rows
           /\ Reply(t) \in Rows' <=> Reply(t) \in Rows
  PROVE  CountedRows' = CountedRows
BY DEF CountedRows

\* A finalized turn counts its two rows.
LEMMA CountedTwice ==
  ASSUME SummariesTypeOK, Writing, IsFiniteSet(Rows), ~torn, NEW t \in Turns, FinalizeTurn(t)
  PROVE  Cardinality(CountedRows') = Cardinality(CountedRows) + 2
<1>1. pc[t] = "answered" /\ pc' = [pc EXCEPT ![t] = "counted"] /\ Rows' = Rows
  BY RowsKept DEF FinalizeTurn
<1>2. User(t) \in Rows /\ Reply(t) \in Rows
  BY <1>1 DEF Writing, WroteRows
<1>3. \A u \in Turns : u # t => pc'[u] = pc[u]
  BY <1>1, CallersDiffer DEF SummariesTypeOK
<1>4. pc'[t] = "counted"
  BY <1>1, CallersDiffer DEF SummariesTypeOK
<1>5. CountedRows' = (CountedRows \cup {User(t)}) \cup {Reply(t)}
  BY <1>1, <1>2, <1>3, <1>4 DEF CountedRows
<1>6. User(t) \notin CountedRows /\ Reply(t) \notin CountedRows \cup {User(t)}
  BY <1>1, TurnMessagesDiffer DEF CountedRows
<1>7. IsFiniteSet(CountedRows)
  BY FS_Subset DEF CountedRows
<1>8. /\ IsFiniteSet(CountedRows \cup {User(t)})
      /\ Cardinality(CountedRows \cup {User(t)}) = Cardinality(CountedRows) + 1
  BY <1>6, <1>7, FS_AddElement
<1>9. Cardinality((CountedRows \cup {User(t)}) \cup {Reply(t)}) = (Cardinality(CountedRows) + 1) + 1
  BY <1>6, <1>8, FS_AddElement
<1>10. Cardinality(CountedRows) \in Nat
  BY <1>7, FS_CardinalityType
<1> QED BY <1>5, <1>9, <1>10

\* Nothing is counted that is not a row.
LEMMA CountedAreRows ==
  ASSUME SummariesTypeOK, IsFiniteSet(Rows), Counting, ~torn
  PROVE  /\ messageCount <= Size /\ Size \in Nat /\ messageCount \in Nat
         /\ \A c \in Callers : pc[c] \in {"counted", "looked"} => CountOf(c) <= messageCount
<1>1. CountedRows \subseteq Rows
  BY DEF CountedRows
<1>2. messageCount <= Size
  BY <1>1, FS_Subset DEF Counting, Size
<1>3. Size \in Nat
  BY FS_CardinalityType DEF Size
<1>4. \A c \in Callers : pc[c] \in {"counted", "looked"} => CountOf(c) <= messageCount
  BY CallersDiffer DEF Counting, CountOf
<1> QED BY <1>2, <1>3, <1>4 DEF SummariesTypeOK

\* What the turns and requests that go on hold of the count.
CountedSnap(c) ==
  /\ c \in Turns => /\ pc[c] \in {"fresh", "answered"} => snap[c].count <= messageCount
                    /\ pc[c] \in {"counted", "looked"} => snap[c].count + 2 <= messageCount
  /\ c \in Askers => (pc[c] \in {"counted", "looked"} => snap[c].count <= messageCount)

LEMMA CountingParts ==
  Counting <=> (~torn => /\ messageCount = Cardinality(CountedRows)
                         /\ \A c \in Callers : CountedSnap(c))
BY CallersDiffer DEF Counting, CountedSnap

\* What a step does to what was counted and to the snapshots.
LEMMA CountingStep ==
  ASSUME SummariesTypeOK, Writing, IsFiniteSet(Rows), Counting, [SummariesNext]_summariesVars
  PROVE  Counting'
<1> SUFFICES ASSUME ~torn'
             PROVE  /\ messageCount' = Cardinality(CountedRows')
                    /\ \A c \in Callers : CountedSnap(c)'
  BY CallersDiffer DEF Counting, CountedSnap
<1> DEFINE Goal == /\ messageCount' = Cardinality(CountedRows')
                   /\ \A c \in Callers : CountedSnap(c)'
<1>1. CASE ResetRelationship
  <2>1. CountedRows' = {}
    BY <1>1, CleanReset DEF CountedRows
  <2>2. Cardinality({}) = 0
    BY FS_EmptySet
  <2> QED BY <1>1, <2>1, <2>2, CleanReset, CallersDiffer DEF CountedSnap
<1> SUFFICES ASSUME ~torn, messageCount = Cardinality(CountedRows),
                    \A c \in Callers : CountedSnap(c)
             PROVE  Goal
  <2>1. ~ResetRelationship => ~torn
    BY SummariesCases DEF summariesVars, rows, history, TakeNumber, RefreshRelationship,
       FinalizeTurn, FailTurn, Ask, Look, Spawn, Land, Lose, SaveUser, SaveReply, SavePush
  <2> QED BY <1>1, <2>1, CountingParts
<1> USE DEF Goal
<1>2. ASSUME NEW t \in Turns, FinalizeTurn(t)
      PROVE  Goal
  <2>1. messageCount' = Cardinality(CountedRows')
    BY <1>2, CountedTwice DEF FinalizeTurn
  <2>2. /\ messageCount' = messageCount + 2 /\ snap' = snap
        /\ pc' = [pc EXCEPT ![t] = "counted"] /\ pc[t] = "answered"
    BY <1>2 DEF FinalizeTurn
  <2>3. \A c \in Callers : snap[c].count \in Nat
    BY CallersDiffer DEF SummariesTypeOK, Snapshot
  <2>4. \A c \in Callers : CountedSnap(c)'
    BY <2>2, <2>3, CallersDiffer DEF CountedSnap, SummariesTypeOK
  <2> QED BY <2>1, <2>4
<1>3. ASSUME UNCHANGED messageCount, CountedRows' = CountedRows,
             \A c \in Callers : \/ pc'[c] = pc[c] /\ snap'[c] = snap[c]
                                \/ pc'[c] \notin {"fresh", "answered", "counted", "looked"}
                                \/ /\ snap'[c].count = messageCount
                                   /\ c \in Turns => pc'[c] = "fresh"
                                \/ snap'[c] = snap[c] /\ pc[c] = "fresh" /\ pc'[c] = "answered"
                                \/ snap'[c] = snap[c] /\ pc[c] = "counted" /\ pc'[c] = "looked"
      PROVE  Goal
  BY <1>3, CallersDiffer DEF CountedSnap, SummariesTypeOK
<1>4. ASSUME NEW t \in Turns, SaveUser(t)
      PROVE  Goal
  <2>1. /\ Rows' = Rows \cup {User(t)} /\ pc' = [pc EXCEPT ![t] = "saved"]
        /\ UNCHANGED <<messageCount, snap>> /\ pc[t] = "numbered"
    <3>1. number[t] \in Nat \ {0} /\ seqOf' = [seqOf EXCEPT ![User(t)] = number[t]]
      BY <1>4, CallersDiffer DEF SaveUser, Writing, SummariesTypeOK
    <3> QED BY <1>4, <3>1, TurnMessagesDiffer, RowAdded DEF SaveUser
  <2>2. CountedRows' = CountedRows
    BY <2>1, CountedKept, TurnMessagesDiffer, CallersDiffer DEF SummariesTypeOK
  <2> QED BY <1>3, <2>1, <2>2, CallersDiffer DEF SummariesTypeOK
<1>5. ASSUME NEW t \in Turns, SaveReply(t)
      PROVE  Goal
  <2>1. /\ Rows' = Rows \cup {Reply(t)} /\ pc' = [pc EXCEPT ![t] = "answered"]
        /\ UNCHANGED <<messageCount, snap>> /\ pc[t] = "fresh"
    <3>1. number[t] + 1 \in Nat \ {0} /\ seqOf' = [seqOf EXCEPT ![Reply(t)] = number[t] + 1]
      BY <1>5, CallersDiffer DEF SaveReply, SummariesTypeOK
    <3> QED BY <1>5, <3>1, TurnMessagesDiffer, RowAdded DEF SaveReply
  <2>2. CountedRows' = CountedRows
    BY <2>1, CountedKept, TurnMessagesDiffer, CallersDiffer DEF SummariesTypeOK
  <2> QED BY <1>3, <2>1, <2>2, CallersDiffer DEF SummariesTypeOK
<1>6. ASSUME NEW p \in Pushes, SavePush(p)
      PROVE  Goal
  <2>1. /\ Rows' = Rows \cup {Push(p)} /\ pc' = [pc EXCEPT ![p] = "done"]
        /\ UNCHANGED messageCount /\ snap' = [snap EXCEPT ![p] = Unread]
    <3>1. /\ number[p] \in Nat \ {0} /\ seqOf' = [seqOf EXCEPT ![Push(p)] = number[p]]
          /\ Push(p) \in Message
      BY <1>6, CallersDiffer DEF SavePush, Writing, SummariesTypeOK, Message
    <3> QED BY <1>6, <3>1, RowAdded DEF SavePush, Leave
  <2>2. CountedRows' = CountedRows
    BY <2>1, CountedKept, MessagesDiffer, CallersDiffer DEF SummariesTypeOK
  <2> QED BY <1>3, <2>1, <2>2, CallersDiffer DEF SummariesTypeOK
<1>7. ASSUME UNCHANGED <<seqOf, messageCount>>, NEW a \in Actors, NEW how \in Pc,
             pc' = [pc EXCEPT ![a] = how],
             \/ snap' = snap \/ snap' = [snap EXCEPT ![a] = Unread]
             \/ /\ snap' = [snap EXCEPT ![a] = [count |-> messageCount, last |-> lastSummarized,
                                               life |-> life]]
                /\ (a \in Turns /\ how = "fresh") \/ a \in Askers,
             a \in Turns => (how \in {"counted", "looked", "done"} <=>
                               pc[a] \in {"counted", "looked", "done"}),
             \/ how \notin {"fresh", "answered", "counted", "looked"}
             \/ a \in Turns /\ how = "fresh"
                /\ snap'[a] = [count |-> messageCount, last |-> lastSummarized, life |-> life]
             \/ a \in Askers /\ how = "counted"
                /\ snap'[a] = [count |-> messageCount, last |-> lastSummarized, life |-> life]
             \/ pc[a] = "counted" /\ how = "looked" /\ snap' = snap
      PROVE  Goal
  <2>1. CountedRows' = CountedRows
    BY <1>7, RowsKept, CountedKept, CallersDiffer DEF SummariesTypeOK
  <2>2. \A c \in Callers : c # a => pc'[c] = pc[c] /\ snap'[c] = snap[c]
    BY <1>7, CallersDiffer DEF SummariesTypeOK
  <2>3. pc'[a] = how
    BY <1>7 DEF SummariesTypeOK
  <2> QED BY <1>3, <1>7, <2>1, <2>2, <2>3, CallersDiffer
<1>8. ASSUME NEW c \in Turns \cup Pushes, TakeNumber(c)
      PROVE  Goal
  BY <1>7, <1>8, CallersDiffer DEF TakeNumber, rows, Pc
<1>9. ASSUME NEW t \in Turns, RefreshRelationship(t)
      PROVE  Goal
  BY <1>7, <1>9, CallersDiffer DEF RefreshRelationship, rows, Pc, SummariesTypeOK
<1>10. ASSUME NEW t \in Turns, FailTurn(t)
       PROVE  Goal
  BY <1>7, <1>10, CallersDiffer DEF FailTurn, Leave, rows, Pc
<1>11. ASSUME NEW r \in Askers, Ask(r)
       PROVE  Goal
  BY <1>7, <1>11, CallersDiffer DEF Ask, rows, Pc, SummariesTypeOK
<1>12. ASSUME NEW c \in Callers, Look(c)
       PROVE  Goal
  <2>1. CASE Crossed(c)
    BY <1>7, <1>12, <2>1, CallersDiffer DEF Look, rows, Pc
  <2>2. CASE ~Crossed(c)
    BY <1>7, <1>12, <2>2, CallersDiffer DEF Look, Leave, rows, Pc
  <2> QED BY <2>1, <2>2
<1>13. ASSUME NEW c \in Callers, Spawn(c)
       PROVE  Goal
  BY <1>7, <1>13, CallersDiffer DEF Spawn, Leave, rows, Pc
<1>14. ASSUME UNCHANGED <<seqOf, messageCount, pc, snap>>
       PROVE  Goal
  <2>1. CountedRows' = CountedRows
    BY <1>14, RowsKept DEF CountedRows
  <2> QED BY <1>3, <1>14, <2>1
<1>15. ASSUME NEW j \in jobs, Land(j) \/ Lose(j)
       PROVE  Goal
  BY <1>14, <1>15 DEF Land, Lose, caller, rows
<1>16. CASE UNCHANGED summariesVars
  BY <1>14, <1>16 DEF summariesVars, caller, rows
<1> QED
  BY <1>1, <1>2, <1>4, <1>5, <1>6, <1>8, <1>9, <1>10, <1>11, <1>12, <1>13, <1>15, <1>16,
     SummariesCases

(***************************************************************************)
(* The numbers of the rows                                                 *)
(***************************************************************************)
\* As long as no two rows share a number they are numbered without a gap.
Numbering ==
  /\ IsFiniteSet(Rows)
  /\ ~torn /\ NumbersDiffer =>
       /\ {seqOf[m] : m \in Rows} = 1..Size
       /\ \A c \in Actors : pc[c] = "numbered" => number[c] <= Size + 1

\* A row under a number no other has, of at most one more than there are rows,
\* gets the next number.
LEMMA RowNumbered ==
  ASSUME SummariesTypeOK, Numbering, ~torn, NEW m \in Message \ Rows, NEW n \in Nat \ {0},
         NumbersDiffer => n <= Size + 1,
         seqOf' = [seqOf EXCEPT ![m] = n], NumbersDiffer'
  PROVE  /\ NumbersDiffer /\ n = Size + 1 /\ Size' = Size + 1
         /\ Rows' = Rows \cup {m} /\ seqOf'[m] = n
         /\ {seqOf'[k] : k \in Rows'} = 1 .. Size'
<1>1. /\ Rows' = Rows \cup {m} /\ seqOf'[m] = n
      /\ \A k \in Rows : seqOf'[k] = seqOf[k]
  BY RowAdded DEF Rows
<1>2. NumbersDiffer
  BY <1>1 DEF NumbersDiffer
<1>3. Size' = Size + 1 /\ Size \in Nat
  BY <1>1, FS_AddElement, FS_CardinalityType DEF Size, Numbering
<1>4. {seqOf[k] : k \in Rows} = 1 .. Size
  BY <1>2 DEF Numbering
<1>5. \A k \in Rows : n # seqOf[k]
  BY <1>1 DEF NumbersDiffer
<1>6. n \notin 1 .. Size
  BY <1>4, <1>5
<1>7. n = Size + 1
  BY <1>2, <1>3, <1>6
<1>8. {seqOf'[k] : k \in Rows'} = {seqOf[k] : k \in Rows} \cup {n}
  BY <1>1
<1>9. {seqOf'[k] : k \in Rows'} = 1 .. Size'
  BY <1>3, <1>4, <1>7, <1>8
<1> QED BY <1>1, <1>2, <1>3, <1>7, <1>9

LEMMA RowsCounted ==
  ASSUME Numbering
  PROVE  Size \in Nat
BY FS_CardinalityType DEF Numbering, Size

LEMMA NumberingKept ==
  ASSUME Numbering, UNCHANGED <<seqOf, torn>>,
         \A c \in Actors : pc'[c] = "numbered" => pc[c] = "numbered" /\ number'[c] = number[c]
  PROVE  Numbering'
<1>1. Rows' = Rows /\ (NumbersDiffer' <=> NumbersDiffer)
  BY DEF Rows, NumbersDiffer
<1>2. Size' = Size
  BY <1>1 DEF Size
<1> QED BY <1>1, <1>2 DEF Numbering

\* MAX(seq) + 1 is the number after those of the rows.
LEMMA NextSeqIs ==
  ASSUME SummariesTypeOK, Numbering, ~torn, NumbersDiffer, NEW n \in NextSeqs
  PROVE  n = Size + 1
<1>1. Size \in Nat /\ {seqOf[k] : k \in Rows} = 1 .. Size
  BY RowsCounted DEF Numbering
<1>2. n \in Nat /\ \A k \in Message : seqOf[k] < n
  BY DEF NextSeqs, SummariesTypeOK
<1>3. PICK k \in Message : n = seqOf[k] + 1
  BY DEF NextSeqs
<1>4. seqOf[k] \in 0 .. Size
  <2>1. CASE k \in Rows
    BY <1>1, <2>1
  <2>2. CASE k \notin Rows
    BY <1>1, <2>2 DEF Rows
  <2> QED BY <2>1, <2>2
<1>5. Size < n
  <2>1. CASE Size = 0
    BY <1>2, <1>3, <2>1 DEF SummariesTypeOK
  <2>2. CASE Size # 0
    <3>1. PICK r \in Rows : seqOf[r] = Size
      BY <1>1, <2>2
    <3> QED BY <1>2, <3>1 DEF Rows
  <2> QED BY <2>1, <2>2
<1> QED BY <1>1, <1>2, <1>3, <1>4, <1>5

\* The row that a step writes is a new one, and its number at most the next.
LEMMA NewRow ==
  ASSUME SummariesTypeOK, Writing, Numbering,
         \/ \E t \in Turns : SaveUser(t) \/ SaveReply(t)
         \/ \E p \in Pushes : SavePush(p)
  PROVE  /\ \E m \in Message \ Rows, n \in Nat \ {0} :
              seqOf' = [seqOf EXCEPT ![m] = n] /\ (~torn /\ NumbersDiffer => n <= Size + 1)
         /\ \A c \in Actors : pc'[c] = "numbered" => pc[c] = "numbered" /\ number'[c] = number[c]
         /\ UNCHANGED <<torn, life>>
<1> DEFINE Goal == /\ \E m \in Message \ Rows, n \in Nat \ {0} :
                        /\ seqOf' = [seqOf EXCEPT ![m] = n]
                        /\ ~torn /\ NumbersDiffer => n <= Size + 1
                   /\ \A c \in Actors : pc'[c] = "numbered" =>
                        pc[c] = "numbered" /\ number'[c] = number[c]
                   /\ UNCHANGED <<torn, life>>
<1>1. ASSUME NEW t \in Turns, SaveUser(t)
      PROVE  Goal
  <2>1. /\ User(t) \in Message \ Rows /\ number[t] \in Nat \ {0} /\ UNCHANGED <<torn, life>>
        /\ ~torn /\ NumbersDiffer => number[t] <= Size + 1
    BY <1>1, CallersDiffer, TurnMessagesDiffer
       DEF SaveUser, Writing, WroteRows, history, Numbering, SummariesTypeOK
  <2>2. \A c \in Actors : pc'[c] = "numbered" => pc[c] = "numbered" /\ number'[c] = number[c]
    BY <1>1, CallersDiffer DEF SaveUser, SummariesTypeOK
  <2> QED BY <1>1, <2>1, <2>2 DEF SaveUser
<1>2. ASSUME NEW t \in Turns, SaveReply(t)
      PROVE  Goal
  <2>1. /\ Reply(t) \in Message \ Rows /\ number[t] + 1 \in Nat \ {0} /\ UNCHANGED <<torn, life>>
        /\ number[t] \in Nat /\ pc[t] = "fresh"
    BY <1>2, CallersDiffer, TurnMessagesDiffer
       DEF SaveReply, Writing, WroteRows, history, SummariesTypeOK
  <2>2. ASSUME ~torn, NumbersDiffer
        PROVE  number[t] + 1 <= Size + 1
    <3>1. User(t) \in Rows /\ number[t] = seqOf[User(t)]
      BY <2>1, <2>2 DEF Writing, WroteRows
    <3>2. number[t] \in 1 .. Size
      BY <2>2, <3>1 DEF Numbering
    <3> QED BY <2>1, <3>2, RowsCounted
  <2>3. \A c \in Actors : pc'[c] = "numbered" => pc[c] = "numbered" /\ number'[c] = number[c]
    BY <1>2, CallersDiffer DEF SaveReply, SummariesTypeOK
  <2> QED BY <1>2, <2>1, <2>2, <2>3 DEF SaveReply
<1>3. ASSUME NEW p \in Pushes, SavePush(p)
      PROVE  Goal
  <2>1. /\ Push(p) \in Message \ Rows /\ number[p] \in Nat \ {0} /\ UNCHANGED <<torn, life>>
        /\ ~torn /\ NumbersDiffer => number[p] <= Size + 1
    BY <1>3, CallersDiffer DEF SavePush, Writing, history, Numbering, SummariesTypeOK, Message
  <2>2. \A c \in Actors : pc'[c] = "numbered" => pc[c] = "numbered" /\ number'[c] = number[c]
    BY <1>3, CallersDiffer DEF SavePush, Leave, SummariesTypeOK
  <2> QED BY <1>3, <2>1, <2>2 DEF SavePush
<1> QED BY <1>1, <1>2, <1>3

LEMMA NumberingStep ==
  ASSUME SummariesTypeOK, Writing, Numbering, [SummariesNext]_summariesVars
  PROVE  Numbering'
<1>1. ASSUME NEW m \in Message \ Rows, NEW n \in Nat \ {0}, seqOf' = [seqOf EXCEPT ![m] = n],
             torn' = torn, ~torn /\ NumbersDiffer => n <= Size + 1,
             \A c \in Actors : pc'[c] = "numbered" => pc[c] = "numbered" /\ number'[c] = number[c]
      PROVE  Numbering'
  <2>1. IsFiniteSet(Rows')
    <3>1. Rows' = Rows \cup {m}
      BY <1>1, RowAdded
    <3> QED BY <3>1, FS_AddElement DEF Numbering
  <2>2. ASSUME ~torn, NumbersDiffer'
        PROVE  /\ {seqOf'[k] : k \in Rows'} = 1 .. Size'
               /\ \A c \in Actors : pc'[c] = "numbered" => number'[c] <= Size' + 1
    <3>1. NumbersDiffer /\ Size' = Size + 1 /\ {seqOf'[k] : k \in Rows'} = 1 .. Size'
      BY <1>1, <2>2, RowNumbered
    <3>2. \A c \in Actors : pc[c] = "numbered" => number[c] <= Size + 1
      BY <2>2, <3>1 DEF Numbering
    <3>3. Size \in Nat /\ \A c \in Actors : number[c] \in Nat
      BY RowsCounted DEF SummariesTypeOK
    <3> QED BY <1>1, <3>1, <3>2, <3>3
  <2> QED BY <1>1, <2>1, <2>2 DEF Numbering
<1>2. ASSUME \/ \E t \in Turns : SaveUser(t) \/ SaveReply(t)
             \/ \E p \in Pushes : SavePush(p)
      PROVE  Numbering'
  BY <1>1, <1>2, NewRow
<1>5. CASE ResetRelationship
  <2>1. Rows' = {}
    BY <1>5 DEF ResetRelationship, Rows
  <2>2. IsFiniteSet({}) /\ Cardinality({}) = 0
    BY FS_EmptySet
  <2>3. {seqOf'[k] : k \in Rows'} = {} /\ Size' = 0 /\ 1 .. 0 = {}
    BY <2>1, <2>2 DEF Size
  <2>4. ~torn' => \A c \in Actors : pc'[c] # "numbered"
    BY <1>5, CleanReset
  <2> QED BY <2>1, <2>2, <2>3, <2>4 DEF Numbering
<1>6. ASSUME NEW c \in Turns \cup Pushes, TakeNumber(c)
      PROVE  Numbering'
  <2>1. PICK n \in NextSeqs : number' = [number EXCEPT ![c] = n]
    BY <1>6 DEF TakeNumber
  <2>2. pc' = [pc EXCEPT ![c] = "numbered"] /\ c \in Actors /\ UNCHANGED <<seqOf, torn>>
    BY <1>6, CallersDiffer DEF TakeNumber, rows
  <2>3. Rows' = Rows /\ (NumbersDiffer' <=> NumbersDiffer)
    BY <2>2 DEF Rows, NumbersDiffer
  <2>4. Size' = Size
    BY <2>3 DEF Size
  <2>5. ~torn /\ NumbersDiffer => \A d \in Actors : pc'[d] = "numbered" => number'[d] <= Size + 1
    <3> SUFFICES ASSUME ~torn, NumbersDiffer, NEW d \in Actors, pc'[d] = "numbered"
                 PROVE  number'[d] <= Size + 1
      OBVIOUS
    <3>1. CASE d = c
      BY <2>1, <2>2, <3>1, NextSeqIs, RowsCounted DEF SummariesTypeOK
    <3>2. CASE d # c
      BY <2>1, <2>2, <3>2 DEF Numbering, SummariesTypeOK
    <3> QED BY <3>1, <3>2
  <2> QED BY <2>2, <2>3, <2>4, <2>5 DEF Numbering
<1>7. ASSUME NEW t \in Turns, RefreshRelationship(t) \/ FinalizeTurn(t) \/ FailTurn(t)
      PROVE  Numbering'
  <2>1. \A c \in Actors : pc'[c] = "numbered" => pc[c] = "numbered" /\ number'[c] = number[c]
    BY <1>7, CallersDiffer DEF RefreshRelationship, FinalizeTurn, FailTurn, Leave, SummariesTypeOK
  <2> QED BY <1>7, <2>1, NumberingKept
             DEF RefreshRelationship, FinalizeTurn, FailTurn, rows, history
<1>8. ASSUME NEW c \in Callers, Look(c) \/ Spawn(c)
      PROVE  Numbering'
  <2>1. \A d \in Actors : pc'[d] = "numbered" => pc[d] = "numbered" /\ number'[d] = number[d]
    BY <1>8, CallersDiffer DEF Look, Spawn, Leave, SummariesTypeOK
  <2> QED BY <1>8, <2>1, NumberingKept DEF Look, Spawn, rows, history
<1>9. ASSUME NEW r \in Askers, Ask(r)
      PROVE  Numbering'
  <2>1. \A d \in Actors : pc'[d] = "numbered" => pc[d] = "numbered" /\ number'[d] = number[d]
    BY <1>9, CallersDiffer DEF Ask, SummariesTypeOK
  <2> QED BY <1>9, <2>1, NumberingKept DEF Ask, rows
<1>10. ASSUME NEW j \in jobs, Land(j) \/ Lose(j)
       PROVE  Numbering'
  BY <1>10, NumberingKept DEF Land, Lose, rows, caller, history
<1>11. CASE UNCHANGED summariesVars
  BY <1>11, NumberingKept DEF summariesVars, rows, caller, history
<1> QED
  BY <1>2, <1>5, <1>6, <1>7, <1>8, <1>9, <1>10, <1>11, SummariesCases

(***************************************************************************)
(* What counts as summarized is in a summary                               *)
(***************************************************************************)
\* All rows up to the mark of the relationship, of a snapshot and of a job are in
\* the latest summary, in what its reader read, and in what the job will store.
UpTo(n) == {m \in Rows : seqOf[m] <= n}

Reads(c) == pc[c] \in {"fresh", "answered", "counted", "looked"}

Summarizing ==
  ~torn /\ NumbersDiffer =>
    /\ lastSummarized <= Size /\ UpTo(lastSummarized) \subseteq Known
    /\ \A c \in Callers : Reads(c) =>
         snap[c].last <= Size /\ UpTo(snap[c].last) \subseteq Known
    /\ \A c \in Callers : pc[c] = "looked" => UpTo(snap[c].last) \subseteq latest[c].covers
    /\ \A j \in jobs : j.summary.to <= Size /\ UpTo(j.summary.to) \subseteq j.summary.covers

Floor(n) == (n \div MessageLimit) * MessageLimit

LEMMA FloorType ==
  ASSUME NEW n \in Nat
  PROVE  Floor(n) \in Nat /\ n \div MessageLimit \in Nat
BY LimitAssumption DEF Floor

\* Within n counted messages the last full window ends before the next does.
LEMMA FloorBounds ==
  ASSUME NEW n \in Nat
  PROVE  Floor(n) <= n /\ n < Floor(n) + MessageLimit
BY LimitAssumption DEF Floor

\* Windows that end in the same place, and in different ones.
LEMMA FloorGrows ==
  ASSUME NEW m \in Nat, NEW n \in Nat, m <= n
  PROVE  m \div MessageLimit <= n \div MessageLimit /\ Floor(m) <= Floor(n)
BY LimitAssumption DEF Floor

LEMMA FloorPasses ==
  ASSUME NEW m \in Nat, NEW n \in Nat, n \div MessageLimit > m \div MessageLimit
  PROVE  m < Floor(n)
BY LimitAssumption DEF Floor

LEMMA FloorOfFloor ==
  ASSUME NEW n \in Nat
  PROVE  Floor(n) \div MessageLimit = n \div MessageLimit
BY LimitAssumption DEF Floor

\* The numbers of the rows there are do not change, and later rows come after.
LEMMA UpToKept ==
  ASSUME SummariesTypeOK, Writing, Numbering, [SummariesNext]_summariesVars,
         ~ResetRelationship, ~torn', NumbersDiffer'
  PROVE  /\ ~torn /\ NumbersDiffer /\ life' = life
         /\ Size \in Nat /\ Size' \in Nat /\ Size <= Size'
         /\ \A n \in Nat : n <= Size => UpTo(n)' = UpTo(n)
<1>1. Size \in Nat
  BY RowsCounted
<1>2. CASE \/ \E t \in Turns : SaveUser(t) \/ SaveReply(t)
           \/ \E p \in Pushes : SavePush(p)
  <2>1. PICK m \in Message \ Rows, n \in Nat \ {0} :
          seqOf' = [seqOf EXCEPT ![m] = n] /\ (~torn /\ NumbersDiffer => n <= Size + 1)
    BY <1>2, NewRow
  <2>2. ~torn /\ life' = life
    BY <1>2, NewRow
  <2>3. NumbersDiffer /\ n = Size + 1 /\ Size' = Size + 1 /\ Rows' = Rows \cup {m} /\ seqOf'[m] = n
    BY <2>1, <2>2, RowNumbered
  <2>4. \A k \in Rows : seqOf'[k] = seqOf[k]
    BY <2>1, RowAdded DEF Rows
  <2>5. \A k \in Nat : k <= Size => UpTo(k)' = UpTo(k)
    BY <1>1, <2>3, <2>4 DEF UpTo
  <2> QED BY <1>1, <2>2, <2>3, <2>5
<1>3. CASE UNCHANGED <<seqOf, torn, life>>
  BY <1>1, <1>3 DEF Rows, NumbersDiffer, Size, UpTo
<1> QED BY <1>2, <1>3, WritingCases

\* Where the snapshot of a caller comes from, and what it holds of the latest
\* summary.
LEMMA CallerCases ==
  ASSUME SummariesTypeOK, HasLatest, [SummariesNext]_summariesVars, ~ResetRelationship,
         NEW c \in Callers
  PROVE  /\ Reads(c)' => \/ Reads(c) /\ snap'[c] = snap[c]
                         \/ snap'[c].last = lastSummarized
         /\ pc'[c] = "looked" =>
              \/ pc[c] = "looked" /\ snap'[c] = snap[c] /\ latest'[c] = latest[c]
              \/ pc[c] = "counted" /\ snap'[c] = snap[c] /\ latest'[c].covers = Known
<1> DEFINE Goal == /\ Reads(c)' => \/ Reads(c) /\ snap'[c] = snap[c]
                                   \/ snap'[c].last = lastSummarized
                   /\ pc'[c] = "looked" =>
                        \/ pc[c] = "looked" /\ snap'[c] = snap[c] /\ latest'[c] = latest[c]
                        \/ pc[c] = "counted" /\ snap'[c] = snap[c] /\ latest'[c].covers = Known
<1>1. CASE \E d \in Turns \cup Pushes : TakeNumber(d)
  BY <1>1, CallersDiffer DEF TakeNumber, Reads, SummariesTypeOK
<1>2. CASE \E t \in Turns : SaveUser(t) \/ SaveReply(t) \/ FinalizeTurn(t)
  BY <1>2, CallersDiffer DEF SaveUser, SaveReply, FinalizeTurn, Reads, SummariesTypeOK
<1>3. CASE \E t \in Turns : RefreshRelationship(t)
  BY <1>3, CallersDiffer DEF RefreshRelationship, Reads, SummariesTypeOK
<1>4. CASE \E t \in Turns : FailTurn(t)
  BY <1>4, CallersDiffer DEF FailTurn, Leave, Reads, SummariesTypeOK
<1>5. CASE \E p \in Pushes : SavePush(p)
  BY <1>5, CallersDiffer DEF SavePush, Leave, Reads, SummariesTypeOK
<1>6. CASE \E r \in Askers : Ask(r)
  BY <1>6, CallersDiffer DEF Ask, Reads, SummariesTypeOK
<1>7. CASE \E d \in Callers : Look(d)
  <2>1. PICK d \in Callers : Look(d)
    BY <1>7
  <2>2. CASE Crossed(d)
    BY <2>1, <2>2, CallersDiffer DEF Look, Reads, SummariesTypeOK
  <2>3. CASE ~Crossed(d)
    BY <2>1, <2>3, CallersDiffer DEF Look, Leave, Reads, SummariesTypeOK
  <2> QED BY <2>2, <2>3
<1>8. CASE \E d \in Callers : Spawn(d)
  BY <1>8, CallersDiffer DEF Spawn, Leave, Reads, SummariesTypeOK
<1>9. CASE \E j \in jobs : Land(j) \/ Lose(j)
  BY <1>9 DEF Land, Lose, caller, Reads
<1>10. CASE UNCHANGED summariesVars
  BY <1>10 DEF summariesVars, caller, Reads
<1> QED BY <1>1, <1>2, <1>3, <1>4, <1>5, <1>6, <1>7, <1>8, <1>9, <1>10, SummariesCases

\* Where a job comes from.
LEMMA JobCases ==
  ASSUME SummariesTypeOK, [SummariesNext]_summariesVars, NEW j \in jobs'
  PROVE  \/ j \in jobs
         \/ \E c \in Callers : Spawn(c) /\ j = JobOf(c)
BY SummariesCases, JobType DEF summariesVars, TakeNumber, SaveUser, RefreshRelationship, SaveReply,
   FinalizeTurn, FailTurn, SavePush, Ask, Look, Land, Lose, ResetRelationship

\* A window starts where the summaries ended, and ends with counted messages.
LEMMA JobCoversItsWindow ==
  ASSUME SummariesTypeOK, Counting, Numbering, Summarizing, ~torn, NumbersDiffer,
         NEW c \in Callers, pc[c] = "looked"
  PROVE  /\ JobOf(c).summary.to <= Size
         /\ UpTo(JobOf(c).summary.to) \subseteq JobOf(c).summary.covers
<1>1. /\ CountOf(c) <= messageCount /\ messageCount <= Size /\ Size \in Nat /\ messageCount \in Nat
  BY CountedAreRows DEF Numbering
<1>2. WindowEnd(c) <= CountOf(c) /\ WindowEnd(c) \in Nat /\ CountOf(c) \in Nat
  BY CountOfType, FloorBounds DEF WindowEnd, Floor
<1>3. JobOf(c).summary.to = WindowEnd(c)
  BY DEF JobOf
<1>4. JobOf(c).summary.covers = latest[c].covers \cup InRange(snap[c].last + 1, WindowEnd(c))
  BY DEF JobOf
<1>5. UpTo(snap[c].last) \subseteq latest[c].covers
  BY DEF Summarizing
<1>6. snap[c].last \in Nat /\ \A m \in Rows : seqOf[m] \in Nat
  BY CallersDiffer DEF SummariesTypeOK, Snapshot, Rows
<1>7. UpTo(WindowEnd(c)) \subseteq UpTo(snap[c].last) \cup InRange(snap[c].last + 1, WindowEnd(c))
  BY <1>2, <1>6 DEF UpTo, InRange
<1> QED BY <1>1, <1>2, <1>3, <1>4, <1>5, <1>7

LEMMA SummarizingStep ==
  ASSUME SummariesTypeOK, HasLatest, Writing, Versioned, Counting, Numbering, Summarizing,
         [SummariesNext]_summariesVars
  PROVE  Summarizing'
<1> SUFFICES ASSUME ~torn', NumbersDiffer'
             PROVE  Summarizing'
  BY DEF Summarizing
<1>1. CASE ResetRelationship
  <2>1. Rows' = {} /\ lastSummarized' = 0 /\ jobs' = {} /\ \A c \in Callers : ~Reads(c)'
    BY <1>1, CleanReset, CallersDiffer DEF Reads
  <2>2. Size' = 0
    BY <2>1, FS_EmptySet DEF Size
  <2>3. \A n : UpTo(n)' = {}
    BY <2>1 DEF UpTo
  <2> QED BY <2>1, <2>2, <2>3 DEF Summarizing, Reads
<1>2. CASE ~ResetRelationship
  <2>1. /\ ~torn /\ NumbersDiffer /\ life' = life
        /\ Size \in Nat /\ Size' \in Nat /\ Size <= Size'
        /\ \A n \in Nat : n <= Size => UpTo(n)' = UpTo(n)
    BY <1>2, UpToKept
  <2>2. Known \subseteq Known'
    BY <2>1, KnowledgeStep
  <2>3. lastSummarized \in Nat /\ \A c \in Callers : snap[c].last \in Nat
    BY CallersDiffer DEF SummariesTypeOK, Snapshot
  <2>4. \A j \in jobs : j.summary.to \in Nat
    BY DEF SummariesTypeOK, Payload, Summary
  <2>5. lastSummarized' <= Size' /\ UpTo(lastSummarized)' \subseteq Known'
    <3>1. CASE lastSummarized' = lastSummarized
      BY <2>1, <2>2, <2>3, <3>1 DEF Summarizing, UpTo
    <3>2. CASE \E j \in jobs : Land(j)
      <4>1. PICK j \in jobs : Land(j)
        BY <3>2
      <4>2. lastSummarized' = j.summary.to /\ Known' = j.summary.covers
        BY <2>1, <4>1, LandsNext, StoreSummaryAdds
      <4> QED BY <2>1, <2>4, <4>2 DEF Summarizing, UpTo
    <3> QED BY <1>2, <3>1, <3>2, StoringCases
  <2>6. ASSUME NEW c \in Callers, Reads(c)'
        PROVE  snap'[c].last <= Size' /\ UpTo(snap[c].last)' \subseteq Known'
    <3>1. CASE Reads(c) /\ snap'[c] = snap[c]
      BY <2>1, <2>2, <2>3, <3>1 DEF Summarizing, UpTo
    <3>2. CASE snap'[c].last = lastSummarized
      BY <2>1, <2>2, <2>3, <3>2 DEF Summarizing, UpTo
    <3> QED BY <1>2, <2>6, <3>1, <3>2, CallerCases
  <2>7. ASSUME NEW c \in Callers, pc'[c] = "looked"
        PROVE  UpTo(snap[c].last)' \subseteq latest'[c].covers
    <3>1. CASE pc[c] = "looked" /\ snap'[c] = snap[c] /\ latest'[c] = latest[c]
      BY <2>1, <2>3, <3>1 DEF Summarizing, Reads, UpTo
    <3>2. CASE pc[c] = "counted" /\ snap'[c] = snap[c] /\ latest'[c].covers = Known
      BY <2>1, <2>3, <3>2 DEF Summarizing, Reads, UpTo
    <3> QED BY <1>2, <2>7, <3>1, <3>2, CallerCases
  <2>8. ASSUME NEW j \in jobs'
        PROVE  j.summary.to <= Size' /\ UpTo(j.summary.to)' \subseteq j.summary.covers
    <3>1. CASE j \in jobs
      BY <2>1, <2>4, <3>1 DEF Summarizing, UpTo
    <3>2. CASE \E c \in Callers : Spawn(c) /\ j = JobOf(c)
      <4>1. PICK c \in Callers : Spawn(c) /\ j = JobOf(c)
        BY <3>2
      <4>2. pc[c] = "looked"
        BY <4>1 DEF Spawn
      <4>3. j.summary.to <= Size /\ UpTo(j.summary.to) \subseteq j.summary.covers
        BY <2>1, <4>1, <4>2, JobCoversItsWindow
      <4>4. j.summary.to \in Nat
        BY <4>1, JobType DEF Payload, Summary
      <4> QED BY <2>1, <4>3, <4>4 DEF UpTo
    <3> QED BY <3>1, <3>2, JobCases
  <2> QED BY <2>5, <2>6, <2>7, <2>8 DEF Summarizing
<1> QED BY <1>1, <1>2

(***************************************************************************)
(* One turn and one job at a time, and none fails                          *)
(***************************************************************************)
\* The summaries stand at the last full window of the count, or a job on its way
\* takes them there.
Due(n) ==
  /\ jobs = {} => lastSummarized = Floor(n)
  /\ \A j \in jobs : j.summary.to = Floor(n)
  /\ lastSummarized <= Floor(n)

SmoothActor(c) ==
  /\ pc[c] = "numbered" => number[c] = Size + 1
  /\ c \in Turns =>
       /\ pc[c] \in {"saved", "fresh"} => number[c] = Size
       /\ pc[c] \in {"fresh", "answered"} => snap[c].count = messageCount
       /\ pc[c] \in {"counted", "looked"} =>
            snap[c].count + 2 = messageCount /\ Due(snap[c].count)
  /\ c \in Askers => (pc[c] \in {"counted", "looked"} => snap[c].count = messageCount)
  /\ c \in Callers =>
       /\ Reads(c) => snap[c].last <= lastSummarized
       /\ pc[c] = "looked" => Crossed(c)

AllDue == (\A t \in Turns : pc[t] \notin {"counted", "looked"}) => Due(messageCount)

Smoothly ==
  smooth =>
    /\ ~torn
    /\ NumbersDiffer
    /\ \A c, d \in Actors : Busy(c) /\ Busy(d) => c = d
    /\ \A j, k \in jobs : j = k
    /\ \A c \in Actors : SmoothActor(c)
    /\ AllDue

\* A row under the next number leaves all numbers different.
LEMMA NextRow ==
  ASSUME SummariesTypeOK, Numbering, ~torn, NumbersDiffer, NEW m \in Message \ Rows,
         seqOf' = [seqOf EXCEPT ![m] = Size + 1]
  PROVE  /\ Rows' = Rows \cup {m} /\ seqOf'[m] = Size + 1
         /\ Size \in Nat /\ Size' = Size + 1 /\ NumbersDiffer'
<1>1. Size \in Nat /\ IsFiniteSet(Rows) /\ {seqOf[k] : k \in Rows} = 1 .. Size
  BY RowsCounted DEF Numbering
<1>2. /\ Rows' = Rows \cup {m} /\ seqOf'[m] = Size + 1
      /\ \A k \in Rows : seqOf'[k] = seqOf[k]
  <2>1. Size + 1 \in Nat \ {0}
    BY <1>1
  <2> QED BY <2>1, RowAdded DEF Rows
<1>3. Size' = Size + 1
  BY <1>1, <1>2, FS_AddElement DEF Size
<1>4. \A k \in Rows : seqOf[k] # Size + 1
  BY <1>1
<1>5. NumbersDiffer'
  <2> SUFFICES ASSUME NEW k \in Rows', NEW l \in Rows', k # l
               PROVE  seqOf'[k] # seqOf'[l]
    BY DEF NumbersDiffer
  <2>1. CASE k = m
    BY <1>2, <1>4, <2>1
  <2>2. CASE l = m
    BY <1>2, <1>4, <2>2
  <2>3. CASE k # m /\ l # m
    BY <1>2, <2>3 DEF NumbersDiffer
  <2> QED BY <2>1, <2>2, <2>3
<1> QED BY <1>1, <1>2, <1>3, <1>5

\* One who does nothing has nothing to keep to.
LEMMA IdleIsSmooth ==
  ASSUME NEW c \in Actors, ~Busy(c)
  PROVE  SmoothActor(c)
BY DEF SmoothActor, Busy, Reads

\* The step of the one actor at work.
LEMMA OneActs ==
  ASSUME NEW c \in Actors, ~torn, torn' = torn, NumbersDiffer',
         \A d \in Actors \ {c} : ~Busy(d) /\ pc'[d] = pc[d],
         \A j, k \in jobs' : j = k,
         SmoothActor(c)', AllDue'
  PROVE  Smoothly'
<1>1. \A d \in Actors \ {c} : ~Busy(d)'
  BY DEF Busy
<1>2. \A d \in Actors \ {c} : SmoothActor(d)'
  BY <1>1 DEF SmoothActor, Busy, Reads
<1>3. \A d, e \in Actors : Busy(d)' /\ Busy(e)' => d = e
  BY <1>1
<1> QED BY <1>2, <1>3 DEF Smoothly

LEMMA DueKept ==
  ASSUME UNCHANGED <<jobs, lastSummarized>>, NEW n, Due(n)
  PROVE  Due(n)'
BY DEF Due, Floor

\* An actor at work is the only one.
LEMMA OnlyBusy ==
  ASSUME Smoothly, smooth, NEW c \in Actors, Busy(c)
  PROVE  \A d \in Actors \ {c} : ~Busy(d)
BY DEF Smoothly

\* With no turn about to dispatch, the windows up to the count are due; with one,
\* those up to the count that it read.
LEMMA SomeDue ==
  ASSUME SummariesTypeOK, Smoothly, smooth
  PROVE  \E n \in Nat : Due(n) /\ n <= messageCount
<1>1. CASE \A t \in Turns : pc[t] \notin {"counted", "looked"}
  BY <1>1 DEF Smoothly, AllDue, SummariesTypeOK
<1>2. CASE \E t \in Turns : pc[t] \in {"counted", "looked"}
  <2>1. PICK t \in Turns : pc[t] \in {"counted", "looked"}
    BY <1>2
  <2>2. snap[t].count + 2 = messageCount /\ Due(snap[t].count)
    BY <2>1, CallersDiffer DEF Smoothly, SmoothActor
  <2>3. snap[t].count \in Nat
    BY CallersDiffer DEF SummariesTypeOK, Snapshot
  <2> QED BY <2>2, <2>3
<1> QED BY <1>1, <1>2

\* What a caller looks at is the whole count.
LEMMA CountIsWhole ==
  ASSUME SummariesTypeOK, Smoothly, smooth, NEW c \in Callers, pc[c] \in {"counted", "looked"}
  PROVE  CountOf(c) = messageCount
BY CallersDiffer DEF Smoothly, SmoothActor, CountOf

\* A threshold that was not crossed leaves the same windows due.
LEMMA NotCrossedStaysDue ==
  ASSUME SummariesTypeOK, Smoothly, smooth, NEW t \in Turns, pc[t] = "counted", ~Crossed(t)
  PROVE  Due(messageCount)
<1> DEFINE n == snap[t].count
<1> DEFINE l == snap[t].last
<1>1. n \in Nat /\ l \in Nat /\ messageCount \in Nat /\ lastSummarized \in Nat
  BY CallersDiffer DEF SummariesTypeOK, Snapshot
<1>2. n + 2 = messageCount /\ Due(n) /\ l <= lastSummarized
  BY CallersDiffer DEF Smoothly, SmoothActor, Reads
<1>3. l <= Floor(n) /\ Floor(n) \in Nat
  BY <1>1, <1>2, FloorType DEF Due
<1>4. l \div MessageLimit <= n \div MessageLimit
  BY <1>1, <1>3, FloorGrows, FloorOfFloor
<1>5. CountOf(t) = messageCount
  BY CountIsWhole, CallersDiffer
<1>6. ~(messageCount \div MessageLimit > l \div MessageLimit) \/ messageCount < MessageLimit
  BY <1>1, <1>5, LimitAssumption DEF Crossed
<1>7. n \div MessageLimit <= messageCount \div MessageLimit
  BY <1>1, <1>2, FloorGrows
<1>8. /\ n \div MessageLimit \in Nat /\ l \div MessageLimit \in Nat
      /\ messageCount \div MessageLimit \in Nat
  BY <1>1, FloorType
<1>9. messageCount < MessageLimit => messageCount \div MessageLimit = 0
  BY <1>1, LimitAssumption
<1>10. n \div MessageLimit = messageCount \div MessageLimit
  BY <1>4, <1>6, <1>7, <1>8, <1>9
<1>11. Floor(n) = Floor(messageCount)
  BY <1>10 DEF Floor
<1> QED BY <1>2, <1>11 DEF Due

\* The window of a caller that found a threshold crossed has rows.
LEMMA WindowHasRows ==
  ASSUME SummariesTypeOK, Counting, Numbering, Smoothly, smooth, NEW c \in Callers, pc[c] = "looked"
  PROVE  InRange(snap[c].last + 1, WindowEnd(c)) # {}
<1>1. ~torn /\ NumbersDiffer /\ Crossed(c) /\ CountOf(c) = messageCount
  BY CallersDiffer, CountIsWhole DEF Smoothly, SmoothActor
<1>2. messageCount <= Size /\ Size \in Nat /\ messageCount \in Nat
  BY <1>1, CountedAreRows DEF Numbering
<1>3. snap[c].last \in Nat
  BY CallersDiffer DEF SummariesTypeOK, Snapshot
<1>4. snap[c].last < WindowEnd(c)
  BY <1>1, <1>2, <1>3, FloorPasses DEF Crossed, WindowEnd, Floor
<1>5. WindowEnd(c) <= messageCount /\ WindowEnd(c) \in Nat
  BY <1>1, <1>2, FloorBounds, FloorType DEF WindowEnd, Floor
<1>6. WindowEnd(c) \in 1 .. Size
  BY <1>2, <1>3, <1>4, <1>5
<1>7. PICK m \in Rows : seqOf[m] = WindowEnd(c)
  BY <1>1, <1>6 DEF Numbering
<1> QED BY <1>3, <1>4, <1>5, <1>7 DEF InRange

LEMMA SmoothlyStep ==
  ASSUME SummariesTypeOK, HasLatest, Writing, Counting, Numbering, Smoothly,
         [SummariesNext]_summariesVars
  PROVE  Smoothly'
<1> SUFFICES ASSUME smooth'
             PROVE  Smoothly'
  BY DEF Smoothly
<1>1. CASE ResetRelationship
  <2>1. smooth /\ Quiet
    BY <1>1 DEF ResetRelationship
  <2>2. ~torn' /\ jobs' = {} /\ lastSummarized' = 0 /\ messageCount' = 0 /\ Rows' = {}
    <3>1. ~torn'
      BY <1>1, <2>1 DEF ResetRelationship, Smoothly
    <3> QED BY <1>1, <3>1, CleanReset
  <2>3. \A c \in Actors : ~Busy(c)'
    BY <1>1, <2>1 DEF Quiet, Busy, ResetRelationship, caller
  <2>4. \A c \in Actors : SmoothActor(c)'
    BY <2>3 DEF SmoothActor, Busy, Reads
  <2>5. Floor(0) = 0
    BY LimitAssumption DEF Floor
  <2>6. AllDue'
    BY <2>2, <2>5 DEF AllDue, Due, Floor
  <2>7. NumbersDiffer'
    BY <2>2 DEF NumbersDiffer
  <2> QED BY <2>2, <2>3, <2>4, <2>6, <2>7 DEF Smoothly
<1> SUFFICES ASSUME smooth, ~ResetRelationship
             PROVE  Smoothly'
  BY <1>1, SummariesCases
     DEF summariesVars, rows, history, TakeNumber, SaveUser, RefreshRelationship, SaveReply,
         FinalizeTurn, FailTurn, SavePush, Ask, Look, Spawn, Land, Lose
<1>2. /\ ~torn /\ NumbersDiffer /\ AllDue
      /\ \A c \in Actors : SmoothActor(c)
      /\ \A j, k \in jobs : j = k
  BY DEF Smoothly
<1>3. /\ Size \in Nat /\ messageCount \in Nat /\ lastSummarized \in Nat
      /\ \A c \in Actors : number[c] \in Nat /\ snap[c].count \in Nat /\ snap[c].last \in Nat
  BY RowsCounted DEF SummariesTypeOK, Snapshot
<1>4. ASSUME UNCHANGED <<seqOf, torn>>
      PROVE  Size' = Size /\ NumbersDiffer' /\ Rows' = Rows
  BY <1>2, <1>4 DEF Size, Rows, NumbersDiffer
<1>5. ASSUME NEW c \in Turns \cup Pushes, TakeNumber(c)
      PROVE  Smoothly'
  <2>1. PICK n \in NextSeqs : number' = [number EXCEPT ![c] = n]
    BY <1>5 DEF TakeNumber
  <2>2. /\ pc' = [pc EXCEPT ![c] = "numbered"] /\ c \in Actors
        /\ UNCHANGED <<seqOf, torn, messageCount, lastSummarized, snap, jobs>>
        /\ \A d \in Actors \ {c} : ~Busy(d)
    BY <1>5, CallersDiffer DEF TakeNumber, rows, Alone
  <2>3. n = Size + 1
    BY <1>2, <2>1, NextSeqIs
  <2>4. pc'[c] = "numbered" /\ number'[c] = Size' + 1
    BY <1>4, <2>1, <2>2, <2>3 DEF SummariesTypeOK
  <2>5. SmoothActor(c)'
    BY <2>4 DEF SmoothActor, Reads
  <2>6. AllDue'
    <3>1. \A t \in Turns : pc[t] \notin {"counted", "looked"}
      BY <1>5, <2>2, CallersDiffer DEF TakeNumber, Busy
    <3> QED BY <1>2, <2>2, <3>1 DEF AllDue, Due, Floor
  <2> QED BY <1>2, <1>4, <2>2, <2>5, <2>6, OneActs DEF SummariesTypeOK
<1>6. ASSUME NEW t \in Turns, SaveUser(t)
      PROVE  Smoothly'
  <2>1. /\ pc[t] = "numbered" /\ pc' = [pc EXCEPT ![t] = "saved"] /\ t \in Actors
        /\ seqOf' = [seqOf EXCEPT ![User(t)] = number[t]]
        /\ UNCHANGED <<torn, messageCount, lastSummarized, number, snap, jobs>>
    BY <1>6, CallersDiffer DEF SaveUser, history
  <2>2. number[t] = Size + 1
    BY <1>2, <2>1 DEF SmoothActor
  <2>3. User(t) \in Message \ Rows
    BY <2>1, TurnMessagesDiffer DEF Writing, WroteRows
  <2>4. Size' = Size + 1 /\ NumbersDiffer'
    BY <1>2, <2>1, <2>2, <2>3, NextRow
  <2>5. SmoothActor(t)'
    BY <2>1, <2>2, <2>4, CallersDiffer DEF SmoothActor, Reads, SummariesTypeOK
  <2>6. \A d \in Actors \ {t} : ~Busy(d) /\ pc'[d] = pc[d]
    BY <2>1, OnlyBusy DEF Busy, SummariesTypeOK
  <2>7. AllDue'
    <3>1. \A u \in Turns : pc[u] \notin {"counted", "looked"}
      BY <2>1, <2>6, CallersDiffer DEF Busy
    <3> QED BY <1>2, <2>1, <3>1 DEF AllDue, Due, Floor
  <2> QED BY <1>2, <2>1, <2>4, <2>5, <2>6, <2>7, OneActs
<1>7. ASSUME NEW t \in Turns, RefreshRelationship(t)
      PROVE  Smoothly'
  <2>1. /\ pc[t] = "saved" /\ pc' = [pc EXCEPT ![t] = "fresh"] /\ t \in Actors
        /\ snap' = [snap EXCEPT ![t] =
                      [count |-> messageCount, last |-> lastSummarized, life |-> life]]
        /\ UNCHANGED <<seqOf, torn, messageCount, lastSummarized, number, jobs>>
    BY <1>7, CallersDiffer DEF RefreshRelationship, rows, history
  <2>2. /\ pc'[t] = "fresh" /\ number'[t] = Size' /\ snap'[t].count = messageCount'
        /\ snap'[t].last <= lastSummarized'
    BY <1>2, <1>3, <1>4, <2>1 DEF SmoothActor, SummariesTypeOK
  <2>3. SmoothActor(t)'
    BY <2>2, CallersDiffer DEF SmoothActor, Reads
  <2>4. \A d \in Actors \ {t} : ~Busy(d) /\ pc'[d] = pc[d]
    BY <2>1, OnlyBusy DEF Busy, SummariesTypeOK
  <2>5. AllDue'
    <3>1. \A u \in Turns : pc[u] \notin {"counted", "looked"}
      BY <2>1, <2>4, CallersDiffer DEF Busy
    <3> QED BY <1>2, <2>1, <3>1 DEF AllDue, Due, Floor
  <2> QED BY <1>2, <1>4, <2>1, <2>3, <2>4, <2>5, OneActs
<1>8. ASSUME NEW t \in Turns, SaveReply(t)
      PROVE  Smoothly'
  <2>1. /\ pc[t] = "fresh" /\ pc' = [pc EXCEPT ![t] = "answered"] /\ t \in Actors
        /\ seqOf' = [seqOf EXCEPT ![Reply(t)] = number[t] + 1]
        /\ UNCHANGED <<torn, messageCount, lastSummarized, snap, jobs>>
    BY <1>8, CallersDiffer DEF SaveReply, history
  <2>2. number[t] = Size
    BY <1>2, <2>1, CallersDiffer DEF SmoothActor
  <2>3. Reply(t) \in Message \ Rows
    BY <2>1, TurnMessagesDiffer DEF Writing, WroteRows
  <2>4. Size' = Size + 1 /\ NumbersDiffer'
    BY <1>2, <2>1, <2>2, <2>3, NextRow
  <2>5. pc'[t] = "answered" /\ SmoothActor(t)
    BY <1>2, <2>1 DEF SummariesTypeOK
  <2>6. SmoothActor(t)'
    BY <2>1, <2>5, CallersDiffer DEF SmoothActor, Reads
  <2>7. \A d \in Actors \ {t} : ~Busy(d) /\ pc'[d] = pc[d]
    BY <2>1, OnlyBusy DEF Busy, SummariesTypeOK
  <2>8. AllDue'
    <3>1. \A u \in Turns : pc[u] \notin {"counted", "looked"}
      BY <2>1, <2>7, CallersDiffer DEF Busy
    <3> QED BY <1>2, <2>1, <3>1 DEF AllDue, Due, Floor
  <2> QED BY <1>2, <2>1, <2>4, <2>6, <2>7, <2>8, OneActs
<1>9. ASSUME NEW t \in Turns, FinalizeTurn(t)
      PROVE  Smoothly'
  <2>1. /\ pc[t] = "answered" /\ pc' = [pc EXCEPT ![t] = "counted"] /\ t \in Actors
        /\ messageCount' = messageCount + 2
        /\ UNCHANGED <<seqOf, torn, lastSummarized, snap, jobs>>
    BY <1>9, CallersDiffer DEF FinalizeTurn, history
  <2>2. \A d \in Actors \ {t} : ~Busy(d) /\ pc'[d] = pc[d]
    BY <2>1, OnlyBusy DEF Busy, SummariesTypeOK
  <2>3. snap[t].count = messageCount /\ snap[t].last <= lastSummarized
    BY <1>2, <2>1, CallersDiffer DEF SmoothActor, Reads
  <2>4. Due(messageCount)
    <3>1. \A u \in Turns : pc[u] \notin {"counted", "looked"}
      BY <2>1, <2>2, CallersDiffer DEF Busy
    <3> QED BY <1>2, <3>1 DEF AllDue
  <2>5. pc'[t] = "counted"
    BY <2>1 DEF SummariesTypeOK
  <2>6. SmoothActor(t)'
    BY <2>1, <2>3, <2>4, <2>5, CallersDiffer DEF SmoothActor, Reads, Due, Floor
  <2>7. AllDue'
    BY <2>5 DEF AllDue
  <2> QED BY <1>2, <1>4, <2>1, <2>2, <2>6, <2>7, OneActs
<1>10. ASSUME NEW c \in Actors, Busy(c), NEW how \in {"done", "failed"}, Leave(c, how),
              UNCHANGED <<messageCount, lastSummarized, jobs, torn>>, NumbersDiffer',
              c \in Turns /\ pc[c] \in {"counted", "looked"} => Due(messageCount)
       PROVE  Smoothly'
  <2>1. pc' = [pc EXCEPT ![c] = how]
    BY <1>10 DEF Leave
  <2>2. \A d \in Actors \ {c} : ~Busy(d) /\ pc'[d] = pc[d]
    BY <1>10, <2>1, OnlyBusy DEF SummariesTypeOK
  <2>3. SmoothActor(c)'
    BY <2>1 DEF SmoothActor, Reads, SummariesTypeOK
  <2>4. Due(messageCount)
    BY <1>2, <1>10, <2>2, CallersDiffer DEF AllDue, Busy
  <2>5. AllDue'
    BY <1>10, <2>4 DEF AllDue, Due, Floor
  <2> QED BY <1>2, <1>10, <2>2, <2>3, <2>5, OneActs
<1>11. ASSUME NEW t \in Turns, FailTurn(t)
       PROVE  Smoothly'
  <2>1. /\ pc[t] = "fresh" /\ t \in Actors /\ Leave(t, "failed")
        /\ UNCHANGED <<seqOf, messageCount, lastSummarized, jobs, torn>>
    BY <1>11, CallersDiffer DEF FailTurn, rows, history
  <2> QED BY <1>4, <1>10, <2>1 DEF Busy
<1>12. ASSUME NEW p \in Pushes, SavePush(p)
       PROVE  Smoothly'
  <2>1. /\ pc[p] = "numbered" /\ p \in Actors /\ Leave(p, "done") /\ p \notin Turns
        /\ seqOf' = [seqOf EXCEPT ![Push(p)] = number[p]]
        /\ UNCHANGED <<messageCount, lastSummarized, jobs, torn>>
    BY <1>12, CallersDiffer DEF SavePush, history
  <2>2. number[p] = Size + 1
    BY <1>2, <2>1 DEF SmoothActor
  <2>3. Push(p) \in Message \ Rows
    BY <2>1 DEF Writing, Message
  <2>4. NumbersDiffer'
    BY <1>2, <2>1, <2>2, <2>3, NextRow
  <2> QED BY <1>10, <2>1, <2>4 DEF Busy
<1>13. ASSUME NEW r \in Askers, Ask(r)
       PROVE  Smoothly'
  <2>1. /\ pc[r] = "idle" /\ pc' = [pc EXCEPT ![r] = "counted"] /\ r \in Actors
        /\ snap' = [snap EXCEPT ![r] =
                      [count |-> messageCount, last |-> lastSummarized, life |-> life]]
        /\ UNCHANGED <<seqOf, torn, messageCount, lastSummarized, jobs>>
        /\ \A d \in Actors \ {r} : ~Busy(d)
    BY <1>13, CallersDiffer DEF Ask, rows, Alone
  <2>2. /\ pc'[r] = "counted" /\ snap'[r].count = messageCount' /\ snap'[r].last <= lastSummarized'
    BY <1>3, <2>1 DEF SummariesTypeOK
  <2>3. SmoothActor(r)'
    BY <2>2, CallersDiffer DEF SmoothActor, Reads
  <2>4. AllDue'
    <3>1. \A u \in Turns : pc[u] \notin {"counted", "looked"}
      BY <2>1, CallersDiffer DEF Busy
    <3> QED BY <1>2, <2>1, <3>1 DEF AllDue, Due, Floor
  <2> QED BY <1>2, <1>4, <2>1, <2>3, <2>4, OneActs DEF SummariesTypeOK
<1>14. ASSUME NEW c \in Callers, Look(c)
       PROVE  Smoothly'
  <2>1. /\ pc[c] = "counted" /\ c \in Actors
        /\ UNCHANGED <<seqOf, messageCount, lastSummarized, jobs, torn>>
    BY <1>14, CallersDiffer DEF Look, rows, history
  <2>2. CASE Crossed(c)
    <3>1. pc' = [pc EXCEPT ![c] = "looked"] /\ UNCHANGED <<number, snap>>
      BY <1>14, <2>2 DEF Look
    <3>2. \A d \in Actors \ {c} : ~Busy(d) /\ pc'[d] = pc[d]
      BY <2>1, <3>1, OnlyBusy DEF Busy, SummariesTypeOK
    <3>3. pc'[c] = "looked" /\ SmoothActor(c)
      BY <1>2, <2>1, <3>1 DEF SummariesTypeOK
    <3>4. Crossed(c)'
      BY <2>1, <2>2, <3>1 DEF Crossed, CountOf
    <3>5. SmoothActor(c)'
      BY <2>1, <3>1, <3>3, <3>4, CallersDiffer DEF SmoothActor, Reads, Due, Floor
    <3>6. AllDue'
      <4>1. CASE c \in Turns
        BY <3>3, <4>1 DEF AllDue
      <4>2. CASE c \notin Turns
        BY <1>2, <2>1, <3>2, <4>2, CallersDiffer DEF AllDue, Due, Floor, Busy
      <4> QED BY <4>1, <4>2
    <3> QED BY <1>2, <1>4, <2>1, <3>2, <3>5, <3>6, OneActs
  <2>3. CASE ~Crossed(c)
    <3>1. Leave(c, "done")
      BY <1>14, <2>3 DEF Look
    <3>2. c \in Turns => Due(messageCount)
      BY <2>1, <2>3, NotCrossedStaysDue
    <3> QED BY <1>4, <1>10, <2>1, <3>1, <3>2 DEF Busy
  <2> QED BY <2>2, <2>3
<1>15. ASSUME NEW c \in Callers, Spawn(c)
       PROVE  Smoothly'
  <2>1. /\ pc[c] = "looked" /\ c \in Actors /\ Leave(c, "done")
        /\ UNCHANGED <<seqOf, messageCount, lastSummarized, torn>>
    BY <1>15, CallersDiffer DEF Spawn, rows
  <2>2. InRange(snap[c].last + 1, WindowEnd(c)) # {}
    BY <2>1, WindowHasRows
  <2>3. jobs = {} /\ jobs' = {JobOf(c)}
    BY <1>15, <2>2 DEF Spawn, JobOf
  <2>4. JobOf(c).summary.to = Floor(messageCount)
    BY <2>1, CountIsWhole DEF JobOf, WindowEnd, Floor
  <2>5. lastSummarized <= Floor(messageCount)
    <3>1. PICK n \in Nat : Due(n) /\ n <= messageCount
      BY SomeDue
    <3>2. lastSummarized <= Floor(n) /\ Floor(n) <= Floor(messageCount)
      BY <1>3, <3>1, FloorGrows DEF Due
    <3> QED BY <1>3, <3>1, <3>2, FloorType
  <2>6. AllDue'
    BY <2>1, <2>3, <2>4, <2>5 DEF AllDue, Due, Floor
  <2>7. pc' = [pc EXCEPT ![c] = "done"]
    BY <2>1 DEF Leave
  <2>8. \A d \in Actors \ {c} : ~Busy(d) /\ pc'[d] = pc[d]
    BY <2>1, <2>7, OnlyBusy DEF Busy, SummariesTypeOK
  <2>9. SmoothActor(c)'
    BY <2>1, <2>7 DEF SmoothActor, Reads, SummariesTypeOK
  <2> QED BY <1>2, <1>4, <2>1, <2>3, <2>6, <2>8, <2>9, OneActs
<1>16. ASSUME NEW j \in jobs, Land(j)
       PROVE  Smoothly'
  <2>1. /\ UNCHANGED <<seqOf, messageCount, pc, number, snap, torn>>
        /\ jobs' = jobs \ {j} /\ lastSummarized' = j.summary.to
    BY <1>16 DEF Land, StoreSummary, caller, history
  <2>2. jobs' = {}
    BY <1>2, <2>1
  <2>3. j.summary.to \in Nat
    BY DEF SummariesTypeOK, Payload, Summary
  <2>4. \A n : Due(n) => Due(n)'
    BY <1>3, <2>1, <2>2, <2>3, FloorType DEF Due, Floor
  <2>5. lastSummarized <= lastSummarized'
    BY <2>1, SomeDue DEF Due
  <2>6. AllDue'
    BY <1>2, <2>1, <2>4 DEF AllDue, Due, Floor
  <2>7. \A c \in Actors : SmoothActor(c)'
    <3> SUFFICES ASSUME NEW c \in Actors
                 PROVE  SmoothActor(c)'
      OBVIOUS
    <3>1. SmoothActor(c) /\ Size' = Size
      BY <1>2, <1>4, <2>1
    <3>2. Crossed(c)' = Crossed(c)
      BY <2>1 DEF Crossed, CountOf
    <3>3. Reads(c) /\ snap[c].last <= lastSummarized => snap[c].last <= lastSummarized'
      BY <1>3, <2>1, <2>3, <2>5
    <3>4. Due(snap[c].count) => Due(snap[c].count)'
      BY <2>1, <2>4 DEF Due, Floor
    <3> QED BY <2>1, <3>1, <3>2, <3>3, <3>4 DEF SmoothActor, Reads
  <2> QED BY <1>2, <1>4, <2>1, <2>2, <2>6, <2>7 DEF Smoothly, Busy
<1>17. CASE UNCHANGED summariesVars
  <2>1. UNCHANGED <<seqOf, messageCount, lastSummarized, pc, number, snap, jobs, torn>>
    BY <1>17 DEF summariesVars, rows, caller, history
  <2>2. \A c \in Actors : SmoothActor(c)'
    BY <1>2, <1>4, <2>1 DEF SmoothActor, Reads, Due, Floor, Crossed, CountOf
  <2>3. AllDue'
    BY <1>2, <2>1 DEF AllDue, Due, Floor
  <2> QED BY <1>2, <1>4, <2>1, <2>2, <2>3 DEF Smoothly, Busy
<1> QED
  BY <1>5, <1>6, <1>7, <1>8, <1>9, <1>11, <1>12, <1>13, <1>14, <1>15, <1>16, <1>17,
     SummariesCases DEF Lose

(***************************************************************************)
(* The theorems                                                            *)
(***************************************************************************)
SInv ==
  /\ SummariesTypeOK /\ HasLatest /\ Writing /\ Versioned /\ Counting /\ Numbering
  /\ Summarizing /\ Smoothly

LEMMA SummariesInitInvariant ==
  ASSUME SummariesInit
  PROVE  SInv
<1>1. Unread \in Snapshot /\ NoSummary \in [version : Nat, covers : SUBSET Message]
  BY DEF Unread, NoSummary, Snapshot
<1>2. SummariesTypeOK
  <2>1. DOMAIN summaries = {} /\ 0 \in 0 .. MaxResets
    BY ResetsAssumption DEF SummariesInit
  <2>2. pc \in [Actors -> Pc] /\ number \in [Actors -> Nat] /\ seqOf \in [Message -> Nat]
    BY DEF SummariesInit, Pc
  <2>3. /\ snap \in [Actors -> Snapshot]
        /\ latest \in [Actors -> [version : Nat, covers : SUBSET Message]]
    BY <1>1 DEF SummariesInit
  <2> QED BY <2>1, <2>2, <2>3 DEF SummariesInit, SummariesTypeOK
<1>3. Rows = {} /\ DOMAIN summaries = {} /\ summaries = <<>> /\ jobs = {}
  BY DEF SummariesInit, Rows
<1>4. HasLatest
  BY <1>3 DEF HasLatest
<1>5. Writing
  BY <1>3, CallersDiffer DEF Writing, WroteRows, SummariesInit
<1>6. Known = {} /\ LatestVersion = 0
  BY <1>2, <1>3, <1>4, LatestIs
<1>7. Versioned
  BY <1>3, <1>6, CallersDiffer DEF Versioned, SummariesInit
<1>8. Size = 0 /\ CountedRows = {} /\ IsFiniteSet(Rows)
  BY <1>3, FS_EmptySet DEF Size, CountedRows
<1>9. Counting
  BY <1>8, <1>3, FS_EmptySet, CallersDiffer DEF Counting, SummariesInit
<1>10. Numbering
  BY <1>3, <1>8, CallersDiffer DEF Numbering, SummariesInit
<1>11. Summarizing
  BY <1>3, <1>8, CallersDiffer DEF Summarizing, SummariesInit, Reads, UpTo
<1>12. Smoothly
  <2>1. \A c \in Actors : ~Busy(c)
    BY DEF SummariesInit, Busy
  <2>2. Floor(0) = 0
    BY LimitAssumption DEF Floor
  <2>3. AllDue
    BY <1>3, <2>2 DEF AllDue, Due, SummariesInit
  <2> QED BY <1>3, <2>1, <2>3, IdleIsSmooth DEF Smoothly, SummariesInit, NumbersDiffer
<1> QED BY <1>2, <1>4, <1>5, <1>7, <1>9, <1>10, <1>11, <1>12 DEF SInv

\* The invariant holds in every reachable state, for any number of turns, pushes,
\* requests and devices, every message limit and every number of resets.
THEOREM SummariesInvariance == SummariesSpec => []SInv
<1>1. SInv /\ [SummariesNext]_summariesVars => SInv'
  <2> SUFFICES ASSUME SInv, [SummariesNext]_summariesVars
               PROVE  SInv'
    OBVIOUS
  <2>1. /\ SummariesTypeOK /\ HasLatest /\ Writing /\ Versioned /\ Counting /\ Numbering
        /\ Summarizing /\ Smoothly /\ IsFiniteSet(Rows)
    BY DEF SInv, Numbering
  <2>2. SummariesTypeOK' /\ HasLatest' /\ Writing' /\ Versioned'
    BY <2>1, SummariesTypeStep, HasLatestStep, WritingStep, VersionedStep
  <2>3. Counting' /\ Numbering' /\ Summarizing' /\ Smoothly'
    BY <2>1, CountingStep, NumberingStep, SummarizingStep, SmoothlyStep
  <2> QED BY <2>2, <2>3 DEF SInv
<1> QED BY <1>1, SummariesInitInvariant, PTL DEF SummariesSpec

\* The variables of the summaries keep their types.
THEOREM SummariesTypeCorrect == SummariesSpec => []SummariesTypeOK
BY SummariesInvariance, PTL DEF SInv

\* As long as no two messages share a number, what the relationship counts as
\* summarized is in the text of the latest summary.
THEOREM SummarizedStaysKnown == SummariesSpec => []SummarizedIsKnown
<1>1. SInv => SummarizedIsKnown
  BY DEF SInv, Summarizing, SummarizedIsKnown, UpTo
<1> QED BY <1>1, SummariesInvariance, PTL

\* Without a reset in between no summary knows less than the one before it, in
\* whatever order the jobs of several processes store theirs.
THEOREM KnowledgeOnlyGrows == SummariesSpec => KnowledgeGrows
<1>1. SInv /\ [SummariesNext]_summariesVars
        => [life' = life /\ ~torn => Known \subseteq Known']_summariesVars
  BY KnowledgeStep DEF SInv
<1> QED BY <1>1, SummariesInvariance, PTL DEF SummariesSpec, KnowledgeGrows

\* Rows whose numbers lie in an interval are no more than its length.
LEMMA RowsBetween ==
  ASSUME SummariesTypeOK, NumbersDiffer, NEW a \in Nat, NEW b \in Nat,
         NEW S \in SUBSET Rows, \A m \in S : a < seqOf[m] /\ seqOf[m] <= b
  PROVE  /\ IsFiniteSet(S) /\ Cardinality(S) \in Nat
         /\ Cardinality(S) <= IF a < b THEN b - a ELSE 0
<1> DEFINE f == [m \in S |-> seqOf[m]]
<1>1. f \in Injection(S, a + 1 .. b)
  <2>1. \A m \in S : seqOf[m] \in a + 1 .. b
    BY DEF SummariesTypeOK, Rows
  <2>2. f \in [S -> a + 1 .. b]
    BY <2>1
  <2>3. \A m, k \in S : f[m] = f[k] => m = k
    BY DEF NumbersDiffer
  <2> QED BY <2>2, <2>3 DEF Injection, IsInjective
<1>2. IsFiniteSet(a + 1 .. b) /\ Cardinality(a + 1 .. b) = IF a + 1 > b THEN 0 ELSE b - (a + 1) + 1
  BY FS_Interval
<1>3. IsFiniteSet(S) /\ Cardinality(S) <= Cardinality(a + 1 .. b)
  BY <1>1, <1>2, FS_Injection
<1>4. Cardinality(S) \in Nat
  BY <1>3, FS_CardinalityType
<1> QED BY <1>2, <1>3, <1>4

LEMMA MissedIsUncounted ==
  ASSUME SInv
  PROVE  PromptMissesOnlyUncounted
<1> DEFINE newer(m) == {k \in Rows : seqOf[k] > seqOf[m]}
<1> DEFINE missed == {m \in Rows \ Known : Cardinality(newer(m)) >= MessageLimit}
<1> SUFFICES ASSUME smooth, Quiet
             PROVE  Cardinality(missed) <= Cardinality(Rows) - messageCount
  BY DEF PromptMissesOnlyUncounted
<1>1. SummariesTypeOK /\ Counting /\ Numbering /\ Summarizing /\ Smoothly
  BY DEF SInv
<1>2. ~torn /\ NumbersDiffer /\ AllDue
  BY <1>1 DEF Smoothly
<1>3. Size \in Nat /\ messageCount \in Nat /\ messageCount <= Size /\ lastSummarized \in Nat
  BY <1>1, <1>2, CountedAreRows DEF Numbering, SummariesTypeOK
<1>4. lastSummarized = Floor(messageCount)
  BY <1>2, CallersDiffer DEF AllDue, Due, Quiet, Busy
<1>5. messageCount < lastSummarized + MessageLimit
  BY <1>3, <1>4, FloorBounds
<1>6. \A m \in Rows : seqOf[m] \in 1 .. Size
  BY <1>1, <1>2 DEF Numbering
<1>7. ASSUME NEW m \in missed
      PROVE  lastSummarized < seqOf[m] /\ seqOf[m] <= Size - MessageLimit
  <2>1. ~(seqOf[m] <= lastSummarized)
    BY <1>1, <1>2, <1>7 DEF Summarizing, UpTo
  <2>2. seqOf[m] \in 1 .. Size
    BY <1>6, <1>7
  <2>3. Cardinality(newer(m)) \in Nat /\ Cardinality(newer(m)) <= Size - seqOf[m]
    <3>1. newer(m) \in SUBSET Rows /\ \A k \in newer(m) : seqOf[m] < seqOf[k] /\ seqOf[k] <= Size
      BY <1>6, <2>2
    <3>2. seqOf[m] \in Nat
      BY <2>2
    <3>3. /\ Cardinality(newer(m)) \in Nat
          /\ Cardinality(newer(m)) <= IF seqOf[m] < Size THEN Size - seqOf[m] ELSE 0
      BY <1>1, <1>2, <1>3, <3>1, <3>2, RowsBetween
    <3> QED BY <1>3, <2>2, <3>3
  <2>4. Cardinality(newer(m)) >= MessageLimit
    BY <1>7
  <2> QED BY <1>3, <2>1, <2>2, <2>3, <2>4, LimitAssumption
<1>8. CASE MessageLimit <= Size
  <2>1. Size - MessageLimit \in Nat
    BY <1>3, <1>8, LimitAssumption
  <2>2. missed \in SUBSET Rows
    OBVIOUS
  <2>3. /\ Cardinality(missed) \in Nat
        /\ Cardinality(missed) <= IF lastSummarized < Size - MessageLimit
                                    THEN Size - MessageLimit - lastSummarized ELSE 0
    BY <1>1, <1>2, <1>3, <1>7, <2>1, <2>2, RowsBetween
  <2> QED BY <1>3, <1>5, <2>3, LimitAssumption DEF Size
<1>9. CASE ~(MessageLimit <= Size)
  <2>1. missed = {}
    BY <1>3, <1>6, <1>7, <1>9, LimitAssumption
  <2>2. Cardinality(missed) = 0
    BY <2>1, FS_EmptySet
  <2> QED BY <1>3, <2>2 DEF Size
<1> QED BY <1>8, <1>9

\* At rest, after turns and jobs that came one at a time, the prompt misses no more
\* messages than were never counted.
THEOREM PromptMissesNothingCounted == SummariesSpec => []PromptMissesOnlyUncounted
BY MissedIsUncounted, SummariesInvariance, PTL
=============================================================================
