------------------------- MODULE BehaviorJobsProofs -------------------------
(***************************************************************************)
(* The jobs of behaviors, and the triggers that make them.  BehaviorJobs,  *)
(* for any number of jobs, pollers, containers and effects, any batch size *)
(* and any crashes: one lemma for each action, which keeps each part of    *)
(* the inductive invariant.  Triggers, for any containers, relationships,  *)
(* links, times and limits: what an evaluation makes twice, and, under an  *)
(* exact schedule, that it makes it once and in time.                      *)
(***************************************************************************)
EXTENDS BehaviorJobs, Triggers, FiniteSetTheorems, WellFoundedInduction, TLAPS

LEMMA EnqueueKeeps ==
  ASSUME IInv, NEW j \in Jobs, Enqueue(j)
  PROVE  IInv'
<1> USE BatchAssumption, EffectAssumption, NoJobAssumption, CallerAssumption, KindAssumption
<1>1. TypeOK'
  BY DEF IInv, TypeOK, Enqueue, row, container, history, Status, Pc, Effect
<1>2. Places'
  BY DEF IInv, TypeOK, Places, OneCall, Polled, Enqueue, row, container, history, Pc, Claimable
<1>3. NotClaimed'
  BY DEF IInv, TypeOK, Places, Progress, NotClaimed, Polled, Enqueue, row, container, history, Claimable
<1>4. NotCalled'
  BY DEF IInv, TypeOK, Places, Progress, NotClaimed, NotCalled, Waiting, Polled, Enqueue, row, container, history, Claimable
<1>5. UnderWay'
  BY DEF IInv, TypeOK, Places, Progress, NotCalled, Waiting, UnderWay, Polled, Enqueue, row, container, history, Effect
<1>6. EffectsOnce'
  BY DEF IInv, TypeOK, Places, Progress, UnderWay, EffectsOnce, Polled, Enqueue, row, container, history, Effect
<1>7. CancelledNeverRuns'
  BY DEF IInv, TypeOK, Places, Progress, NotClaimed, CancelledNeverRuns, Polled, Enqueue, row, container, history, Claimable
<1> QED BY <1>1, <1>2, <1>3, <1>4, <1>5, <1>6, <1>7 DEF IInv, Progress

LEMMA RunAtComesKeeps ==
  ASSUME IInv, NEW j \in Jobs, RunAtComes(j)
  PROVE  IInv'
<1> USE BatchAssumption, EffectAssumption, NoJobAssumption, CallerAssumption, KindAssumption
<1>1. TypeOK'
  BY DEF IInv, TypeOK, RunAtComes, row, container, history, Status, Pc, Effect
<1>2. Places'
  BY DEF IInv, TypeOK, Places, OneCall, Polled, RunAtComes, row, container, history, Pc, Claimable
<1>3. NotClaimed'
  BY DEF IInv, TypeOK, Places, Progress, NotClaimed, Polled, RunAtComes, row, container, history, Claimable
<1>4. NotCalled'
  BY DEF IInv, TypeOK, Places, Progress, NotClaimed, NotCalled, Waiting, Polled, RunAtComes, row, container, history, Claimable
<1>5. UnderWay'
  BY DEF IInv, TypeOK, Places, Progress, NotCalled, Waiting, UnderWay, Polled, RunAtComes, row, container, history, Effect
<1>6. EffectsOnce'
  BY DEF IInv, TypeOK, Places, Progress, UnderWay, EffectsOnce, Polled, RunAtComes, row, container, history, Effect
<1>7. CancelledNeverRuns'
  BY DEF IInv, TypeOK, Places, Progress, NotClaimed, CancelledNeverRuns, Polled, RunAtComes, row, container, history, Claimable
<1> QED BY <1>1, <1>2, <1>3, <1>4, <1>5, <1>6, <1>7 DEF IInv, Progress

LEMMA ClaimKeeps ==
  ASSUME IInv, NEW p \in Pollers, Claim(p)
  PROVE  IInv'
<1> USE BatchAssumption, EffectAssumption, NoJobAssumption, CallerAssumption, KindAssumption
<1>0. PICK B \in SUBSET Claimable :
        /\ batch[p] = {}
        /\ status' = [j \in Jobs |-> IF j \in B THEN "running" ELSE status[j]]
        /\ batch' = [batch EXCEPT ![p] = B]
        /\ UNCHANGED <<due, created, container, found, history>>
  BY DEF Claim
<1>01. B \subseteq Jobs /\ \A j \in B : status[j] = "pending"
  BY <1>0 DEF IInv, TypeOK, Claimable
<1>1. TypeOK'
  BY <1>0, <1>01 DEF IInv, TypeOK, container, history, Status
<1>2. Places'
  <2>1. \A q \in Pollers : q # p => batch'[q] = batch[q] /\ B \cap batch[q] = {}
    BY <1>0, <1>01 DEF IInv, TypeOK, Progress, NotClaimed
  <2>2. batch'[p] = B /\ \A x \in Containers : Polled(x) => job[x] \notin B
    BY <1>0, <1>01 DEF IInv, TypeOK, Progress, NotClaimed
  <2>3. UNCHANGED <<pc, job, caller, step, touched>>
    BY <1>0 DEF container, history
  <2>4. \A x \in Containers : pc[x] # "free" /\ caller[x] \in Pollers => caller[x] # p
    BY <1>0 DEF IInv, Places
  <2>5. \A q, r \in Pollers : q # r => batch'[q] \cap batch'[r] = {}
    BY <2>1, <2>2 DEF IInv, Places
  <2>6. \A x \in Containers, q \in Pollers : Polled(x)' /\ job'[x] \in batch'[q] => caller'[x] = q
    BY <2>1, <2>2, <2>3 DEF IInv, Places, Polled
  <2>7. \A x \in Containers : pc'[x] # "free" /\ caller'[x] \in Pollers => job'[x] \in batch'[caller'[x]]
    BY <2>1, <2>3, <2>4 DEF IInv, Places
  <2>8. \A x, y \in Containers : Polled(x)' /\ Polled(y)' /\ job'[x] = job'[y] => x = y
    BY <2>3 DEF IInv, Places, Polled
  <2> QED BY <2>3, <2>5, <2>6, <2>7, <2>8 DEF IInv, Places, OneCall
<1>3. NotClaimed'
  BY DEF IInv, TypeOK, Places, Progress, NotClaimed, Polled, Claim, row, container, history, Claimable
<1>4. NotCalled'
  BY DEF IInv, TypeOK, Places, Progress, NotClaimed, NotCalled, Waiting, Polled, Claim, row, container, history, Claimable
<1>5. UnderWay'
  BY DEF IInv, TypeOK, Places, Progress, NotCalled, Waiting, UnderWay, Polled, Claim, row, container, history, Effect
<1>6. EffectsOnce'
  BY DEF IInv, TypeOK, Places, Progress, UnderWay, EffectsOnce, Polled, Claim, row, container, history, Effect
<1>7. CancelledNeverRuns'
  BY DEF IInv, TypeOK, Places, Progress, NotClaimed, CancelledNeverRuns, Polled, Claim, row, container, history, Claimable
<1> QED BY <1>1, <1>2, <1>3, <1>4, <1>5, <1>6, <1>7 DEF IInv, Progress

LEMMA PollerDiesKeeps ==
  ASSUME IInv, NEW p \in Pollers, PollerDies(p)
  PROVE  IInv'
<1> USE BatchAssumption, EffectAssumption, NoJobAssumption, CallerAssumption, KindAssumption
<1>1. TypeOK'
  BY DEF IInv, TypeOK, PollerDies, row, container, history, Status, Pc, Effect
<1>2. Places'
  BY DEF IInv, TypeOK, Places, OneCall, Polled, PollerDies, row, container, history, Pc, Claimable
<1>3. NotClaimed'
  BY DEF IInv, TypeOK, Places, Progress, NotClaimed, Polled, PollerDies, row, container, history, Claimable
<1>4. NotCalled'
  BY DEF IInv, TypeOK, Places, Progress, NotClaimed, NotCalled, Waiting, Polled, PollerDies, row, container, history, Claimable
<1>5. UnderWay'
  BY DEF IInv, TypeOK, Places, Progress, NotCalled, Waiting, UnderWay, Polled, PollerDies, row, container, history, Effect
<1>6. EffectsOnce'
  BY DEF IInv, TypeOK, Places, Progress, UnderWay, EffectsOnce, Polled, PollerDies, row, container, history, Effect
<1>7. CancelledNeverRuns'
  BY DEF IInv, TypeOK, Places, Progress, NotClaimed, CancelledNeverRuns, Polled, PollerDies, row, container, history, Claimable
<1> QED BY <1>1, <1>2, <1>3, <1>4, <1>5, <1>6, <1>7 DEF IInv, Progress

LEMMA CallKeeps ==
  ASSUME IInv, NEW p \in Pollers, NEW x \in Containers, Call(p, x)
  PROVE  IInv'
<1> USE BatchAssumption, EffectAssumption, NoJobAssumption, CallerAssumption, KindAssumption
<1>1. TypeOK'
  <2>1. PICK j \in batch[p] : job' = [job EXCEPT ![x] = j]
    BY DEF Call
  <2>2. j \in Jobs
    BY <2>1 DEF IInv, TypeOK
  <2>3. job' \in [Containers -> Jobs \cup {NoJob}]
    BY <2>1, <2>2 DEF IInv, TypeOK
  <2>4. pc' \in [Containers -> Pc] /\ caller' \in [Containers -> Pollers \cup {"tester", "nobody"}]
    BY DEF IInv, TypeOK, Call, Pc
  <2> QED BY <2>3, <2>4 DEF IInv, TypeOK, Call, row, history
<1>2. Places'
  BY DEF IInv, TypeOK, Places, OneCall, Polled, Call, row, container, history, Pc, Claimable
<1>3. NotClaimed'
  BY DEF IInv, TypeOK, Places, Progress, NotClaimed, Polled, Call, row, container, history, Claimable
<1>4. NotCalled'
  <2> SUFFICES ASSUME NEW q \in Pollers, NEW j \in Jobs, NEW e \in Effect, j \in batch'[q], Waiting(j)'
               PROVE  applied'[j][e] = 0
    BY DEF NotCalled
  <2>1. Waiting(j)
    <3> SUFFICES ASSUME NEW y \in Containers, job[y] = j PROVE ~Polled(y)
      BY DEF Waiting
    <3>1. CASE y = x
      BY <3>1 DEF Call, Polled
    <3>2. CASE y # x
      <4>1. job'[y] = job[y] /\ pc'[y] = pc[y] /\ caller'[y] = caller[y]
        BY <3>2 DEF IInv, TypeOK, Call
      <4> QED BY <4>1 DEF Waiting, Polled
    <3> QED BY <3>1, <3>2
  <2> QED BY <2>1 DEF IInv, Progress, NotCalled, Call, history
<1>5. UnderWay'
  BY DEF IInv, TypeOK, Places, Progress, NotCalled, Waiting, UnderWay, Polled, Call, row, container, history, Effect
<1>6. EffectsOnce'
  BY DEF IInv, TypeOK, Places, Progress, UnderWay, EffectsOnce, Polled, Call, row, container, history, Effect
<1>7. CancelledNeverRuns'
  BY DEF IInv, TypeOK, Places, Progress, NotClaimed, CancelledNeverRuns, Polled, Call, row, container, history, Claimable
<1> QED BY <1>1, <1>2, <1>3, <1>4, <1>5, <1>6, <1>7 DEF IInv, Progress

LEMMA CallByHandKeeps ==
  ASSUME IInv, NEW j \in Jobs, NEW x \in Containers, CallByHand(j, x)
  PROVE  IInv'
<1> USE BatchAssumption, EffectAssumption, NoJobAssumption, CallerAssumption, KindAssumption
<1>1. TypeOK'
  BY DEF IInv, TypeOK, CallByHand, row, container, history, Status, Pc, Effect
<1>2. Places'
  BY DEF IInv, TypeOK, Places, OneCall, Polled, CallByHand, row, container, history, Pc, Claimable
<1>3. NotClaimed'
  BY DEF IInv, TypeOK, Places, Progress, NotClaimed, Polled, CallByHand, row, container, history, Claimable
<1>4. NotCalled'
  <2> SUFFICES ASSUME NEW q \in Pollers, NEW i \in Jobs, NEW e \in Effect, i \in batch'[q], Waiting(i)'
               PROVE  applied'[i][e] = 0
    BY DEF NotCalled
  <2>1. Waiting(i)
    BY DEF IInv, TypeOK, Places, Waiting, Polled, CallByHand
  <2> QED BY <2>1 DEF IInv, Progress, NotCalled, CallByHand
<1>5. UnderWay'
  BY DEF IInv, TypeOK, Places, Progress, NotCalled, Waiting, UnderWay, Polled, CallByHand, row, container, history, Effect
<1>6. EffectsOnce'
  BY DEF IInv, TypeOK, Places, Progress, UnderWay, EffectsOnce, Polled, CallByHand, row, container, history, Effect
<1>7. CancelledNeverRuns'
  BY DEF IInv, TypeOK, Places, Progress, NotClaimed, CancelledNeverRuns, Polled, CallByHand, row, container, history, Claimable
<1> QED BY <1>1, <1>2, <1>3, <1>4, <1>5, <1>6, <1>7 DEF IInv, Progress

LEMMA LookUpKeeps ==
  ASSUME IInv, NEW x \in Containers, LookUp(x)
  PROVE  IInv'
<1> USE BatchAssumption, EffectAssumption, NoJobAssumption, CallerAssumption, KindAssumption
<1>1. TypeOK'
  BY DEF IInv, TypeOK, LookUp, row, container, history, Status, Pc, Effect
<1>2. Places'
  BY DEF IInv, TypeOK, Places, OneCall, Polled, LookUp, row, container, history, Pc, Claimable
<1>3. NotClaimed'
  BY DEF IInv, TypeOK, Places, Progress, NotClaimed, Polled, LookUp, row, container, history, Claimable
<1>4. NotCalled'
  BY DEF IInv, TypeOK, Places, Progress, NotClaimed, NotCalled, Waiting, Polled, LookUp, row, container, history, Claimable
<1>5. UnderWay'
  BY DEF IInv, TypeOK, Places, Progress, NotCalled, Waiting, UnderWay, Polled, LookUp, row, container, history, Effect
<1>6. EffectsOnce'
  BY DEF IInv, TypeOK, Places, Progress, UnderWay, EffectsOnce, Polled, LookUp, row, container, history, Effect
<1>7. CancelledNeverRuns'
  BY DEF IInv, TypeOK, Places, Progress, NotClaimed, CancelledNeverRuns, Polled, LookUp, row, container, history, Claimable
<1> QED BY <1>1, <1>2, <1>3, <1>4, <1>5, <1>6, <1>7 DEF IInv, Progress

LEMMA ApplyEffectKeeps ==
  ASSUME IInv, NEW x \in Containers, ApplyEffect(x)
  PROVE  IInv'
<1> USE BatchAssumption, EffectAssumption, NoJobAssumption, CallerAssumption, KindAssumption
<1>0. /\ job[x] \in Jobs /\ step[x] + 1 \in Effect /\ step[x] + 1 \in 0..LastEffect
      /\ Polled(x) => applied[job[x]][step[x] + 1] = 0
  <2>1. job[x] \in Jobs /\ step[x] \in 0..LastEffect /\ step[x] < LastEffect
    BY DEF IInv, TypeOK, Places, ApplyEffect
  <2>2. step[x] + 1 \in Effect /\ step[x] + 1 \in 0..LastEffect /\ step[x] + 1 > step[x]
    BY <2>1 DEF Effect
  <2>3. UnderWay
    BY DEF IInv, Progress
  <2>4. ASSUME Polled(x) PROVE applied[job[x]][step[x] + 1] = 0
    BY <2>2, <2>3, <2>4 DEF UnderWay
  <2> QED BY <2>1, <2>2, <2>4
<1>01. applied' \in [Jobs -> [Effect -> Nat]]
  BY <1>0 DEF IInv, TypeOK, ApplyEffect
<1>1. TypeOK'
  BY <1>0, <1>01 DEF IInv, TypeOK, ApplyEffect, row
<1>2. Places'
  BY DEF IInv, TypeOK, Places, OneCall, Polled, ApplyEffect, row, container, history, Pc, Claimable
<1>3. NotClaimed'
  BY DEF IInv, TypeOK, Places, Progress, NotClaimed, Polled, ApplyEffect, row, container, history, Claimable
<1>4. NotCalled'
  BY DEF IInv, TypeOK, Places, Progress, NotClaimed, NotCalled, Waiting, Polled, ApplyEffect, row, container, history, Claimable
<1>5. UnderWay'
  BY DEF IInv, TypeOK, Places, Progress, NotCalled, Waiting, UnderWay, Polled, ApplyEffect, row, container, history, Effect
<1>6. EffectsOnce'
  BY <1>0 DEF IInv, TypeOK, EffectsOnce, ApplyEffect
<1>7. CancelledNeverRuns'
  BY DEF IInv, TypeOK, Places, Progress, NotClaimed, CancelledNeverRuns, Polled, ApplyEffect, row, container, history, Claimable
<1> QED BY <1>1, <1>2, <1>3, <1>4, <1>5, <1>6, <1>7 DEF IInv, Progress

LEMMA CompleteKeeps ==
  ASSUME IInv, NEW x \in Containers, Complete(x)
  PROVE  IInv'
<1> USE BatchAssumption, EffectAssumption, NoJobAssumption, CallerAssumption, KindAssumption
<1>1. TypeOK'
  BY DEF IInv, TypeOK, Complete, row, container, history, Status, Pc, Effect
<1>2. Places'
  BY DEF IInv, TypeOK, Places, OneCall, Polled, Complete, row, container, history, Pc, Claimable
<1>3. NotClaimed'
  BY DEF IInv, TypeOK, Places, Progress, NotClaimed, Polled, Complete, row, container, history, Claimable
<1>4. NotCalled'
  BY DEF IInv, TypeOK, Places, Progress, NotClaimed, NotCalled, Waiting, Polled, Complete, row, container, history, Claimable
<1>5. UnderWay'
  BY DEF IInv, TypeOK, Places, Progress, NotCalled, Waiting, UnderWay, Polled, Complete, row, container, history, Effect
<1>6. EffectsOnce'
  BY DEF IInv, TypeOK, Places, Progress, UnderWay, EffectsOnce, Polled, Complete, row, container, history, Effect
<1>7. CancelledNeverRuns'
  BY DEF IInv, TypeOK, Places, Progress, NotClaimed, CancelledNeverRuns, Polled, Complete, row, container, history, Claimable
<1> QED BY <1>1, <1>2, <1>3, <1>4, <1>5, <1>6, <1>7 DEF IInv, Progress

LEMMA RaiseKeeps ==
  ASSUME IInv, NEW x \in Containers, Raise(x)
  PROVE  IInv'
<1> USE BatchAssumption, EffectAssumption, NoJobAssumption, CallerAssumption, KindAssumption
<1>1. TypeOK'
  BY DEF IInv, TypeOK, Raise, row, container, history, Status, Pc, Effect
<1>2. Places'
  BY DEF IInv, TypeOK, Places, OneCall, Polled, Raise, row, container, history, Pc, Claimable
<1>3. NotClaimed'
  BY DEF IInv, TypeOK, Places, Progress, NotClaimed, Polled, Raise, row, container, history, Claimable
<1>4. NotCalled'
  BY DEF IInv, TypeOK, Places, Progress, NotClaimed, NotCalled, Waiting, Polled, Raise, row, container, history, Claimable
<1>5. UnderWay'
  BY DEF IInv, TypeOK, Places, Progress, NotCalled, Waiting, UnderWay, Polled, Raise, row, container, history, Effect
<1>6. EffectsOnce'
  BY DEF IInv, TypeOK, Places, Progress, UnderWay, EffectsOnce, Polled, Raise, row, container, history, Effect
<1>7. CancelledNeverRuns'
  BY DEF IInv, TypeOK, Places, Progress, NotClaimed, CancelledNeverRuns, Polled, Raise, row, container, history, Claimable
<1> QED BY <1>1, <1>2, <1>3, <1>4, <1>5, <1>6, <1>7 DEF IInv, Progress

LEMMA FailKeeps ==
  ASSUME IInv, NEW x \in Containers, Fail(x)
  PROVE  IInv'
<1> USE BatchAssumption, EffectAssumption, NoJobAssumption, CallerAssumption, KindAssumption
<1>1. TypeOK'
  BY DEF IInv, TypeOK, Fail, row, container, history, Status, Pc, Effect
<1>2. Places'
  BY DEF IInv, TypeOK, Places, OneCall, Polled, Fail, row, container, history, Pc, Claimable
<1>3. NotClaimed'
  BY DEF IInv, TypeOK, Places, Progress, NotClaimed, Polled, Fail, row, container, history, Claimable
<1>4. NotCalled'
  BY DEF IInv, TypeOK, Places, Progress, NotClaimed, NotCalled, Waiting, Polled, Fail, row, container, history, Claimable
<1>5. UnderWay'
  BY DEF IInv, TypeOK, Places, Progress, NotCalled, Waiting, UnderWay, Polled, Fail, row, container, history, Effect
<1>6. EffectsOnce'
  BY DEF IInv, TypeOK, Places, Progress, UnderWay, EffectsOnce, Polled, Fail, row, container, history, Effect
<1>7. CancelledNeverRuns'
  BY DEF IInv, TypeOK, Places, Progress, NotClaimed, CancelledNeverRuns, Polled, Fail, row, container, history, Claimable
<1> QED BY <1>1, <1>2, <1>3, <1>4, <1>5, <1>6, <1>7 DEF IInv, Progress

LEMMA ReturnKeeps ==
  ASSUME IInv, NEW x \in Containers, Return(x)
  PROVE  IInv'
<1> USE BatchAssumption, EffectAssumption, NoJobAssumption, CallerAssumption, KindAssumption
<1>1. TypeOK'
  BY DEF IInv, TypeOK, Return, Free, row, container, history, Status, Pc, Effect
<1>2. Places'
  BY DEF IInv, TypeOK, Places, OneCall, Polled, Return, Free, row, container, history, Pc, Claimable
<1>3. NotClaimed'
  BY DEF IInv, TypeOK, Places, Progress, NotClaimed, Polled, Return, Free, row, container, history, Claimable
<1>4. NotCalled'
  <2> SUFFICES ASSUME NEW q \in Pollers, NEW j \in Jobs, NEW e \in Effect, j \in batch'[q], Waiting(j)'
               PROVE  applied'[j][e] = 0
    BY DEF NotCalled
  <2>1. j \in batch[q]
    BY DEF IInv, TypeOK, Return
  <2>2. ~(Polled(x) /\ job[x] = j)
    BY <2>1 DEF IInv, TypeOK, Places, Return
  <2>3. Waiting(j)
    BY <2>2 DEF IInv, TypeOK, Waiting, Polled, Return, Free
  <2> QED BY <2>1, <2>3 DEF IInv, Progress, NotCalled, Return, history
<1>5. UnderWay'
  BY DEF IInv, TypeOK, Places, Progress, NotCalled, Waiting, UnderWay, Polled, Return, Free, row, container, history, Effect
<1>6. EffectsOnce'
  BY DEF IInv, TypeOK, Places, Progress, UnderWay, EffectsOnce, Polled, Return, Free, row, container, history, Effect
<1>7. CancelledNeverRuns'
  BY DEF IInv, TypeOK, Places, Progress, NotClaimed, CancelledNeverRuns, Polled, Return, Free, row, container, history, Claimable
<1> QED BY <1>1, <1>2, <1>3, <1>4, <1>5, <1>6, <1>7 DEF IInv, Progress

LEMMA ContainerDiesKeeps ==
  ASSUME IInv, NEW x \in Containers, ContainerDies(x)
  PROVE  IInv'
<1> USE BatchAssumption, EffectAssumption, NoJobAssumption, CallerAssumption, KindAssumption
<1>1. TypeOK'
  BY DEF IInv, TypeOK, ContainerDies, Free, row, container, history, Status, Pc, Effect
<1>0. /\ \A q \in Pollers : batch'[q] = IF caller[x] = q THEN {} ELSE batch[q]
      /\ \A y \in Containers \ {x} :
           pc'[y] = pc[y] /\ job'[y] = job[y] /\ caller'[y] = caller[y] /\ step'[y] = step[y]
      /\ pc'[x] = "free" /\ job'[x] = NoJob /\ caller'[x] = "nobody" /\ step'[x] = 0
      /\ UNCHANGED <<row, found, history>>
  BY DEF IInv, TypeOK, ContainerDies, Free
<1>2. Places'
  <2>1. \A q, r \in Pollers : q # r => batch'[q] \cap batch'[r] = {}
    BY <1>0 DEF IInv, Places
  <2>2. \A y \in Containers : Polled(y)' => y # x /\ Polled(y)
    BY <1>0 DEF Polled
  <2>3. \A y, z \in Containers : Polled(y)' /\ Polled(z)' /\ job'[y] = job'[z] => y = z
    BY <1>0, <2>2 DEF IInv, Places
  <2>4. \A y \in Containers, q \in Pollers :
          Polled(y)' /\ job'[y] \in batch'[q] => caller'[y] = q
    BY <1>0, <2>2 DEF IInv, Places
  <2>5. \A y \in Containers \ {x}, q \in Pollers :
          pc[y] # "free" /\ caller[y] = q => caller[x] # q
    <3> SUFFICES ASSUME NEW y \in Containers \ {x}, pc[y] # "free", caller[y] \in Pollers,
                        caller[x] = caller[y]
                 PROVE  FALSE
      OBVIOUS
    <3> QED BY DEF IInv, TypeOK, Places, OneCall, ContainerDies
  <2>6. \A y \in Containers :
          /\ pc'[y] = "free" => job'[y] = NoJob /\ caller'[y] = "nobody" /\ step'[y] = 0
          /\ pc'[y] # "free" => job'[y] \in Jobs
          /\ pc'[y] = "called" => step'[y] = 0
          /\ pc'[y] # "free" /\ caller'[y] \in Pollers => job'[y] \in batch'[caller'[y]]
          /\ caller'[y] = "tester" => job'[y] \in touched'
    BY <1>0, <2>5, CallerAssumption DEF IInv, Places, history
  <2>7. OneCall'
    BY <1>0, CallerAssumption DEF IInv, Places, OneCall
  <2> QED BY <2>1, <2>3, <2>4, <2>6, <2>7 DEF Places
<1>3. NotClaimed'
  BY DEF IInv, TypeOK, Places, Progress, NotClaimed, Polled, ContainerDies, Free, row, container, history, Claimable
<1>4. NotCalled'
  <2> SUFFICES ASSUME NEW q \in Pollers, NEW j \in Jobs, NEW e \in Effect, j \in batch'[q], Waiting(j)'
               PROVE  applied'[j][e] = 0
    BY DEF NotCalled
  <2>1. j \in batch[q] /\ caller[x] # q
    BY <1>0
  <2>2. ~(Polled(x) /\ job[x] = j)
    BY <2>1 DEF IInv, Places
  <2>3. Waiting(j)
    BY <1>0, <2>2 DEF Waiting, Polled
  <2> QED BY <1>0, <2>1, <2>3 DEF IInv, Progress, NotCalled, history
<1>5. UnderWay'
  BY DEF IInv, TypeOK, Places, Progress, NotCalled, Waiting, UnderWay, Polled, ContainerDies, Free, row, container, history, Effect
<1>6. EffectsOnce'
  BY DEF IInv, TypeOK, Places, Progress, UnderWay, EffectsOnce, Polled, ContainerDies, Free, row, container, history, Effect
<1>7. CancelledNeverRuns'
  BY DEF IInv, TypeOK, Places, Progress, NotClaimed, CancelledNeverRuns, Polled, ContainerDies, Free, row, container, history, Claimable
<1> QED BY <1>1, <1>2, <1>3, <1>4, <1>5, <1>6, <1>7 DEF IInv, Progress

LEMMA FindActiveKeeps ==
  ASSUME IInv, NEW u \in Users, FindActive(u)
  PROVE  IInv'
<1> USE BatchAssumption, EffectAssumption, NoJobAssumption, CallerAssumption, KindAssumption
<1>1. TypeOK'
  BY DEF IInv, TypeOK, FindActive, row, container, history, Status, Pc, Effect
<1>2. Places'
  BY DEF IInv, TypeOK, Places, OneCall, Polled, FindActive, row, container, history, Pc, Claimable
<1>3. NotClaimed'
  BY DEF IInv, TypeOK, Places, Progress, NotClaimed, Polled, FindActive, row, container, history, Claimable
<1>4. NotCalled'
  BY DEF IInv, TypeOK, Places, Progress, NotClaimed, NotCalled, Waiting, Polled, FindActive, row, container, history, Claimable
<1>5. UnderWay'
  BY DEF IInv, TypeOK, Places, Progress, NotCalled, Waiting, UnderWay, Polled, FindActive, row, container, history, Effect
<1>6. EffectsOnce'
  BY DEF IInv, TypeOK, Places, Progress, UnderWay, EffectsOnce, Polled, FindActive, row, container, history, Effect
<1>7. CancelledNeverRuns'
  BY DEF IInv, TypeOK, Places, Progress, NotClaimed, CancelledNeverRuns, Polled, FindActive, row, container, history, Claimable
<1> QED BY <1>1, <1>2, <1>3, <1>4, <1>5, <1>6, <1>7 DEF IInv, Progress

LEMMA CancelFoundKeeps ==
  ASSUME IInv, NEW u \in Users, CancelFound(u)
  PROVE  IInv'
<1> USE BatchAssumption, EffectAssumption, NoJobAssumption, CallerAssumption, KindAssumption
<1>1. TypeOK'
  BY DEF IInv, TypeOK, CancelFound, row, container, history, Status, Pc, Effect
<1>2. Places'
  BY DEF IInv, TypeOK, Places, OneCall, Polled, CancelFound, row, container, history, Pc, Claimable
<1>3. NotClaimed'
  BY DEF IInv, TypeOK, Places, Progress, NotClaimed, Polled, CancelFound, row, container, history, Claimable
<1>4. NotCalled'
  BY DEF IInv, TypeOK, Places, Progress, NotClaimed, NotCalled, Waiting, Polled, CancelFound, row, container, history, Claimable
<1>5. UnderWay'
  BY DEF IInv, TypeOK, Places, Progress, NotCalled, Waiting, UnderWay, Polled, CancelFound, row, container, history, Effect
<1>6. EffectsOnce'
  BY DEF IInv, TypeOK, Places, Progress, UnderWay, EffectsOnce, Polled, CancelFound, row, container, history, Effect
<1>7. CancelledNeverRuns'
  BY DEF IInv, TypeOK, Places, Progress, NotClaimed, CancelledNeverRuns, Polled, CancelFound, row, container, history, Claimable
<1> QED BY <1>1, <1>2, <1>3, <1>4, <1>5, <1>6, <1>7 DEF IInv, Progress

(* From here to there: the invariant holds of every reachable state. *)
THEOREM Invariance == Spec => []IInv
<1>1. Init => IInv
  BY NoJobAssumption, EffectAssumption, CallerAssumption
     DEF Init, IInv, TypeOK, Places, OneCall, Progress, NotClaimed, NotCalled, UnderWay,
         EffectsOnce, CancelledNeverRuns, Polled, Status, Pc, Effect
<1>2. IInv /\ [Next]_vars => IInv'
  <2> SUFFICES ASSUME IInv, [Next]_vars PROVE IInv'
    OBVIOUS
  <2>1. CASE \E j \in Jobs : Enqueue(j) \/ RunAtComes(j)
    BY <2>1, EnqueueKeeps, RunAtComesKeeps
  <2>2. CASE \E p \in Pollers : Claim(p) \/ PollerDies(p)
    BY <2>2, ClaimKeeps, PollerDiesKeeps
  <2>3. CASE \E x \in Containers : Execute(x)
    BY <2>3, LookUpKeeps, ApplyEffectKeeps, CompleteKeeps, RaiseKeeps, FailKeeps, ReturnKeeps
       DEF Execute
  <2>4. CASE \E x \in Containers :
               \/ ContainerDies(x)
               \/ \E p \in Pollers : Call(p, x)
               \/ \E j \in Jobs : CallByHand(j, x)
    BY <2>4, ContainerDiesKeeps, CallKeeps, CallByHandKeeps
  <2>5. CASE \E u \in Users : FindActive(u) \/ CancelFound(u)
    BY <2>5, FindActiveKeeps, CancelFoundKeeps
  <2>6. CASE UNCHANGED vars
    BY <2>6 DEF IInv, TypeOK, Places, OneCall, Progress, NotClaimed, NotCalled, Waiting,
                UnderWay, EffectsOnce, CancelledNeverRuns, Polled, vars, row, container, history
  <2> QED BY <2>1, <2>2, <2>3, <2>4, <2>5, <2>6 DEF Next
<1> QED BY <1>1, <1>2, PTL DEF Spec

(* Every variable of the job table, the pollers and the containers keeps its *)
(* type, whoever executes and whatever dies.                                 *)
THEOREM TypeCorrect == Spec => []TypeOK
BY Invariance, PTL DEF IInv

(* The claim alone keeps pollers that overlap from executing a job twice:     *)
(* no effect of it is applied twice by them.                                  *)
THEOREM PolledOnce == Spec => []EffectsOnce
BY Invariance, PTL DEF IInv

(* A cancelled job is in nobody's batch and in no container, and nothing of   *)
(* it was applied, unless somebody runs it by hand.                           *)
THEOREM CancelIsSafe == Spec => []CancelledNeverRuns
BY Invariance, PTL DEF IInv

LEMMA ApplyEffectInOrder ==
  ASSUME IInv, EffectsInOrder, NEW x \in Containers, ApplyEffect(x)
  PROVE  EffectsInOrder'
<1> DEFINE n == step[x] + 1
<1>1. /\ job[x] \in Jobs /\ step[x] \in Nat /\ n \in Effect /\ n > step[x]
      /\ status' = status /\ touched' = touched
      /\ applied \in [Jobs -> [Effect -> Nat]]
  BY EffectAssumption DEF IInv, TypeOK, Places, ApplyEffect, Effect, row
<1>2. CASE ~Polled(x)
  BY <1>1, <1>2 DEF ApplyEffect, EffectsInOrder
<1>3. CASE Polled(x)
  <2>1. /\ \A e \in Effect : e <= step[x] => applied[job[x]][e] = 1
        /\ \A e \in Effect : e > step[x] => applied[job[x]][e] = 0
    BY <1>3 DEF IInv, Progress, UnderWay
  <2>2. /\ \A j \in Jobs \ {job[x]} : applied'[j] = applied[j]
        /\ \A e \in Effect : e # n => applied'[job[x]][e] = applied[job[x]][e]
        /\ applied'[job[x]][n] = 1
    BY <1>1, <1>3, <2>1 DEF ApplyEffect
  <2>3. \A e \in Effect : e > 1 => applied'[job[x]][e] <= applied'[job[x]][e - 1]
    <3> SUFFICES ASSUME NEW e \in Effect, e > 1
                 PROVE  applied'[job[x]][e] <= applied'[job[x]][e - 1]
      OBVIOUS
    <3>1. e - 1 \in Effect /\ e \in Nat
      BY EffectAssumption DEF Effect
    <3>2. CASE e <= n
      <4>1. applied'[job[x]][e - 1] = 1
        BY <1>1, <2>1, <2>2, <3>1, <3>2
      <4>2. applied'[job[x]][e] = 1
        BY <1>1, <2>1, <2>2, <3>1, <3>2
      <4> QED
        BY <4>1, <4>2
    <3>3. CASE e > n
      <4>1. applied'[job[x]][e] = 0
        BY <1>1, <2>1, <2>2, <3>1, <3>3
      <4>2. applied'[job[x]][e - 1] \in Nat
        BY <1>1, <2>2, <3>1
      <4> QED
        BY <4>1, <4>2
    <3> QED
      BY <1>1, <3>1, <3>2, <3>3
  <2> QED
    BY <1>1, <2>2, <2>3 DEF EffectsInOrder
<1> QED
  BY <1>2, <1>3

LEMMA CompleteInOrder ==
  ASSUME IInv, EffectsInOrder, NEW x \in Containers, Complete(x)
  PROVE  EffectsInOrder'
<1>1. /\ applied' = applied /\ touched' = touched /\ job[x] \in Jobs
      /\ status' = [status EXCEPT ![job[x]] = "completed"]
  BY DEF IInv, Places, Complete, history
<1>2. ASSUME job[x] \notin touched, NEW e \in Effect
      PROVE  applied[job[x]][e] = 1
  <2>1. Polled(x) /\ e <= step[x]
    BY <1>2, EffectAssumption DEF IInv, Places, Polled, Complete, Effect
  <2> QED
    BY <2>1 DEF IInv, Progress, UnderWay
<1> QED
  BY <1>1, <1>2 DEF IInv, TypeOK, EffectsInOrder

\* Nothing else applies an effect or completes a job.
LEMMA OthersInOrder ==
  ASSUME IInv, EffectsInOrder, applied' = applied, touched \subseteq touched',
         \A j \in Jobs : status'[j] = "completed" => status[j] = "completed"
  PROVE  EffectsInOrder'
BY DEF EffectsInOrder

(* What was applied of a job is always a prefix of its effects, and all of     *)
(* them once it is completed, however its executions were interrupted, unless *)
(* somebody ran it by hand.                                                   *)
THEOREM InOrder == Spec => []EffectsInOrder
<1>1. Init => EffectsInOrder
  BY EffectAssumption DEF Init, EffectsInOrder, Effect
<1>2. IInv /\ EffectsInOrder /\ [Next]_vars => EffectsInOrder'
  <2> SUFFICES ASSUME IInv, EffectsInOrder, [Next]_vars PROVE EffectsInOrder'
    OBVIOUS
  <2> DEFINE Keeps ==
        /\ applied' = applied
        /\ touched \subseteq touched'
        /\ \A j \in Jobs : status'[j] = "completed" => status[j] = "completed"
  <2>1. CASE \E j \in Jobs : Enqueue(j) \/ RunAtComes(j)
    BY <2>1, OthersInOrder DEF IInv, TypeOK, Enqueue, RunAtComes, history
  <2>2. CASE \E p \in Pollers : Claim(p) \/ PollerDies(p)
    BY <2>2, OthersInOrder DEF IInv, TypeOK, Claim, PollerDies, history, row
  <2>3. CASE \E x \in Containers : Execute(x)
    <3>1. PICK x \in Containers : Execute(x)
      BY <2>3
    <3>2. ASSUME LookUp(x) \/ Raise(x) \/ Return(x)
          PROVE  Keeps
      BY <3>2 DEF LookUp, Raise, Return, row, history
    <3>3. ASSUME Fail(x)
          PROVE  Keeps
      BY <3>3 DEF IInv, TypeOK, Fail, history
    <3> QED
      BY <3>1, <3>2, <3>3, ApplyEffectInOrder, CompleteInOrder, OthersInOrder DEF Execute
  <2>4. CASE \E x \in Containers :
               \/ ContainerDies(x)
               \/ \E p \in Pollers : Call(p, x)
               \/ \E j \in Jobs : CallByHand(j, x)
    BY <2>4, OthersInOrder DEF ContainerDies, Call, CallByHand, row, history
  <2>5. CASE \E u \in Users : FindActive(u) \/ CancelFound(u)
    BY <2>5, OthersInOrder DEF IInv, TypeOK, FindActive, CancelFound, row, history
  <2>6. CASE UNCHANGED vars
    BY <2>6, OthersInOrder DEF vars, row, history
  <2> QED
    BY <2>1, <2>2, <2>3, <2>4, <2>5, <2>6 DEF Next
<1> QED
  BY <1>1, <1>2, Invariance, PTL DEF Spec

-----------------------------------------------------------------------------
(* Triggers.  The parts of three inductive invariants, see README: of the idle
   jobs and the silences in hand (TalkInv), of evaluations that do not overlap
   (MarkInv), and of an exact schedule (CronInv, IdleInv). *)

\* A run holds the links of the triggers it evaluates, and silences of idle ones.
Holding ==
  \A p \in Runners :
    /\ run[p].pc = "cron" => run[p].links \subseteq CronLinks
    /\ run[p].pc = "idle" => run[p].links \subseteq IdleLinks
    /\ run[p].pc # "idle" => run[p].silences = {}

\* No job is of the future, and none is about a message not yet heard.
Past ==
  \A j \in jobs :
    /\ j.at <= clock
    /\ j.source = "idle" =>
         /\ j.heard <= talk[j.rel].heard
         /\ j.heard < talk[j.rel].heard => j.at <= talk[j.rel].at

Alike(j, s) == j.source = "idle" /\ j.behavior = s.behavior /\ j.rel = s.rel

\* A silence in hand is one of IdleAfter at least, since the jobs before it.
Scanned ==
  \A p \in Runners : \A s \in run[p].silences :
    /\ s.heard <= talk[s.rel].heard
    /\ \A j \in jobs : Alike(j, s) /\ j.heard < s.heard => j.at + IdleAfter < clock

\* NudgesApart, also of evaluations that overlap as long as one INSERT follows its
\* check at once.
Apart ==
  \A j, k \in jobs :
    j # k /\ j.source = "idle" /\ Alike(k, j) =>
      j.at > k.at + IdleAfter \/ k.at > j.at + IdleAfter

TalkInv == TriggersTypeOK /\ Holding /\ Past /\ Scanned /\ Apart

\* Evaluations that do not overlap, and the marker of the latest.
Sequential ==
  ~overlapped =>
    /\ \A p, q \in Busy : p = q
    /\ \A p \in Runners : /\ run[p].pc = "mark" => marker + MarkerGap <= clock
                          /\ run[p].pc = "cron" => marker <= run[p].now

\* Rows of one level, and the link that makes them.
Level == {"companion", "relation"}
MakerOf(b, r, level) ==
  [behavior |-> b, rel |-> IF level = "companion" THEN All ELSE r]
\* A run will evaluate this link.
Ahead(link) ==
  \E p \in Runners : \/ run[p].pc = "read"
                     \/ run[p].pc = "cron" /\ link \in run[p].links

Made(b, r, d, level) == {j \in CronJobs(b, r, d) : j.level = level}

\* How many rows there are of a time, and how long before the marker it was.
Count(b, r, d, level) ==
  LET made == Made(b, r, d, level)
      n == Cardinality(made) IN
    /\ IsFiniteSet(made) /\ n <= 3
    /\ n >= 1 => d <= clock
    /\ n >= 2 => d <= marker
    /\ n >= 3 => d + MarkerGap <= marker
    /\ Ahead(MakerOf(b, r, level)) =>
         /\ n >= 1 => d <= marker
         /\ n >= 2 => d + MarkerGap <= marker
         /\ n >= 3 => d + 2 * MarkerGap <= marker

Counted ==
  ~overlapped => \A b \in STRING, r \in Relationships, d \in Nat, level \in Level :
                   Count(b, r, d, level)

\* The periods fit together: evaluations are started every Period, and the one
\* that sets a marker is a Window after the last.  In the code 10, 55 and 60
\* seconds.
ScheduleFits == /\ \E w \in 1 .. Window : Window = w * Period
                /\ Period < Window
                /\ Window < MarkerGap + Period

\* Times of one behavior, of one link or of several, are a window apart or the
\* same: those of cron expressions are whole minutes, and the window is one.
TimesFit ==
  \A l, k \in CronLinks : l.behavior = k.behavior =>
    \A d \in DueTimes[l], e \in DueTimes[k] : d < e => d + Window <= e

Undisturbed == steady /\ ~troubled

\* The times of the first evaluation, and of the others.
MarkerFirst ==
  /\ marker = -MarkerGap
  /\ launched = 0 \/ launched = Period
  /\ launched # 0 => \E p \in Runners : run[p].pc = "mark"
MarkerLater ==
  /\ marker >= 0
  /\ \E n \in 0 .. launched : launched = marker + n * Period
  /\ launched <= marker + Window
  /\ (\A p \in Runners : run[p].pc # "mark") => launched + Period <= marker + Window
  /\ (\E p \in Runners : run[p].pc = "mark") => launched = marker + Window \/ clock = 0

\* An undisturbed evaluation takes no time, and the next is a window later.
Timely ==
  Undisturbed =>
    /\ clock <= launched + Period
    /\ marker <= launched
    /\ \A p \in Busy : launched = clock
    /\ \A p, q \in Busy : p # q => clock = 0
    /\ \A p \in Runners : /\ run[p].pc = "cron" => run[p].now = clock
                          /\ run[p].pc \in {"read", "cron", "idle"} => marker = clock
    /\ MarkerFirst \/ MarkerLater

IsTimeOf(link, d) == link \in CronLinks /\ d \in DueTimes[link]

\* Cron jobs are of the windows of their times, and evaluations a window apart.
CronTimes ==
  \A j \in jobs : j.source = "cron" =>
    /\ j.about <= j.at /\ j.at < j.about + Window
    /\ j.at = marker \/ j.at + Window <= marker
    /\ MakerOf(j.behavior, j.rel, j.level) \in CronLinks
    /\ j.about \in DueTimes[MakerOf(j.behavior, j.rel, j.level)]
    /\ j.level = "relation" => ~IsTimeOf(MakerOf(j.behavior, j.rel, "companion"), j.about)

CronApart ==
  \A j, k \in jobs : j.source = "cron" /\ k.source = "cron" =>
    j.at = k.at \/ j.at + Window <= k.at \/ k.at + Window <= j.at

\* What an evaluation is done with it has made.
CronFired ==
  \A p \in Runners : run[p].pc = "cron" =>
    \A link \in CronLinks \ run[p].links : link.rel = All /\ IsDue(link, clock) =>
      \A r \in Relationships :
        CronJob(link.behavior, r, "companion", PreviousTime(link, clock)) \in jobs

\* A time whose window is over at the marker has its rows, a time within it where
\* no run has its link before it.
CronKept ==
  \A link \in CronLinks : \A d \in DueTimes[link], r \in Reach(link) :
    d + Window <= marker \/ (d <= marker /\ ~Ahead(link)) =>
      CronJobs(link.behavior, r, d) # {}

CronMade ==
  Undisturbed /\ Cardinality(Relationships) <= RelationLimit =>
    CronTimes /\ CronApart /\ CronFired /\ CronKept

\* A silence is answered, or not yet due at the latest marker, or before a run
\* of it; in each case it was not due for a window at that marker.
Answered(b, r) == \E j \in jobs : /\ j.source = "idle" /\ j.behavior = b /\ j.rel = r
                                  /\ j.heard = talk[r].heard

AheadIn(p, link, r) ==
  \/ run[p].pc \in {"read", "cron"}
  \/ /\ run[p].pc = "idle"
     /\ \/ link \in run[p].links
        \/ [behavior |-> link.behavior, rel |-> r, heard |-> talk[r].heard] \in run[p].silences

IdleAhead(link, r) == \E p \in Runners : AheadIn(p, link, r)

NudgeMade(link, r) ==
  talk[r].heard > 0 =>
    \/ Answered(link.behavior, r)
    \/ /\ marker - Window - talk[r].at <= IdleAfter
       /\ marker - talk[r].at <= IdleAfter \/ IdleAhead(link, r)

IdleMade ==
  Undisturbed /\ Cardinality(Relationships) <= IdleLimit =>
    \A link \in IdleLinks : \A r \in Reach(link) : NudgeMade(link, r)

\* The steps, each under the names of its actors.
LEMMA TriggersCases ==
  ASSUME TriggersNext
  PROVE  \/ Tick
         \/ \E p \in Runners : \/ Launch(p) \/ Mark(p) \/ ReadLinks(p) \/ StartIdle(p)
                               \/ Finish(p) \/ Die(p)
         \/ \E p \in Runners : \E link \in run[p].links :
              FireCompanion(p, link) \/ FireRelation(p, link) \/ ScanSilences(p, link)
         \/ \E p \in Runners : \E s \in run[p].silences : Nudge(p, s)
         \/ \E r \in Relationships : Hear(r)
BY DEF TriggersNext, Evaluate

\* A set of numbers up to a bound has a greatest one.
LEMMA GreatestNatural ==
  ASSUME NEW S \in SUBSET Nat, NEW n \in Nat, \A x \in S : x <= n, S # {}
  PROVE  Max(S) \in S /\ \A x \in S : x <= Max(S)
<1> DEFINE T == {n - x : x \in S}
<1>1. T \subseteq Nat /\ T # {}
  <2>1. ASSUME NEW x \in S
        PROVE  n - x \in Nat
    <3>1. x \in Nat /\ x <= n
      OBVIOUS
    <3> QED BY <3>1
  <2>2. PICK x \in S : TRUE
    OBVIOUS
  <2>3. n - x \in T
    BY <2>2
  <2> QED BY <2>1, <2>3
<1>2. PICK y \in T : \A z \in T : <<z, y>> \notin OpToRel(<, Nat)
  BY <1>1, NatLessThanWellFounded, WFMin
<1>3. \A z \in T : ~(z < y)
  BY <1>1, <1>2 DEF OpToRel
<1>4. PICK x \in S : y = n - x
  BY <1>2
<1>5. \A z \in S : z <= x
  <2> SUFFICES ASSUME NEW z \in S
               PROVE  z <= x
    OBVIOUS
  <2>1. n - z \in T
    OBVIOUS
  <2>2. ~(n - z < n - x)
    BY <1>3, <1>4, <2>1
  <2>3. x \in Nat /\ z \in Nat
    OBVIOUS
  <2> QED BY <2>2, <2>3
<1>6. Max(S) \in S /\ \A z \in S : Max(S) >= z
  BY <1>5 DEF Max
<1> QED BY <1>6

\* The latest time that has passed.
LEMMA PreviousTimeIs ==
  ASSUME NEW link \in CronLinks, NEW n \in Nat, Passed(link, n) # {}
  PROVE  /\ PreviousTime(link, n) \in DueTimes[link] /\ PreviousTime(link, n) \in Nat
         /\ PreviousTime(link, n) <= n
         /\ \A d \in DueTimes[link] : d <= n => d <= PreviousTime(link, n)
<1>1. DueTimes[link] \subseteq Nat
  BY LinksAssumption
<1>2. Passed(link, n) \in SUBSET Nat /\ \A x \in Passed(link, n) : x <= n
  BY <1>1 DEF Passed
<1>3. /\ Max(Passed(link, n)) \in Passed(link, n)
      /\ \A x \in Passed(link, n) : x <= Max(Passed(link, n))
  BY <1>2, GreatestNatural
<1> QED BY <1>1, <1>3 DEF PreviousTime, Passed

LEMMA LinkType ==
  ASSUME NEW link \in CronLinks \cup IdleLinks
  PROVE  /\ link \in Links /\ link.behavior \in STRING /\ link.rel \in Relationships \cup {All}
         /\ Reach(link) \subseteq Relationships
         /\ link.rel # All => link.rel \in Relationships
BY LinksAssumption DEF Links, Reach

LEMMA ReachedIs ==
  ASSUME NEW S \in Reached
  PROVE  S \subseteq Relationships
BY DEF Reached, Limited, kSubset

LEMMA RunType ==
  ASSUME TriggersTypeOK, NEW p \in Runners
  PROVE  /\ run[p].pc \in {"rest", "mark", "read", "cron", "idle"}
         /\ run[p].since \in 0 .. clock /\ run[p].now \in 0 .. clock
         /\ run[p].links \subseteq CronLinks \cup IdleLinks
         /\ run[p].silences \subseteq Silence
         /\ clock \in Nat /\ run[p].now \in Nat
         /\ run[p] = [pc |-> run[p].pc, since |-> run[p].since, now |-> run[p].now,
                      links |-> run[p].links, silences |-> run[p].silences]
BY TimesAssumption DEF TriggersTypeOK

\* The rows that a cron trigger inserts are rows of that source.
LEMMA CronJobType ==
  ASSUME TriggersTypeOK, NEW link \in CronLinks, NEW n \in Nat, Passed(link, n) # {},
         NEW r \in Relationships, NEW level \in Level
  PROVE  CronJob(link.behavior, r, level, PreviousTime(link, n)) \in CronRow
<1>1. link.behavior \in STRING /\ PreviousTime(link, n) \in Nat /\ clock \in Nat
  BY LinkType, PreviousTimeIs, TimesAssumption DEF TriggersTypeOK
<1> QED BY <1>1 DEF CronJob, CronRow, Level

LEMMA IdleJobType ==
  ASSUME TriggersTypeOK, NEW s \in Silence
  PROVE  IdleJob(s) \in IdleRow
<1>1. /\ s.behavior \in STRING /\ s.rel \in Relationships
      /\ talk[s.rel].heard \in Nat /\ clock \in Nat
  BY TimesAssumption DEF TriggersTypeOK, Silence
<1> QED BY <1>1 DEF IdleJob, IdleRow

RunRecord(c) == [pc : {"rest", "mark", "read", "cron", "idle"}, since : 0..c, now : 0..c,
                 links : SUBSET (CronLinks \cup IdleLinks), silences : SUBSET Silence]

LEMMA RunIs ==
  ASSUME TriggersTypeOK, NEW p \in Runners
  PROVE  run[p] \in RunRecord(clock)
BY DEF TriggersTypeOK, RunRecord

LEMMA LinksChange ==
  ASSUME NEW c, NEW x \in RunRecord(c), NEW new \in SUBSET (CronLinks \cup IdleLinks)
  PROVE  /\ [x EXCEPT !.links = new] \in RunRecord(c)
         /\ [x EXCEPT !.links = new].links = new
         /\ [x EXCEPT !.links = new].pc = x.pc
         /\ [x EXCEPT !.links = new].now = x.now
         /\ [x EXCEPT !.links = new].silences = x.silences
<1> DEFINE y == [x EXCEPT !.links = new]
<1>0. /\ DOMAIN x = {"pc", "since", "now", "links", "silences"}
      /\ x = [f \in DOMAIN x |-> x[f]]
      /\ x.pc \in {"rest", "mark", "read", "cron", "idle"} /\ x.since \in 0 .. c
      /\ x.now \in 0 .. c /\ x.links \subseteq CronLinks \cup IdleLinks
      /\ x.silences \subseteq Silence
  BY DEF RunRecord
<1>1. y = [pc |-> x.pc, since |-> x.since, now |-> x.now, links |-> new, silences |-> x.silences]
  BY <1>0
<1> HIDE DEF y
<1>2. y \in RunRecord(c)
  BY <1>0, <1>1 DEF RunRecord
<1>3. y.links = new /\ y.pc = x.pc /\ y.now = x.now /\ y.silences = x.silences
  BY <1>1
<1> QED BY <1>2, <1>3 DEF y

LEMMA SilencesChange ==
  ASSUME NEW c, NEW x \in RunRecord(c), NEW new \in SUBSET Silence
  PROVE  /\ [x EXCEPT !.silences = new] \in RunRecord(c)
         /\ [x EXCEPT !.silences = new].silences = new
         /\ [x EXCEPT !.silences = new].pc = x.pc
         /\ [x EXCEPT !.silences = new].now = x.now
         /\ [x EXCEPT !.silences = new].links = x.links
<1> DEFINE y == [x EXCEPT !.silences = new]
<1>0. /\ DOMAIN x = {"pc", "since", "now", "links", "silences"}
      /\ x = [f \in DOMAIN x |-> x[f]]
      /\ x.pc \in {"rest", "mark", "read", "cron", "idle"} /\ x.since \in 0 .. c
      /\ x.now \in 0 .. c /\ x.links \subseteq CronLinks \cup IdleLinks
      /\ x.silences \subseteq Silence
  BY DEF RunRecord
<1>1. y = [pc |-> x.pc, since |-> x.since, now |-> x.now, links |-> x.links, silences |-> new]
  BY <1>0
<1> HIDE DEF y
<1>2. y \in RunRecord(c)
  BY <1>0, <1>1 DEF RunRecord
<1>3. y.silences = new /\ y.pc = x.pc /\ y.now = x.now /\ y.links = x.links
  BY <1>1
<1> QED BY <1>2, <1>3 DEF y

LEMMA RunStarts ==
  ASSUME NEW c, NEW x \in RunRecord(c),
         NEW L \in SUBSET (CronLinks \cup IdleLinks),
         NEW n \in 0 .. c, NEW at \in {"rest", "mark", "read", "cron", "idle"}
  PROVE  /\ [x EXCEPT !.pc = at] \in RunRecord(c)
         /\ [x EXCEPT !.pc = at, !.since = n] \in RunRecord(c)
         /\ [x EXCEPT !.pc = at, !.now = n, !.links = L] \in RunRecord(c)
BY DEF RunRecord

\* A step that only moves the run of a container.
LEMMA RunIsMoved ==
  ASSUME TriggersTypeOK, Holding, NEW p \in Runners, NEW new \in RunRecord(clock),
         run' = [run EXCEPT ![p] = new], clock' = clock,
         new.pc = "cron" => new.links \subseteq CronLinks,
         new.pc = "idle" => new.links \subseteq IdleLinks,
         new.pc # "idle" => new.silences = {}
  PROVE  run' \in [Runners -> RunRecord(clock')] /\ Holding'
BY DEF TriggersTypeOK, Holding, RunRecord

LEMMA TypesKept ==
  ASSUME TriggersTypeOK, clock' = clock, launched' \in 0 .. clock, steady' = steady,
         marker' \in (0 .. clock) \cup {-MarkerGap}, run' \in [Runners -> RunRecord(clock')],
         jobs' \subseteq CronRow \cup IdleRow, talk' = talk, overlapped' \in BOOLEAN,
         troubled' \in BOOLEAN
  PROVE  TriggersTypeOK'
BY DEF TriggersTypeOK, RunRecord

LevelOf(link) == IF link.rel = All THEN "companion" ELSE "relation"

\* What the evaluation of a cron link does: it is done with, and where it is due
\* rows about its latest time are inserted, one for a relationship.
LEMMA FireIs ==
  ASSUME TriggersTypeOK, Holding, NEW p \in Runners, NEW link \in run[p].links,
         FireCompanion(p, link) \/ FireRelation(p, link)
  PROVE  /\ run[p].pc = "cron" /\ link \in CronLinks
         /\ run' = [run EXCEPT ![p] = [run[p] EXCEPT !.links = @ \ {link}]]
         /\ UNCHANGED <<clock, launched, steady, marker, talk, overlapped>>
         /\ troubled' = troubled \/ troubled' = TRUE
         /\ \E to \in SUBSET Relationships :
              /\ jobs' = jobs \cup {CronJob(link.behavior, r, LevelOf(link),
                                            PreviousTime(link, run[p].now)) : r \in to}
              /\ to # {} => IsDue(link, run[p].now)
              /\ link.rel # All => to \subseteq {link.rel}
<1>1. run[p].pc = "cron" /\ link \in CronLinks
  BY DEF FireCompanion, FireRelation, Holding
<1>2. /\ run' = [run EXCEPT ![p] = [run[p] EXCEPT !.links = @ \ {link}]]
      /\ UNCHANGED <<clock, launched, steady, marker, talk, overlapped>>
  BY DEF FireCompanion, FireRelation
<1>3. troubled' = troubled \/ troubled' = TRUE
  BY DEF FireCompanion, FireRelation, FailOnce
<1> DEFINE Job(r) == CronJob(link.behavior, r, LevelOf(link), PreviousTime(link, run[p].now))
           Right(to) == /\ jobs' = jobs \cup {Job(r) : r \in to}
                        /\ to # {} => IsDue(link, run[p].now)
                        /\ link.rel # All => to \subseteq {link.rel}
<1>4. \E to \in SUBSET Relationships : Right(to)
  <2>1. CASE jobs' = jobs
    <3>1. {Job(r) : r \in {}} = {}
      OBVIOUS
    <3> HIDE DEF Job
    <3>2. jobs' = jobs \cup {Job(r) : r \in {}}
      BY <2>1, <3>1
    <3>3. Right({})
      BY <3>2
    <3>4. {} \in SUBSET Relationships
      OBVIOUS
    <3> HIDE DEF Right
    <3> QED BY <3>3, <3>4
  <2>2. CASE FireCompanion(p, link) /\ jobs' # jobs
    <3>1. IsDue(link, run[p].now) /\ link.rel = All
      BY <2>2 DEF FireCompanion
    <3>2. PICK S \in Reached : \E done \in SUBSET S :
            Insert({CronJob(link.behavior, r, "companion",
                            PreviousTime(link, run[p].now)) : r \in done})
      BY <2>2 DEF FireCompanion
    <3>a. PICK done \in SUBSET S :
            Insert({CronJob(link.behavior, r, "companion",
                            PreviousTime(link, run[p].now)) : r \in done})
      BY <3>2
    <3>3. done \in SUBSET Relationships /\ LevelOf(link) = "companion"
      BY <3>1, <3>2, <3>a, ReachedIs DEF LevelOf
    <3>4. jobs' = jobs \cup {Job(r) : r \in done}
      BY <3>a, <3>3 DEF Insert
    <3> HIDE DEF Job
    <3>5. Right(done)
      BY <3>1, <3>4
    <3> QED BY <3>3, <3>5
  <2>3. CASE FireRelation(p, link) /\ jobs' # jobs
    <3>1. IsDue(link, run[p].now)
      BY <2>3 DEF FireRelation
    <3>2. Insert({CronJob(link.behavior, link.rel, "relation", PreviousTime(link, run[p].now))})
      BY <2>3 DEF FireRelation
    <3>3. link.rel # All /\ LevelOf(link) = "relation"
      BY <2>3 DEF FireRelation, LevelOf
    <3>4. {link.rel} \in SUBSET Relationships
      BY <1>1, <3>3, LinkType
    <3>5. jobs' = jobs \cup {Job(r) : r \in {link.rel}}
      BY <3>2, <3>3 DEF Insert
    <3> HIDE DEF Job
    <3>6. Right({link.rel})
      BY <3>1, <3>5
    <3> QED BY <3>4, <3>6
  <2> QED BY <2>1, <2>2, <2>3
<1> QED BY <1>1, <1>2, <1>3, <1>4

\* What a nudge does: the silence is done with, and a job is inserted where there
\* is none of it; or the rest of the loop is lost.
LEMMA NudgeIs ==
  ASSUME TriggersTypeOK, Holding, NEW p \in Runners, NEW s \in run[p].silences, Nudge(p, s)
  PROVE  /\ run[p].pc = "idle" /\ s \in Silence
         /\ UNCHANGED <<clock, launched, steady, marker, talk, overlapped>>
         /\ \E rest \in SUBSET run[p].silences :
              run' = [run EXCEPT ![p] = [run[p] EXCEPT !.silences = rest]]
         /\ \/ jobs' = jobs
            \/ jobs' = jobs \cup {IdleJob(s)} /\ ~IdleJobExists(s)
         /\ \/ troubled' = TRUE
            \/ /\ troubled' = troubled
               /\ run' = [run EXCEPT ![p] = [run[p] EXCEPT !.silences = @ \ {s}]]
               /\ IdleJobExists(s) \/ jobs' = jobs \cup {IdleJob(s)}
<1>1. s \in Silence
  BY RunType
<1>2. run[p].pc = "idle" /\ UNCHANGED <<clock, launched, steady, marker, talk, overlapped>>
  BY DEF Nudge
<1>3. CASE /\ run' = [run EXCEPT ![p].silences = @ \ {s}]
           /\ IF IdleJobExists(s) THEN UNCHANGED jobs ELSE Insert({IdleJob(s)})
           /\ UNCHANGED troubled
  <2>1. run[p].silences \ {s} \in SUBSET run[p].silences
    OBVIOUS
  <2> QED BY <1>1, <1>2, <1>3, <2>1 DEF Insert
<1>4. CASE /\ run' = [run EXCEPT ![p].silences = {}]
           /\ FailOnce /\ UNCHANGED jobs
  BY <1>1, <1>2, <1>4 DEF FailOnce
<1> QED BY <1>3, <1>4 DEF Nudge

\* What a scan takes in hand: silences of relationships that are silent now.
LEMMA ScanIs ==
  ASSUME TriggersTypeOK, Holding, NEW p \in Runners, NEW link \in run[p].links,
         ScanSilences(p, link)
  PROVE  /\ run[p].pc = "idle" /\ run[p].silences = {} /\ link \in IdleLinks
         /\ UNCHANGED <<clock, launched, steady, marker, jobs, talk, overlapped, troubled>>
         /\ \E S \in Limited({r \in Reach(link) : IsSilent(r)}, IdleLimit) :
              run' = [run EXCEPT ![p] = [run[p] EXCEPT
                !.links = @ \ {link},
                !.silences = {[behavior |-> link.behavior, rel |-> r, heard |-> talk[r].heard] :
                                r \in S}]]
BY DEF ScanSilences, Holding

\* Every step keeps the types and what runs hold.
LEMMA TriggersTypeStep ==
  ASSUME TriggersTypeOK, Holding, [TriggersNext]_triggersVars
  PROVE  TriggersTypeOK' /\ Holding'
<1>0. /\ clock \in Nat /\ clock \in 0 .. Horizon /\ Horizon \in Nat
      /\ 0 \in 0 .. clock /\ clock \in 0 .. clock
  BY TimesAssumption DEF TriggersTypeOK
<1>a. /\ launched \in 0 .. clock /\ marker \in (0 .. clock) \cup {-MarkerGap}
      /\ run \in [Runners -> RunRecord(clock)] /\ jobs \subseteq CronRow \cup IdleRow
      /\ overlapped \in BOOLEAN /\ troubled \in BOOLEAN
  BY DEF TriggersTypeOK, RunRecord
<1>1. CASE Tick
  <2>1. clock' = clock + 1 /\ clock' \in 0 .. Horizon
    BY <1>0, <1>1 DEF Tick
  <2>2. /\ 0 .. clock \subseteq 0 .. clock'
        /\ UNCHANGED <<launched, steady, marker, run, jobs, talk, overlapped, troubled>>
    BY <1>0, <1>1, <2>1 DEF Tick
  <2>3. \A p \in Runners : run[p] \in RunRecord(clock')
    <3> SUFFICES ASSUME NEW p \in Runners
                 PROVE  run[p] \in RunRecord(clock')
      OBVIOUS
    <3>1. run[p].since \in 0 .. clock' /\ run[p].now \in 0 .. clock'
      BY <2>2, RunType
    <3> QED BY <3>1, RunIs DEF RunRecord
  <2>4. run' \in [Runners -> RunRecord(clock')]
    BY <1>a, <2>2, <2>3
  <2>5. talk' \in [Relationships -> [heard : Nat, at : 0..clock']]
    <3>1. \A r \in Relationships : /\ talk[r] \in [heard : Nat, at : 0..clock]
                                   /\ talk[r].at \in 0..clock'
      BY <2>2 DEF TriggersTypeOK
    <3>2. \A r \in Relationships : talk[r] \in [heard : Nat, at : 0..clock']
      BY <3>1
    <3> QED BY <2>2, <3>2 DEF TriggersTypeOK
  <2>6. TriggersTypeOK'
    BY <2>1, <2>2, <2>4, <2>5 DEF TriggersTypeOK, RunRecord
  <2>7. Holding'
    BY <2>2 DEF Holding
  <2> QED BY <2>6, <2>7
<1>2. ASSUME NEW p \in Runners, Launch(p)
      PROVE  TriggersTypeOK' /\ Holding'
  <2>1. UNCHANGED <<clock, steady, marker, jobs, talk, troubled>> /\ launched' = clock
    BY <1>2 DEF Launch
  <2>2. overlapped' \in BOOLEAN
    BY <1>2, <1>a DEF Launch
  <2>3. CASE run' = run
    <3>1. Holding'
      BY <2>3 DEF Holding
    <3>2. run' \in [Runners -> RunRecord(clock')]
      BY <1>a, <2>1, <2>3
    <3> QED BY <1>0, <1>a, <2>1, <2>2, <3>1, <3>2, TypesKept
  <2>4. CASE run' # run
    <3> DEFINE new == [run[p] EXCEPT !.pc = "mark", !.since = clock]
    <3>1. run' = [run EXCEPT ![p] = new]
      BY <1>2, <2>4 DEF Launch
    <3>2. new \in RunRecord(clock)
      BY <1>0, RunIs, RunStarts
    <3>3. new.pc = "mark" /\ new.silences = {}
      BY <1>2, RunIs DEF Launch, Holding, RunRecord
    <3> HIDE DEF new
    <3>4. run' \in [Runners -> RunRecord(clock')] /\ Holding'
      BY <2>1, <3>1, <3>2, <3>3, RunIsMoved
    <3> QED BY <1>0, <1>a, <2>1, <2>2, <3>4, TypesKept
  <2> QED BY <2>3, <2>4
<1>3. ASSUME NEW p \in Runners, Mark(p)
      PROVE  TriggersTypeOK' /\ Holding'
  <2> DEFINE new == [run[p] EXCEPT !.pc = "read"]
  <2>1. /\ run' = [run EXCEPT ![p] = new] /\ marker' = clock
        /\ UNCHANGED <<clock, launched, steady, jobs, talk, overlapped, troubled>>
    BY <1>3 DEF Mark
  <2>2. new \in RunRecord(clock)
    BY <1>0, RunIs, RunStarts
  <2>3. new.silences = {} /\ new.pc = "read"
    BY <1>3, RunIs DEF Mark, Holding, RunRecord
  <2> HIDE DEF new
  <2>4. run' \in [Runners -> RunRecord(clock')] /\ Holding'
    BY <2>1, <2>2, <2>3, RunIsMoved
  <2> QED BY <1>0, <1>a, <2>1, <2>4, TypesKept
<1>4. ASSUME NEW p \in Runners, ReadLinks(p)
      PROVE  TriggersTypeOK' /\ Holding'
  <2> DEFINE new == [run[p] EXCEPT !.pc = "cron", !.now = clock, !.links = CronLinks]
  <2>1. /\ run' = [run EXCEPT ![p] = new]
        /\ UNCHANGED <<clock, launched, steady, marker, jobs, talk, overlapped, troubled>>
    BY <1>4 DEF ReadLinks
  <2>2. new \in RunRecord(clock)
    BY <1>0, RunIs, RunStarts
  <2>3. new.silences = {} /\ new.pc = "cron" /\ new.links = CronLinks
    BY <1>4, RunIs DEF ReadLinks, Holding, RunRecord
  <2> HIDE DEF new
  <2>4. run' \in [Runners -> RunRecord(clock')] /\ Holding'
    BY <2>1, <2>2, <2>3, RunIsMoved
  <2> QED BY <1>0, <1>a, <2>1, <2>4, TypesKept
<1>5. ASSUME NEW p \in Runners, StartIdle(p)
      PROVE  TriggersTypeOK' /\ Holding'
  <2> DEFINE new == [run[p] EXCEPT !.pc = "idle", !.now = 0, !.links = IdleLinks]
  <2>1. /\ run' = [run EXCEPT ![p] = new]
        /\ UNCHANGED <<clock, launched, steady, marker, jobs, talk, overlapped, troubled>>
    BY <1>5 DEF StartIdle
  <2>2. new \in RunRecord(clock)
    BY <1>0, RunIs, RunStarts
  <2>3. new.pc = "idle" /\ new.links = IdleLinks
    BY <1>5, RunIs DEF RunRecord
  <2> HIDE DEF new
  <2>4. run' \in [Runners -> RunRecord(clock')] /\ Holding'
    BY <2>1, <2>2, <2>3, RunIsMoved
  <2> QED BY <1>0, <1>a, <2>1, <2>4, TypesKept
<1>6. ASSUME NEW p \in Runners, Finish(p) \/ Die(p)
      PROVE  TriggersTypeOK' /\ Holding'
  <2>1. /\ run' = [run EXCEPT ![p] = Resting] /\ troubled' \in BOOLEAN
        /\ UNCHANGED <<clock, launched, steady, marker, jobs, talk, overlapped>>
    BY <1>6, <1>a DEF Finish, Die, FailOnce
  <2>2. /\ Resting \in RunRecord(clock) /\ Resting.pc = "rest" /\ Resting.silences = {}
    BY <1>0 DEF Resting, RunRecord
  <2>3. run' \in [Runners -> RunRecord(clock')] /\ Holding'
    BY <2>1, <2>2, RunIsMoved
  <2> QED BY <1>0, <1>a, <2>1, <2>3, TypesKept
<1>7. ASSUME NEW p \in Runners, NEW link \in run[p].links,
             FireCompanion(p, link) \/ FireRelation(p, link)
      PROVE  TriggersTypeOK' /\ Holding'
  <2> DEFINE new == [run[p] EXCEPT !.links = @ \ {link}]
  <2>1. /\ run[p].pc = "cron" /\ link \in CronLinks
        /\ run' = [run EXCEPT ![p] = new]
        /\ UNCHANGED <<clock, launched, steady, marker, talk, overlapped>>
        /\ troubled' \in BOOLEAN
    BY <1>7, <1>a, FireIs
  <2>2. PICK to \in SUBSET Relationships :
              /\ jobs' = jobs \cup {CronJob(link.behavior, r, LevelOf(link),
                                            PreviousTime(link, run[p].now)) : r \in to}
              /\ to # {} => IsDue(link, run[p].now)
    BY <1>7, FireIs
  <2>3. \A r \in to : CronJob(link.behavior, r, LevelOf(link), PreviousTime(link, run[p].now))
                        \in CronRow
    <3> SUFFICES ASSUME NEW r \in to
                 PROVE  CronJob(link.behavior, r, LevelOf(link), PreviousTime(link, run[p].now))
                          \in CronRow
      OBVIOUS
    <3>1. Passed(link, run[p].now) # {}
      BY <2>2 DEF IsDue
    <3>2. run[p].now \in Nat
      BY RunType
    <3>3. LevelOf(link) \in Level
      BY DEF LevelOf, Level
    <3> QED BY <2>1, <3>1, <3>2, <3>3, CronJobType
  <2>4. jobs' \subseteq CronRow \cup IdleRow
    BY <1>a, <2>2, <2>3
  <2>5. run[p].links \ {link} \in SUBSET (CronLinks \cup IdleLinks)
    BY RunType
  <2>a. run[p].links \subseteq CronLinks /\ run[p].silences = {} /\ run[p] \in RunRecord(clock)
    BY <2>1, RunIs DEF Holding
  <2>6. new \in RunRecord(clock) /\ new.pc = "cron" /\ new.links \subseteq CronLinks
    BY <2>1, <2>5, <2>a, LinksChange
  <2>7. new.silences = {}
    BY <2>5, <2>a, LinksChange
  <2> HIDE DEF new
  <2>8. run' \in [Runners -> RunRecord(clock')] /\ Holding'
    BY <2>1, <2>6, <2>7, RunIsMoved
  <2> QED BY <1>0, <1>a, <2>1, <2>4, <2>8, TypesKept
<1>8. ASSUME NEW p \in Runners, NEW link \in run[p].links, ScanSilences(p, link)
      PROVE  TriggersTypeOK' /\ Holding'
  <2>1. /\ run[p].pc = "idle" /\ run[p].silences = {} /\ link \in IdleLinks
        /\ UNCHANGED <<clock, launched, steady, marker, jobs, talk, overlapped, troubled>>
    BY <1>8, ScanIs
  <2>2. PICK S \in Limited({r \in Reach(link) : IsSilent(r)}, IdleLimit) :
              run' = [run EXCEPT ![p] = [run[p] EXCEPT
                !.links = @ \ {link},
                !.silences = {[behavior |-> link.behavior, rel |-> r, heard |-> talk[r].heard] :
                                r \in S}]]
    BY <1>8, ScanIs
  <2> DEFINE seen == {[behavior |-> link.behavior, rel |-> r, heard |-> talk[r].heard] : r \in S}
  <2>3. seen \subseteq Silence
    <3>1. S \subseteq Relationships /\ link.behavior \in STRING
      BY <2>1, LinkType DEF Limited, kSubset
    <3>2. \A r \in S : talk[r].heard \in Nat
      BY <3>1 DEF TriggersTypeOK
    <3> QED BY <3>1, <3>2 DEF Silence
  <2> DEFINE part == [run[p] EXCEPT !.links = @ \ {link}]
             new == [part EXCEPT !.silences = seen]
  <2>4. run[p].links \ {link} \in SUBSET (CronLinks \cup IdleLinks) /\ run[p].links \subseteq IdleLinks
    BY <2>1, RunType DEF Holding
  <2>5. part \in RunRecord(clock) /\ part.pc = "idle" /\ part.links \subseteq IdleLinks
    <3>1. run[p] \in RunRecord(clock)
      BY RunIs
    <3> QED BY <2>1, <2>4, <3>1, LinksChange
  <2>6. run' = [run EXCEPT ![p] = new]
    BY <2>2
  <2> HIDE DEF part, seen
  <2>7. new \in RunRecord(clock) /\ new.pc = "idle" /\ new.links \subseteq IdleLinks
    BY <2>3, <2>5, SilencesChange
  <2> HIDE DEF new
  <2>8. run' \in [Runners -> RunRecord(clock')] /\ Holding'
    BY <2>1, <2>6, <2>7, RunIsMoved
  <2> QED BY <1>0, <1>a, <2>1, <2>8, TypesKept
<1>9. ASSUME NEW p \in Runners, NEW s \in run[p].silences, Nudge(p, s)
      PROVE  TriggersTypeOK' /\ Holding'
  <2>1. /\ run[p].pc = "idle" /\ s \in Silence
        /\ UNCHANGED <<clock, launched, steady, marker, talk, overlapped>>
        /\ jobs' = jobs \/ jobs' = jobs \cup {IdleJob(s)}
    BY <1>9, NudgeIs
  <2>2. troubled' \in BOOLEAN
    BY <1>9, <1>a, NudgeIs
  <2>3. PICK rest \in SUBSET run[p].silences :
          run' = [run EXCEPT ![p] = [run[p] EXCEPT !.silences = rest]]
    BY <1>9, NudgeIs
  <2>4. jobs' \subseteq CronRow \cup IdleRow
    BY <1>a, <2>1, IdleJobType
  <2> DEFINE new == [run[p] EXCEPT !.silences = rest]
  <2>5. rest \in SUBSET Silence /\ run[p].links \subseteq IdleLinks
    BY <2>1, RunType DEF Holding
  <2>6. new \in RunRecord(clock) /\ new.pc = "idle" /\ new.links \subseteq IdleLinks
    <3>1. run[p] \in RunRecord(clock)
      BY RunIs
    <3> QED BY <2>1, <2>5, <3>1, SilencesChange
  <2> HIDE DEF new
  <2>7. run' \in [Runners -> RunRecord(clock')] /\ Holding'
    BY <2>1, <2>3, <2>6, RunIsMoved DEF new
  <2> QED BY <1>0, <1>a, <2>1, <2>2, <2>4, <2>7, TypesKept
<1>10. ASSUME NEW r \in Relationships, Hear(r)
       PROVE  TriggersTypeOK' /\ Holding'
  <2>1. [heard |-> talk[r].heard + 1, at |-> clock] \in [heard : Nat, at : 0..clock]
    BY <1>0 DEF TriggersTypeOK
  <2>2. /\ talk' = [talk EXCEPT ![r] = [heard |-> talk[r].heard + 1, at |-> clock]]
        /\ UNCHANGED <<clock, launched, steady, marker, run, jobs, overlapped, troubled>>
    BY <1>10 DEF Hear
  <2> QED BY <2>1, <2>2 DEF TriggersTypeOK, Holding
<1>11. CASE UNCHANGED triggersVars
  BY <1>11 DEF triggersVars, TriggersTypeOK, Holding
<1> QED
  BY <1>1, <1>2, <1>3, <1>4, <1>5, <1>6, <1>7, <1>8, <1>9, <1>10, <1>11, TriggersCases

\* The fields of the rows and of the times.
LEMMA TalkType ==
  ASSUME TriggersTypeOK
  PROVE  /\ \A j \in jobs : j.at \in Nat /\ j.rel \in Relationships
         /\ \A j \in jobs : j.source = "idle" => j.heard \in Nat
         /\ \A r \in Relationships : talk[r].heard \in Nat /\ talk[r].at \in Nat
         /\ \A r \in Relationships : talk[r].at <= clock
         /\ \A p \in Runners : \A s \in run[p].silences :
              s.heard \in Nat /\ s.rel \in Relationships
         /\ clock \in Nat /\ IdleAfter \in Nat
<1>1. clock \in Nat /\ IdleAfter \in Nat
  BY TimesAssumption DEF TriggersTypeOK
<1>2. \A j \in jobs : j \in CronRow \/ j \in IdleRow
  BY DEF TriggersTypeOK
<1>3. \A r \in Relationships : talk[r] \in [heard : Nat, at : 0..clock]
  BY DEF TriggersTypeOK
<1>4. \A p \in Runners : run[p].silences \subseteq Silence
  BY RunType
<1>5. \A j \in jobs : j.source = "idle" => j.heard \in Nat
  BY <1>2 DEF CronRow, IdleRow
<1>6. \A j \in jobs : j.at \in Nat /\ j.rel \in Relationships
  BY <1>2 DEF CronRow, IdleRow
<1>7. \A p \in Runners : \A s \in run[p].silences :
        s.heard \in Nat /\ s.rel \in Relationships
  BY <1>4 DEF Silence
<1> QED BY <1>1, <1>3, <1>5, <1>6, <1>7

\* A step that hears nothing, scans nothing and nudges nobody.
LEMMA TalkKept ==
  ASSUME TalkInv, clock' \in Nat, clock <= clock', talk' = talk,
         \A j \in jobs' : j \in jobs \/ (j.source # "idle" /\ j.at = clock),
         \A p \in Runners : run'[p].silences \subseteq run[p].silences
  PROVE  Past' /\ Scanned' /\ Apart'
<1>1. /\ \A j \in jobs : j.at \in Nat
      /\ \A j \in jobs : j.source = "idle" => j.heard \in Nat
      /\ clock \in Nat /\ IdleAfter \in Nat
  BY TalkType DEF TalkInv
<1>2. Past'
  <2> SUFFICES ASSUME NEW j \in jobs'
               PROVE  /\ j.at <= clock'
                      /\ j.source = "idle" =>
                           /\ j.heard <= talk[j.rel].heard
                           /\ j.heard < talk[j.rel].heard => j.at <= talk[j.rel].at
    BY DEF Past
  <2>1. CASE j \in jobs
    <3>1. j.at <= clock /\ j.at \in Nat
      BY <1>1, <2>1 DEF TalkInv, Past
    <3>2. j.at <= clock'
      BY <1>1, <3>1
    <3> QED BY <2>1, <3>2 DEF TalkInv, Past
  <2>2. CASE j.source # "idle" /\ j.at = clock
    BY <2>2
  <2> QED BY <2>1, <2>2
<1>3. Scanned'
  <2> SUFFICES ASSUME NEW p \in Runners, NEW s \in run'[p].silences
               PROVE  /\ s.heard <= talk[s.rel].heard
                      /\ \A j \in jobs' : Alike(j, s) /\ j.heard < s.heard =>
                           j.at + IdleAfter < clock'
    BY DEF Scanned, Alike
  <2>1. s \in run[p].silences
    OBVIOUS
  <2>2. ASSUME NEW j \in jobs', Alike(j, s), j.heard < s.heard
        PROVE  j.at + IdleAfter < clock'
    <3>1. j \in jobs
      BY <2>2 DEF Alike
    <3>2. j.at + IdleAfter < clock
      BY <2>1, <2>2, <3>1 DEF TalkInv, Scanned
    <3>3. j.at \in Nat
      BY <1>1, <3>1
    <3> QED BY <1>1, <3>2, <3>3
  <2> QED BY <2>1, <2>2 DEF TalkInv, Scanned
<1>4. Apart'
  BY DEF TalkInv, Apart, Alike
<1> QED BY <1>2, <1>3, <1>4

\* A message makes every job one of before it.
LEMMA HearKept ==
  ASSUME TalkInv, NEW r \in Relationships, Hear(r)
  PROVE  Past' /\ Scanned' /\ Apart'
<1>1. /\ talk' = [talk EXCEPT ![r] = [heard |-> talk[r].heard + 1, at |-> clock]]
      /\ UNCHANGED <<clock, run, jobs>>
  BY DEF Hear
<1>2. /\ \A j \in jobs : j.at \in Nat /\ j.rel \in Relationships
      /\ \A j \in jobs : j.source = "idle" => j.heard \in Nat
      /\ \A q \in Relationships : talk[q].heard \in Nat /\ talk[q].at \in Nat
      /\ \A p \in Runners : \A s \in run[p].silences :
           s.heard \in Nat /\ s.rel \in Relationships
      /\ clock \in Nat
  BY TalkType DEF TalkInv
<1>3. /\ talk'[r].heard = talk[r].heard + 1 /\ talk'[r].at = clock
      /\ \A q \in Relationships : q # r => talk'[q] = talk[q]
  BY <1>1 DEF TalkInv, TriggersTypeOK
<1>4. Past'
  <2> SUFFICES ASSUME NEW j \in jobs
               PROVE  /\ j.at <= clock
                      /\ j.source = "idle" =>
                           /\ j.heard <= talk'[j.rel].heard
                           /\ j.heard < talk'[j.rel].heard => j.at <= talk'[j.rel].at
    BY <1>1 DEF Past
  <2>1. j.at <= clock
    BY DEF TalkInv, Past
  <2>2. CASE j.rel = r /\ j.source = "idle"
    <3>1. j.heard <= talk[r].heard /\ j.heard \in Nat /\ talk[r].heard \in Nat
      BY <1>2, <2>2 DEF TalkInv, Past
    <3>2. j.heard <= talk[r].heard + 1
      BY <3>1
    <3> QED BY <1>3, <2>1, <2>2, <3>2
  <2>3. CASE j.rel # r /\ j.source = "idle"
    <3>1. talk'[j.rel] = talk[j.rel]
      BY <1>2, <1>3, <2>3
    <3> QED BY <2>1, <2>3, <3>1 DEF TalkInv, Past
  <2> QED BY <2>1, <2>2, <2>3
<1>5. Scanned'
  <2> SUFFICES ASSUME NEW p \in Runners, NEW s \in run[p].silences
               PROVE  s.heard <= talk'[s.rel].heard
    BY <1>1 DEF TalkInv, Scanned, Alike
  <2>1. s.heard <= talk[s.rel].heard /\ s.heard \in Nat /\ s.rel \in Relationships
    BY <1>2 DEF TalkInv, Scanned
  <2>2. talk[s.rel].heard \in Nat
    BY <1>2, <2>1
  <2>3. talk'[s.rel].heard = talk[s.rel].heard \/ talk'[s.rel].heard = talk[s.rel].heard + 1
    BY <1>3, <2>1
  <2> QED BY <2>1, <2>2, <2>3
<1>6. Apart'
  BY <1>1 DEF TalkInv, Apart, Alike
<1> QED BY <1>4, <1>5, <1>6

\* What a scan finds is silent for longer than the trigger waits.
LEMMA ScanKept ==
  ASSUME TalkInv, NEW p \in Runners, NEW link \in run[p].links, ScanSilences(p, link)
  PROVE  Past' /\ Scanned' /\ Apart'
<1>1. link \in IdleLinks /\ UNCHANGED <<clock, jobs, talk>> /\ run[p].silences = {}
  BY ScanIs DEF TalkInv
<1>2. PICK S \in Limited({r \in Reach(link) : IsSilent(r)}, IdleLimit) :
        run' = [run EXCEPT ![p] = [run[p] EXCEPT
                !.links = @ \ {link},
                !.silences = {[behavior |-> link.behavior, rel |-> r, heard |-> talk[r].heard] :
                                r \in S}]]
  BY ScanIs DEF TalkInv
<1>3. /\ \A j \in jobs : j.at \in Nat
      /\ \A q \in Relationships : talk[q].heard \in Nat /\ talk[q].at \in Nat
      /\ clock \in Nat /\ IdleAfter \in Nat
  BY TalkType DEF TalkInv
<1>4. \A r \in S : r \in Relationships /\ IsSilent(r)
  BY <1>1, LinkType DEF Limited, kSubset
<1>5. \A q \in Runners : q # p => run'[q] = run[q]
  BY <1>2 DEF TalkInv, TriggersTypeOK
<1>6. run'[p].silences = {[behavior |-> link.behavior, rel |-> r, heard |-> talk[r].heard] : r \in S}
  <2> DEFINE seen == {[behavior |-> link.behavior, rel |-> r, heard |-> talk[r].heard] : r \in S}
  <2>1. run'[p] = [run[p] EXCEPT !.links = @ \ {link}, !.silences = seen]
    BY <1>2 DEF TalkInv, TriggersTypeOK
  <2>2. run[p] \in RunRecord(clock)
    BY RunIs DEF TalkInv
  <2> HIDE DEF seen
  <2>3. run'[p].silences = seen
    BY <2>1, <2>2 DEF RunRecord
  <2> QED BY <2>3 DEF seen
<1>7. Scanned'
  <2> SUFFICES ASSUME NEW q \in Runners, NEW s \in run'[q].silences
               PROVE  /\ s.heard <= talk[s.rel].heard
                      /\ \A j \in jobs : Alike(j, s) /\ j.heard < s.heard =>
                           j.at + IdleAfter < clock
    BY <1>1 DEF Scanned, Alike
  <2>1. CASE q # p
    BY <1>5, <2>1 DEF TalkInv, Scanned
  <2>2. CASE q = p
    <3>1. PICK r \in S : s = [behavior |-> link.behavior, rel |-> r, heard |-> talk[r].heard]
      BY <1>6, <2>2
    <3>2. s.rel = r /\ s.heard = talk[r].heard /\ r \in Relationships
      BY <1>4, <3>1
    <3>3. clock - talk[r].at > IdleAfter /\ talk[r].at \in Nat /\ talk[r].heard \in Nat
      BY <1>3, <1>4, <3>2 DEF IsSilent
    <3>4. ASSUME NEW j \in jobs, Alike(j, s), j.heard < s.heard
          PROVE  j.at + IdleAfter < clock
      <4>1. j.at <= talk[r].at /\ j.at \in Nat
        BY <1>3, <3>2, <3>4 DEF TalkInv, Past, Alike
      <4> QED BY <1>3, <3>3, <4>1
    <3> QED BY <3>2, <3>3, <3>4
  <2> QED BY <2>1, <2>2
<1>8. Past' /\ Apart'
  BY <1>1 DEF TalkInv, Past, Apart, Alike
<1> QED BY <1>7, <1>8

\* A job is inserted where those before it are of a message before the silence.
LEMMA NudgeKept ==
  ASSUME TalkInv, NEW p \in Runners, NEW s \in run[p].silences, Nudge(p, s)
  PROVE  Past' /\ Scanned' /\ Apart'
<1>1. s \in Silence /\ UNCHANGED <<clock, talk>>
  BY NudgeIs DEF TalkInv
<1>2. PICK rest \in SUBSET run[p].silences :
        run' = [run EXCEPT ![p] = [run[p] EXCEPT !.silences = rest]]
  BY NudgeIs DEF TalkInv
<1>3. /\ \A j \in jobs : j.at \in Nat
      /\ \A j \in jobs : j.source = "idle" => j.heard \in Nat
      /\ \A q \in Relationships : talk[q].heard \in Nat /\ talk[q].at \in Nat
      /\ clock \in Nat /\ IdleAfter \in Nat
      /\ \A q \in Runners : \A z \in run[q].silences :
           z.heard \in Nat /\ z.rel \in Relationships
  BY TalkType DEF TalkInv
<1>4. \A q \in Runners : run'[q].silences \subseteq run[q].silences
  <2>1. run[p] \in RunRecord(clock) /\ rest \in SUBSET Silence
    BY RunIs, RunType DEF TalkInv
  <2>2. [run[p] EXCEPT !.silences = rest].silences = rest
    BY <2>1, SilencesChange
  <2> QED BY <1>2, <2>2 DEF TalkInv, TriggersTypeOK
<1>5. CASE jobs' = jobs
  BY <1>1, <1>3, <1>4, <1>5, TalkKept
<1>6. CASE jobs' = jobs \cup {IdleJob(s)} /\ ~IdleJobExists(s)
  <2> DEFINE new == IdleJob(s)
  <2>1. /\ new.source = "idle" /\ new.behavior = s.behavior /\ new.rel = s.rel
        /\ new.heard = talk[s.rel].heard /\ new.at = clock
    BY DEF IdleJob
  <2>2. s.rel \in Relationships /\ s.heard \in Nat /\ s.heard <= talk[s.rel].heard
    BY <1>1 DEF Silence, TalkInv, Scanned
  <2> HIDE DEF new
  <2>3. \A j \in jobs : Alike(j, s) => j.at + IdleAfter < clock
    <3> SUFFICES ASSUME NEW j \in jobs, Alike(j, s)
                 PROVE  j.at + IdleAfter < clock
      OBVIOUS
    <3>1. ~(j.heard >= s.heard)
      BY <1>6 DEF IdleJobExists, Alike
    <3>2. j.heard \in Nat
      BY <1>3 DEF Alike
    <3>3. j.heard < s.heard
      BY <2>2, <3>1, <3>2
    <3> QED BY <3>3 DEF TalkInv, Scanned
  <2>4. jobs' = jobs \cup {new}
    BY <1>6 DEF new
  <2>5. Past'
    <3>1. new.at <= clock /\ new.heard <= talk[new.rel].heard /\ ~(new.heard < talk[new.rel].heard)
      BY <1>3, <2>1, <2>2
    <3> QED BY <1>1, <2>4, <3>1 DEF TalkInv, Past
  <2>6. Scanned'
    <3> SUFFICES ASSUME NEW q \in Runners, NEW z \in run[q].silences
                 PROVE  Alike(new, z) => ~(new.heard < z.heard)
      BY <1>1, <1>4, <2>4 DEF TalkInv, Scanned, Alike
    <3>1. z.heard <= talk[z.rel].heard /\ z.rel \in Relationships /\ z.heard \in Nat
      BY <1>3 DEF TalkInv, Scanned
    <3>2. talk[z.rel].heard \in Nat
      BY <1>3, <3>1
    <3> QED BY <2>1, <3>1, <3>2 DEF Alike
  <2>7. Apart'
    <3>1. \A j \in jobs : j.source = "idle" /\ j.behavior = s.behavior /\ j.rel = s.rel =>
            new.at > j.at + IdleAfter
      <4> SUFFICES ASSUME NEW j \in jobs, j.source = "idle", j.behavior = s.behavior, j.rel = s.rel
                   PROVE  new.at > j.at + IdleAfter
        OBVIOUS
      <4>1. j.at + IdleAfter < clock /\ j.at \in Nat
        BY <1>3, <2>3 DEF Alike
      <4> QED BY <1>3, <2>1, <4>1
    <3> SUFFICES ASSUME NEW j \in jobs', NEW k \in jobs', j # k, j.source = "idle", Alike(k, j)
                 PROVE  j.at > k.at + IdleAfter \/ k.at > j.at + IdleAfter
      BY DEF Apart, Alike
    <3>2. CASE j \in jobs /\ k \in jobs
      BY <3>2 DEF TalkInv, Apart
    <3>3. CASE j = new /\ k \in jobs
      BY <2>1, <3>1, <3>3 DEF Alike
    <3>4. CASE j \in jobs /\ k = new
      BY <2>1, <3>1, <3>4 DEF Alike
    <3> QED BY <2>4, <3>2, <3>3, <3>4
  <2> QED BY <2>5, <2>6, <2>7
<1> QED BY <1>5, <1>6, NudgeIs DEF TalkInv

LEMMA TalkStep ==
  ASSUME TalkInv, [TriggersNext]_triggersVars
  PROVE  TalkInv'
<1>1. TriggersTypeOK' /\ Holding'
  BY TriggersTypeStep DEF TalkInv
<1>2. clock \in Nat /\ \A p \in Runners : run[p] \in RunRecord(clock)
  BY RunIs, TalkType DEF TalkInv
<1>3. CASE Tick
  <2>1. clock' = clock + 1 /\ UNCHANGED <<run, jobs, talk>>
    BY <1>3 DEF Tick
  <2>2. clock' \in Nat /\ clock <= clock'
    BY <1>2, <2>1
  <2> QED BY <1>1, <2>1, <2>2, TalkKept DEF TalkInv
<1>4. ASSUME NEW p \in Runners,
             Launch(p) \/ Mark(p) \/ ReadLinks(p) \/ StartIdle(p) \/ Finish(p) \/ Die(p)
      PROVE  TalkInv'
  <2>1. UNCHANGED <<clock, jobs, talk>>
    BY <1>4 DEF Launch, Mark, ReadLinks, StartIdle, Finish, Die
  <2>2. \A q \in Runners : q # p => run'[q] = run[q]
    BY <1>4 DEF Launch, Mark, ReadLinks, StartIdle, Finish, Die, TalkInv, TriggersTypeOK
  <2>3. run'[p].silences \subseteq run[p].silences
    <3>1. /\ DOMAIN run = Runners /\ run[p] \in RunRecord(clock)
      BY <1>2 DEF TalkInv, TriggersTypeOK
    <3>2. CASE Launch(p) \/ Mark(p)
      BY <3>1, <3>2 DEF Launch, Mark, RunRecord
    <3>3. CASE ReadLinks(p) \/ StartIdle(p)
      BY <3>1, <3>3 DEF ReadLinks, StartIdle, RunRecord
    <3>4. CASE Finish(p) \/ Die(p)
      BY <3>1, <3>4 DEF Finish, Die, Resting
    <3> QED BY <1>4, <3>2, <3>3, <3>4
  <2> QED BY <1>1, <1>2, <2>1, <2>2, <2>3, TalkKept DEF TalkInv
<1>5. ASSUME NEW p \in Runners, NEW link \in run[p].links,
             FireCompanion(p, link) \/ FireRelation(p, link)
      PROVE  TalkInv'
  <2>1. /\ UNCHANGED <<clock, talk>>
        /\ run' = [run EXCEPT ![p] = [run[p] EXCEPT !.links = @ \ {link}]]
    BY <1>5, FireIs DEF TalkInv
  <2>2. PICK to \in SUBSET Relationships :
          jobs' = jobs \cup {CronJob(link.behavior, r, LevelOf(link),
                                     PreviousTime(link, run[p].now)) : r \in to}
    BY <1>5, FireIs DEF TalkInv
  <2>3. \A r \in to : LET j == CronJob(link.behavior, r, LevelOf(link),
                                       PreviousTime(link, run[p].now))
                      IN  j.source # "idle" /\ j.at = clock
    BY DEF CronJob
  <2>4. \A j \in jobs' : j \in jobs \/ (j.source # "idle" /\ j.at = clock)
    BY <2>2, <2>3
  <2>5. \A q \in Runners : run'[q].silences \subseteq run[q].silences
    <3>1. run[p].links \ {link} \in SUBSET (CronLinks \cup IdleLinks)
      BY RunType DEF TalkInv
    <3>2. [run[p] EXCEPT !.links = run[p].links \ {link}].silences = run[p].silences
      BY <1>2, <3>1, LinksChange
    <3> QED BY <2>1, <3>2 DEF TalkInv, TriggersTypeOK
  <2> QED BY <1>1, <1>2, <2>1, <2>4, <2>5, TalkKept DEF TalkInv
<1>6. ASSUME NEW p \in Runners, NEW link \in run[p].links, ScanSilences(p, link)
      PROVE  TalkInv'
  BY <1>1, <1>6, ScanKept DEF TalkInv
<1>7. ASSUME NEW p \in Runners, NEW s \in run[p].silences, Nudge(p, s)
      PROVE  TalkInv'
  BY <1>1, <1>7, NudgeKept DEF TalkInv
<1>8. ASSUME NEW r \in Relationships, Hear(r)
      PROVE  TalkInv'
  BY <1>1, <1>8, HearKept DEF TalkInv
<1>9. CASE UNCHANGED triggersVars
  BY <1>9 DEF triggersVars, TalkInv, TriggersTypeOK, Holding, Past, Scanned, Apart, Alike
<1> QED
  BY <1>3, <1>4, <1>5, <1>6, <1>7, <1>8, <1>9, TriggersCases

LEMMA TalkInit ==
  ASSUME TriggersInit
  PROVE  TalkInv
<1>1. Resting \in RunRecord(0)
  BY DEF Resting, RunRecord
<1>2. TriggersTypeOK
  <2>1. 0 \in 0 .. Horizon /\ 0 \in 0 .. 0
    BY TimesAssumption
  <2>2. /\ clock = 0 /\ launched = 0 /\ steady \in BOOLEAN /\ marker = -MarkerGap
        /\ run = [p \in Runners |-> Resting] /\ jobs = {}
        /\ talk = [r \in Relationships |-> [heard |-> 0, at |-> 0]]
        /\ overlapped = FALSE /\ troubled = FALSE
    BY DEF TriggersInit
  <2>3. run \in [Runners -> RunRecord(clock)]
    BY <1>1, <2>2
  <2>4. talk \in [Relationships -> [heard : Nat, at : 0 .. clock]]
    BY <2>1, <2>2
  <2> QED BY <2>1, <2>2, <2>3, <2>4 DEF TriggersTypeOK, RunRecord
<1>3. \A p \in Runners : run[p].pc = "rest" /\ run[p].silences = {}
  BY DEF TriggersInit, Resting
<1>4. jobs = {}
  BY DEF TriggersInit
<1> QED BY <1>2, <1>3, <1>4 DEF TalkInv, Holding, Past, Scanned, Apart

\* Whatever overlaps or fails, every silence in hand is one since the jobs for
\* earlier messages: the invariant of the idle triggers.
THEOREM TriggersInvariance == TriggersSpec => []TalkInv
<1>1. TriggersInit => TalkInv
  BY TalkInit
<1>2. TalkInv /\ [TriggersNext]_triggersVars => TalkInv'
  BY TalkStep
<1> QED BY <1>1, <1>2, PTL DEF TriggersSpec

\* The variables keep their types: the rows are those the code can write.
THEOREM TriggersTypeCorrect == TriggersSpec => []TriggersTypeOK
<1>1. TalkInv => TriggersTypeOK
  BY DEF TalkInv
<1> QED BY <1>1, TriggersInvariance, PTL

\* As long as evaluations do not overlap, two idle jobs of a behavior for a
\* relationship are further apart than the silence it waits for: for any
\* schedule, any number of containers, any messages and any failure.
THEOREM NudgesStayApart == TriggersSpec => []NudgesApart
<1>1. TalkInv => NudgesApart
  BY DEF TalkInv, Apart, Alike, NudgesApart
<1> QED BY <1>1, TriggersInvariance, PTL

\* In the code 60 and 55 seconds.
TimesInOrder == Window <= 2 * MarkerGap

MarkInv == TriggersTypeOK /\ Holding /\ Sequential /\ Counted

LEMMA ClockType ==
  ASSUME TriggersTypeOK
  PROVE  /\ clock \in Nat /\ marker \in Int /\ marker <= clock /\ MarkerGap \in Nat \ {0}
         /\ Window \in Nat \ {0} /\ launched \in Nat /\ launched <= clock
<1>1. /\ MarkerGap \in Nat \ {0} /\ Window \in Nat \ {0} /\ Horizon \in Nat
      /\ clock \in 0 .. Horizon /\ launched \in 0 .. clock
      /\ marker \in 0 .. clock \/ marker = -MarkerGap
  BY TimesAssumption DEF TriggersTypeOK
<1> QED BY <1>1

\* A step that starts no run keeps them one after the other.
LEMMA SequentialKept ==
  ASSUME TriggersTypeOK, Sequential, overlapped' = overlapped, clock' \in Nat, clock <= clock',
         marker' = marker,
         \A p \in Runners : /\ run'[p].pc # "rest" => run[p].pc # "rest"
                            /\ run'[p].pc = "mark" => run[p].pc = "mark"
                            /\ run'[p].pc = "cron" =>
                                 \/ run[p].pc = "cron" /\ run'[p].now = run[p].now
                                 \/ run'[p].now = clock
  PROVE  Sequential'
<1>1. clock \in Nat /\ marker \in Int /\ marker <= clock /\ MarkerGap \in Nat
  BY ClockType
<1>2. SUFFICES ASSUME ~overlapped
               PROVE  /\ \A p, q \in Busy' : p = q
                      /\ \A p \in Runners : /\ run'[p].pc = "mark" => marker + MarkerGap <= clock'
                                            /\ run'[p].pc = "cron" => marker <= run'[p].now
  BY DEF Sequential
<1>3. \A p, q \in Busy' : p = q
  BY <1>2 DEF Sequential, Busy
<1>4. ASSUME NEW p \in Runners, run'[p].pc = "mark"
      PROVE  marker + MarkerGap <= clock'
  <2>1. marker + MarkerGap <= clock
    BY <1>2, <1>4 DEF Sequential
  <2> QED BY <1>1, <2>1
<1>5. ASSUME NEW p \in Runners, run'[p].pc = "cron"
      PROVE  marker <= run'[p].now
  BY <1>1, <1>2, <1>5 DEF Sequential
<1> QED BY <1>3, <1>4, <1>5

LEMMA LaunchSequential ==
  ASSUME TriggersTypeOK, Sequential, NEW p \in Runners, Launch(p)
  PROVE  Sequential'
<1>1. /\ clock \in Nat /\ marker \in Int /\ MarkerGap \in Nat
      /\ \A q \in Runners : run[q] \in RunRecord(clock)
  BY ClockType, RunIs
<1>2. CASE run' = run /\ overlapped' = overlapped
  BY <1>2 DEF Launch, Sequential, Busy
<1>3. CASE /\ run' = [run EXCEPT ![p].pc = "mark", ![p].since = clock]
           /\ ~MarkerIsRecent
           /\ overlapped' = (overlapped \/ Busy # {})
  <2>1. \A q \in Runners : q # p => run'[q] = run[q]
    BY <1>3 DEF TriggersTypeOK
  <2>2. run'[p].pc = "mark"
    BY <1>1, <1>3 DEF TriggersTypeOK, RunRecord
  <2>3. ASSUME ~overlapped'
        PROVE  \A q \in Runners : q # p => run'[q].pc = "rest"
    BY <1>3, <2>1, <2>3 DEF Busy
  <2>4. marker + MarkerGap <= clock
    BY <1>1, <1>3 DEF MarkerIsRecent
  <2>5. UNCHANGED <<clock, marker>>
    BY DEF Launch
  <2> QED BY <2>2, <2>3, <2>4, <2>5 DEF Sequential, Busy
<1> QED BY <1>2, <1>3 DEF Launch

\* A step that inserts no cron job and sets no marker.
LEMMA CountedKept ==
  ASSUME TriggersTypeOK, Counted, clock' \in Nat, clock <= clock',
         overlapped => overlapped',
         marker' = marker,
         \A j : j.source = "cron" => (j \in jobs' <=> j \in jobs),
         \A link : Ahead(link)' => Ahead(link)
  PROVE  Counted'
<1> SUFFICES ASSUME ~overlapped', NEW b \in STRING, NEW r \in Relationships, NEW d \in Nat,
                    NEW level \in Level
             PROVE  Count(b, r, d, level)'
  BY DEF Counted
<1>1. Count(b, r, d, level)
  BY DEF Counted
<1>2. Made(b, r, d, level)' = Made(b, r, d, level)
  BY DEF Made, CronJobs
<1>3. Ahead(MakerOf(b, r, level))' => Ahead(MakerOf(b, r, level))
  BY DEF MakerOf
<1>4. clock \in Nat
  BY ClockType
<1> HIDE DEF Made, Ahead, MakerOf
<1> QED BY <1>1, <1>2, <1>3, <1>4 DEF Count

\* The runs that still have a link before them, after a step.
LEMMA AheadIs ==
  ASSUME TriggersTypeOK, NEW link, Ahead(link)',
         \A p \in Runners :
           \/ run'[p] = run[p]
           \/ run'[p].pc \notin {"read", "cron"}
           \/ run[p].pc = "read"
           \/ run[p].pc = "cron" /\ run'[p].pc = "cron" /\ run'[p].links \subseteq run[p].links
  PROVE  Ahead(link)
<1>1. PICK p \in Runners : run'[p].pc = "read" \/ (run'[p].pc = "cron" /\ link \in run'[p].links)
  BY DEF Ahead
<1>2. CASE run'[p] = run[p]
  BY <1>1, <1>2 DEF Ahead
<1>3. CASE run[p].pc = "read"
  BY <1>3 DEF Ahead
<1>4. CASE run[p].pc = "cron" /\ run'[p].pc = "cron" /\ run'[p].links \subseteq run[p].links
  BY <1>1, <1>4 DEF Ahead
<1> QED BY <1>1, <1>2, <1>3, <1>4

\* A marker leaves the times of the rows before it further behind.
LEMMA MarkCounted ==
  ASSUME MarkInv, NEW p \in Runners, Mark(p)
  PROVE  Counted'
<1> SUFFICES ASSUME ~overlapped', NEW b \in STRING, NEW r \in Relationships, NEW d \in Nat,
                    NEW level \in Level
             PROVE  Count(b, r, d, level)'
  BY DEF Counted
<1> DEFINE n == Cardinality(Made(b, r, d, level))
<1>1. ~overlapped /\ marker' = clock /\ UNCHANGED <<clock, jobs>> /\ run[p].pc = "mark"
  BY DEF Mark
<1>2. Count(b, r, d, level)
  BY <1>1 DEF MarkInv, Counted
<1>3. marker + MarkerGap <= clock
  BY <1>1 DEF MarkInv, Sequential
<1>4. Made(b, r, d, level)' = Made(b, r, d, level)
  BY <1>1 DEF Made, CronJobs
<1>5. clock \in Nat /\ marker \in Int /\ MarkerGap \in Nat
  BY ClockType DEF MarkInv
<1>6. IsFiniteSet(Made(b, r, d, level)) /\ n <= 3 /\ n \in Nat
  BY <1>2, FS_CardinalityType DEF Count
<1>7. /\ n >= 1 => d <= clock
      /\ n >= 2 => d <= marker
      /\ n >= 3 => d + MarkerGap <= marker
  BY <1>2 DEF Count
<1> HIDE DEF n
<1>8. /\ n >= 2 => d + MarkerGap <= clock /\ d <= clock
      /\ n >= 3 => d + 2 * MarkerGap <= clock /\ d + MarkerGap <= clock
  BY <1>3, <1>5, <1>6, <1>7
<1>9. Cardinality(Made(b, r, d, level)') = n
  BY <1>4 DEF n
<1> QED BY <1>1, <1>4, <1>6, <1>7, <1>8, <1>9 DEF Count

\* A row is added while its time is within the window: of at most two before it,
\* both of earlier markers.
LEMMA FireCounted ==
  ASSUME MarkInv, TimesInOrder, NEW p \in Runners, NEW link \in run[p].links,
         FireCompanion(p, link) \/ FireRelation(p, link)
  PROVE  Counted'
<1> SUFFICES ASSUME ~overlapped', NEW b \in STRING, NEW r \in Relationships, NEW d \in Nat,
                    NEW level \in Level
             PROVE  Count(b, r, d, level)'
  BY DEF Counted
<1> DEFINE t == PreviousTime(link, run[p].now)
           n == Cardinality(Made(b, r, d, level))
           new == CronJob(link.behavior, r, LevelOf(link), t)
<1>1. /\ run[p].pc = "cron" /\ link \in CronLinks
      /\ run' = [run EXCEPT ![p] = [run[p] EXCEPT !.links = @ \ {link}]]
      /\ UNCHANGED <<clock, marker, overlapped>>
  BY FireIs DEF MarkInv
<1>2. PICK to \in SUBSET Relationships :
        /\ jobs' = jobs \cup {CronJob(link.behavior, q, LevelOf(link), t) : q \in to}
        /\ to # {} => IsDue(link, run[p].now)
        /\ link.rel # All => to \subseteq {link.rel}
  BY FireIs DEF MarkInv
<1>3. Count(b, r, d, level)
  BY <1>1 DEF MarkInv, Counted
<1>4. /\ clock \in Nat /\ marker \in Int /\ MarkerGap \in Nat \ {0} /\ Window \in Nat
      /\ run[p].now \in Nat /\ run[p].now <= clock
  <2>1. clock \in Nat /\ run[p].now \in 0 .. clock
    BY RunType DEF MarkInv
  <2>2. marker \in Int /\ MarkerGap \in Nat \ {0} /\ Window \in Nat
    BY ClockType DEF MarkInv
  <2> QED BY <2>1, <2>2
<1>5. marker <= run[p].now
  BY <1>1 DEF MarkInv, Sequential
<1>6. Ahead(MakerOf(b, r, level))' => Ahead(MakerOf(b, r, level))
  <2> SUFFICES ASSUME NEW l, Ahead(l)'
               PROVE  Ahead(l)
    BY DEF MakerOf
  <2>1. run[p].links \ {link} \in SUBSET (CronLinks \cup IdleLinks) /\ run[p] \in RunRecord(clock)
    BY RunType, RunIs DEF MarkInv
  <2>2. run'[p] = [run[p] EXCEPT !.links = @ \ {link}] /\ \A q \in Runners : q # p => run'[q] = run[q]
    BY <1>1 DEF MarkInv, TriggersTypeOK
  <2>3. run'[p].pc = "cron" /\ run'[p].links \subseteq run[p].links
    BY <1>1, <2>1, <2>2, LinksChange
  <2> QED BY <1>1, <2>2, <2>3, AheadIs DEF MarkInv
<1>7. CASE Made(b, r, d, level)' = Made(b, r, d, level)
  <2> HIDE DEF Made
  <2> QED BY <1>1, <1>3, <1>6, <1>7 DEF Count
<1>8. CASE Made(b, r, d, level)' # Made(b, r, d, level)
  <2>1. \A q : /\ CronJob(link.behavior, q, LevelOf(link), t).source = "cron"
               /\ CronJob(link.behavior, q, LevelOf(link), t).behavior = link.behavior
               /\ CronJob(link.behavior, q, LevelOf(link), t).rel = q
               /\ CronJob(link.behavior, q, LevelOf(link), t).level = LevelOf(link)
               /\ CronJob(link.behavior, q, LevelOf(link), t).about = t
    BY DEF CronJob
  <2>2. PICK x \in jobs' : /\ x \notin jobs /\ x.source = "cron" /\ x.behavior = b /\ x.rel = r
                           /\ x.about = d /\ x.level = level
    BY <1>2, <1>8 DEF Made, CronJobs
  <2>3. PICK q \in to : x = CronJob(link.behavior, q, LevelOf(link), t)
    BY <1>2, <2>2
  <2>4. link.behavior = b /\ q = r /\ r \in to /\ LevelOf(link) = level /\ t = d
    BY <2>1, <2>2, <2>3
  <2>5. IsDue(link, run[p].now)
    BY <1>2, <2>3
  <2>6. t \in Nat /\ t <= run[p].now /\ run[p].now - t < Window
    BY <1>1, <1>4, <2>5, PreviousTimeIs DEF IsDue
  <2>7. Made(b, r, d, level)' = Made(b, r, d, level) \cup {new}
    <3>1. \A j \in jobs' : j \in jobs \/ \E y \in to : j = CronJob(link.behavior, y, LevelOf(link), t)
      BY <1>2
    <3>2. \A j \in jobs' \ jobs : j.rel = r => j = new
      BY <2>1, <3>1
    <3>3. new \in jobs' /\ jobs \subseteq jobs'
      BY <1>2, <2>4
    <3>4. new.source = "cron" /\ new.behavior = b /\ new.rel = r /\ new.about = d /\ new.level = level
      BY <2>1, <2>4
    <3> HIDE DEF new, t
    <3> QED BY <3>2, <3>3, <3>4 DEF Made, CronJobs
  <2>8. link = MakerOf(b, r, level)
    <3>1. link = [behavior |-> link.behavior, rel |-> link.rel]
      BY <1>1, LinkType DEF Links
    <3>2. level = "companion" => link.rel = All
      BY <2>4 DEF LevelOf
    <3>3. level # "companion" => link.rel = r
      BY <1>2, <2>4 DEF LevelOf
    <3> QED BY <2>4, <3>1, <3>2, <3>3 DEF MakerOf
  <2>9. Ahead(link)
    BY <1>1 DEF Ahead
  <2>10. ~Ahead(link)'
    <3>1. \A z \in Runners : z # p => run[z].pc = "rest"
      BY <1>1 DEF MarkInv, Sequential, Busy
    <3>2. \A z \in Runners : z # p => run'[z] = run[z]
      BY <1>1 DEF MarkInv, TriggersTypeOK
    <3>3. run'[p] = [run[p] EXCEPT !.links = run[p].links \ {link}]
      BY <1>1 DEF MarkInv, TriggersTypeOK
    <3>4. run[p].links \ {link} \in SUBSET (CronLinks \cup IdleLinks) /\ run[p] \in RunRecord(clock)
      BY RunType, RunIs DEF MarkInv
    <3> DEFINE left == run[p].links \ {link}
               y == [run[p] EXCEPT !.links = left]
    <3> HIDE DEF left
    <3>a. y.pc = run[p].pc /\ y.links = left
      BY <3>4, LinksChange DEF left
    <3>5. run'[p].pc = "cron" /\ run'[p].links = run[p].links \ {link}
      BY <1>1, <3>3, <3>a DEF left
    <3>6. SUFFICES ASSUME NEW z \in Runners,
                          run'[z].pc = "read" \/ (run'[z].pc = "cron" /\ link \in run'[z].links)
                   PROVE  FALSE
      BY DEF Ahead
    <3>7. z = p
      BY <3>1, <3>2, <3>6
    <3>8. link \notin run'[p].links
      BY <3>5
    <3> QED BY <3>5, <3>6, <3>7, <3>8
  <2>11. IsFiniteSet(Made(b, r, d, level)) /\ n \in Nat
    BY <1>3, FS_CardinalityType DEF Count
  <2>12. /\ n >= 1 => d <= marker
         /\ n >= 2 => d + MarkerGap <= marker
         /\ n >= 3 => d + 2 * MarkerGap <= marker
    BY <1>3, <2>8, <2>9 DEF Count
  <2> DEFINE m == Cardinality(Made(b, r, d, level)')
  <2>13. IsFiniteSet(Made(b, r, d, level)') /\ (m = n \/ m = n + 1)
    BY <2>7, <2>11, FS_AddElement
  <2>14. ~Ahead(MakerOf(b, r, level))'
    BY <2>8, <2>10
  <2> HIDE DEF n, m, t
  <2>15. ~(n >= 3)
    <3> SUFFICES ASSUME n >= 3
                 PROVE  FALSE
      OBVIOUS
    <3>1. d + 2 * MarkerGap <= run[p].now
      BY <1>4, <1>5, <2>12
    <3>2. run[p].now < d + 2 * MarkerGap
      BY <1>4, <2>4, <2>6 DEF TimesInOrder
    <3> QED BY <1>4, <3>1, <3>2
  <2>16. m <= 3 /\ (m >= 2 => d <= marker) /\ (m >= 3 => d + MarkerGap <= marker) /\ d <= clock
    BY <1>4, <2>4, <2>6, <2>11, <2>12, <2>13, <2>15
  <2> QED BY <1>1, <2>13, <2>14, <2>16 DEF Count, m
<1> QED BY <1>7, <1>8

LEMMA MarkStep ==
  ASSUME MarkInv, TimesInOrder, [TriggersNext]_triggersVars
  PROVE  MarkInv'
<1>1. TriggersTypeOK' /\ Holding'
  BY TriggersTypeStep DEF MarkInv
<1>2. /\ clock \in Nat /\ \A q \in Runners : run[q] \in RunRecord(clock)
      /\ DOMAIN run = Runners
  BY RunIs, ClockType DEF MarkInv, TriggersTypeOK
<1>3. CASE Tick
  <2>1. /\ clock' = clock + 1 /\ UNCHANGED <<run, jobs, marker, overlapped>>
        /\ clock' \in Nat /\ clock <= clock'
    BY <1>2, <1>3 DEF Tick
  <2>2. Sequential'
    BY <2>1, SequentialKept DEF MarkInv
  <2>3. \A l : Ahead(l)' => Ahead(l)
    BY <2>1 DEF Ahead
  <2>4. Counted'
    BY <2>1, <2>3, CountedKept DEF MarkInv
  <2> QED BY <1>1, <2>2, <2>4 DEF MarkInv
<1>4. ASSUME NEW p \in Runners, Launch(p)
      PROVE  MarkInv'
  <2>1. Sequential'
    BY <1>4, LaunchSequential DEF MarkInv
  <2>2. UNCHANGED <<clock, jobs, marker>> /\ (overlapped => overlapped')
    BY <1>4 DEF Launch
  <2>3. \A l : Ahead(l)' => Ahead(l)
    <3>1. run'[p].pc # "read" /\ run'[p].pc # "cron"
      BY <1>2, <1>4 DEF Launch, RunRecord
    <3>2. \A q \in Runners : q # p => run'[q] = run[q]
      BY <1>2, <1>4 DEF Launch
    <3> QED BY <3>1, <3>2, AheadIs DEF MarkInv
  <2>4. Counted'
    BY <1>2, <2>2, <2>3, CountedKept DEF MarkInv
  <2> QED BY <1>1, <2>1, <2>4 DEF MarkInv
<1>5. ASSUME NEW p \in Runners, Mark(p)
      PROVE  MarkInv'
  <2>1. Counted'
    BY <1>5, MarkCounted
  <2>2. Sequential'
    <3>1. /\ run'[p].pc = "read" /\ \A q \in Runners : q # p => run'[q] = run[q]
          /\ overlapped' = overlapped /\ run[p].pc = "mark"
      BY <1>2, <1>5 DEF Mark, RunRecord
    <3>2. ASSUME ~overlapped
          PROVE  \A q \in Runners : q # p => run[q].pc = "rest"
      BY <3>1, <3>2 DEF MarkInv, Sequential, Busy
    <3> QED BY <3>1, <3>2 DEF Sequential, Busy
  <2> QED BY <1>1, <2>1, <2>2 DEF MarkInv
<1>6. ASSUME NEW p \in Runners, ReadLinks(p) \/ StartIdle(p) \/ Finish(p) \/ Die(p)
      PROVE  MarkInv'
  <2>1. UNCHANGED <<clock, jobs, marker, overlapped>>
    BY <1>6 DEF ReadLinks, StartIdle, Finish, Die
  <2>2. /\ \A q \in Runners : q # p => run'[q] = run[q]
        /\ run[p].pc # "rest"
    BY <1>2, <1>6 DEF ReadLinks, StartIdle, Finish, Die, Busy
  <2>3. \/ run'[p].pc = "cron" /\ run'[p].now = clock /\ run[p].pc = "read"
        \/ run'[p].pc \in {"idle", "rest"}
    BY <1>2, <1>6 DEF ReadLinks, StartIdle, Finish, Die, Resting, RunRecord
  <2>4. Sequential'
    BY <1>2, <2>1, <2>2, <2>3, SequentialKept DEF MarkInv
  <2>5. \A l : Ahead(l)' => Ahead(l)
    BY <2>2, <2>3, AheadIs DEF MarkInv
  <2>6. Counted'
    BY <1>2, <2>1, <2>5, CountedKept DEF MarkInv
  <2> QED BY <1>1, <2>4, <2>6 DEF MarkInv
<1>7. ASSUME NEW p \in Runners, NEW link \in run[p].links,
             FireCompanion(p, link) \/ FireRelation(p, link)
      PROVE  MarkInv'
  <2>1. Counted'
    BY <1>7, FireCounted
  <2>2. /\ run[p].pc = "cron"
        /\ run' = [run EXCEPT ![p] = [run[p] EXCEPT !.links = @ \ {link}]]
        /\ UNCHANGED <<clock, marker, overlapped>>
    BY <1>7, FireIs DEF MarkInv
  <2>3. run[p].links \ {link} \in SUBSET (CronLinks \cup IdleLinks)
    BY RunType DEF MarkInv
  <2>4. run'[p].pc = "cron" /\ run'[p].now = run[p].now
    BY <1>2, <2>2, <2>3, LinksChange
  <2>5. \A q \in Runners : q # p => run'[q] = run[q]
    BY <1>2, <2>2
  <2>6. Sequential'
    BY <1>2, <2>2, <2>4, <2>5, SequentialKept DEF MarkInv
  <2> QED BY <1>1, <2>1, <2>6 DEF MarkInv
<1>8. ASSUME NEW p \in Runners, run[p].pc = "idle", run'[p].pc = "idle",
             \A q \in Runners : q # p => run'[q] = run[q],
             UNCHANGED <<clock, marker, overlapped>>,
             \A j : j.source = "cron" => (j \in jobs' <=> j \in jobs)
      PROVE  MarkInv'
  <2>1. Sequential'
    BY <1>2, <1>8, SequentialKept DEF MarkInv
  <2>2. \A l : Ahead(l)' => Ahead(l)
    BY <1>8, AheadIs DEF MarkInv
  <2>3. Counted'
    BY <1>2, <1>8, <2>2, CountedKept DEF MarkInv
  <2> QED BY <1>1, <2>1, <2>3 DEF MarkInv
<1>9. ASSUME NEW p \in Runners, NEW link \in run[p].links, ScanSilences(p, link)
      PROVE  MarkInv'
  <2>1. /\ run[p].pc = "idle" /\ UNCHANGED <<clock, marker, overlapped, jobs>>
    BY <1>9, ScanIs DEF MarkInv
  <2>2. \A q \in Runners : q # p => run'[q] = run[q]
    BY <1>2, <1>9 DEF ScanSilences
  <2>3. run'[p].pc = "idle"
    BY <1>2, <1>9 DEF ScanSilences, RunRecord
  <2> QED BY <1>8, <2>1, <2>2, <2>3
<1>10. ASSUME NEW p \in Runners, NEW s \in run[p].silences, Nudge(p, s)
       PROVE  MarkInv'
  <2>1. /\ run[p].pc = "idle" /\ UNCHANGED <<clock, marker, overlapped>>
        /\ jobs' = jobs \/ jobs' = jobs \cup {IdleJob(s)}
    BY <1>10, NudgeIs DEF MarkInv
  <2>2. PICK rest \in SUBSET run[p].silences :
          run' = [run EXCEPT ![p] = [run[p] EXCEPT !.silences = rest]]
    BY <1>10, NudgeIs DEF MarkInv
  <2>3. rest \in SUBSET Silence
    BY RunType DEF MarkInv
  <2>4. run'[p].pc = "idle" /\ \A q \in Runners : q # p => run'[q] = run[q]
    BY <1>2, <2>1, <2>2, <2>3, SilencesChange
  <2>5. IdleJob(s).source # "cron"
    BY DEF IdleJob
  <2>6. \A j : j.source = "cron" => (j \in jobs' <=> j \in jobs)
    BY <2>1, <2>5
  <2> QED BY <1>8, <2>1, <2>4, <2>6
<1>11. ASSUME NEW r \in Relationships, Hear(r)
       PROVE  MarkInv'
  <2>1. UNCHANGED <<clock, run, jobs, marker, overlapped>>
    BY <1>11 DEF Hear
  <2>2. Sequential'
    BY <1>2, <2>1, SequentialKept DEF MarkInv
  <2>3. \A l : Ahead(l)' => Ahead(l)
    BY <2>1 DEF Ahead
  <2>4. Counted'
    BY <1>2, <2>1, <2>3, CountedKept DEF MarkInv
  <2> QED BY <1>1, <2>2, <2>4 DEF MarkInv
<1>12. CASE UNCHANGED triggersVars
  <2>1. UNCHANGED <<clock, run, jobs, marker, overlapped>>
    BY <1>12 DEF triggersVars
  <2>2. Sequential'
    BY <1>2, <2>1, SequentialKept DEF MarkInv
  <2>3. \A l : Ahead(l)' => Ahead(l)
    BY <2>1 DEF Ahead
  <2>4. Counted'
    BY <1>2, <2>1, <2>3, CountedKept DEF MarkInv
  <2> QED BY <1>1, <2>2, <2>4 DEF MarkInv
<1> QED
  BY <1>3, <1>4, <1>5, <1>6, <1>7, <1>9, <1>10, <1>11, <1>12, TriggersCases

LEMMA MarkInit ==
  ASSUME TriggersInit
  PROVE  MarkInv
<1>1. TriggersTypeOK /\ Holding
  BY TalkInit DEF TalkInv
<1>2. \A p \in Runners : run[p].pc = "rest"
  BY DEF TriggersInit, Resting
<1>3. Sequential
  BY <1>2 DEF Sequential, Busy
<1>4. ASSUME NEW b \in STRING, NEW r \in Relationships, NEW d \in Nat, NEW level \in Level
      PROVE  Count(b, r, d, level)
  <2>1. Made(b, r, d, level) = {}
    BY DEF TriggersInit, Made, CronJobs
  <2>2. IsFiniteSet(Made(b, r, d, level)) /\ Cardinality(Made(b, r, d, level)) = 0
    BY <2>1, FS_EmptySet
  <2> QED BY <2>2 DEF Count
<1> QED BY <1>1, <1>3, <1>4 DEF MarkInv, Counted

\* As long as evaluations do not overlap, a cron time makes at most three jobs
\* for a relationship and a level: each needs a marker of its own within the
\* window, and a window is at most two gaps between markers.
THEOREM DuplicatesStayFew ==
  ASSUME TimesInOrder
  PROVE  TriggersSpec => []FewDuplicates
<1>1. TriggersInit => MarkInv
  BY MarkInit
<1>2. MarkInv /\ [TriggersNext]_triggersVars => MarkInv'
  BY TimesInOrder, MarkStep
<1>3. MarkInv => FewDuplicates
  <2> SUFFICES ASSUME MarkInv, ~overlapped, NEW link \in CronLinks, NEW d \in DueTimes[link],
                      NEW r \in Relationships, NEW level \in {"companion", "relation"}
               PROVE  Cardinality({j \in CronJobs(link.behavior, r, d) : j.level = level}) <= 3
    BY DEF FewDuplicates
  <2>1. d \in Nat /\ link.behavior \in STRING /\ level \in Level
    BY LinkType, LinksAssumption DEF Level
  <2>2. Count(link.behavior, r, d, level)
    BY <2>1 DEF MarkInv, Counted
  <2> QED BY <2>2 DEF Count, Made
<1> QED BY <1>1, <1>2, <1>3, PTL DEF TriggersSpec

\* Multiples of the period.
LEMMA MultiplesApart ==
  ASSUME NEW P \in Nat \ {0}, NEW m \in Nat, NEW w \in Nat, m * P < w * P
  PROVE  (m + 1) * P <= w * P /\ (m + 1) * P = m * P + P
<1>1. m < w
  <2> SUFFICES ASSUME m >= w
               PROVE  FALSE
    OBVIOUS
  <2>1. (m - w) \in Nat /\ m = w + (m - w)
    OBVIOUS
  <2>2. m * P = w * P + (m - w) * P /\ (m - w) * P >= 0
    BY <2>1
  <2> QED BY <2>2
<1>2. PICK k \in Nat : w = m + 1 + k
  <2>1. w - m - 1 \in Nat /\ w = m + 1 + (w - m - 1)
    BY <1>1
  <2> QED BY <2>1
<1>3. w * P = (m + 1) * P + k * P /\ k * P >= 0
  BY <1>2
<1> QED BY <1>3

\* A step within an evaluation.
LEMMA TimelyKept ==
  ASSUME TriggersTypeOK, Timely, UNCHANGED <<clock, launched, marker, steady>>,
         troubled => troubled',
         \A p \in Runners :
           \/ run'[p] = run[p]
           \/ run[p].pc = "read" /\ run'[p].pc = "cron" /\ run'[p].now = clock
           \/ run[p].pc = "cron" /\ run'[p].pc = "cron" /\ run'[p].now = run[p].now
           \/ run[p].pc \in {"cron", "idle"} /\ run'[p].pc = "idle"
           \/ run[p].pc = "idle" /\ run'[p].pc = "rest"
  PROVE  Timely'
<1> SUFFICES ASSUME Undisturbed'
             PROVE  Timely'
  BY DEF Timely
<1>1. Undisturbed
  BY DEF Undisturbed
<1>2. Busy' \subseteq Busy
  BY DEF Busy
<1>3. \A p \in Runners : run'[p].pc = "mark" <=> run[p].pc = "mark"
  OBVIOUS
<1>4. \A p \in Runners : run'[p].pc \in {"read", "cron", "idle"} => run[p].pc \in {"read", "cron", "idle"}
  OBVIOUS
<1>5. \A p \in Runners : run'[p].pc = "cron" => run'[p].now = clock
  BY <1>1 DEF Timely
<1>6. /\ clock' <= launched' + Period /\ marker' <= launched'
      /\ \A p \in Busy' : launched' = clock'
      /\ \A p, q \in Busy' : p # q => clock' = 0
  BY <1>1, <1>2 DEF Timely
<1>7. \A p \in Runners : /\ run'[p].pc = "cron" => run'[p].now = clock'
                         /\ run'[p].pc \in {"read", "cron", "idle"} => marker' = clock'
  BY <1>1, <1>4, <1>5 DEF Timely
<1>8. MarkerFirst' \/ MarkerLater'
  BY <1>1, <1>3 DEF Timely, MarkerFirst, MarkerLater
<1> QED BY <1>6, <1>7, <1>8 DEF Timely

LEMMA TimesType ==
  ASSUME TriggersTypeOK
  PROVE  /\ clock \in Nat /\ marker \in Int /\ launched \in Nat /\ launched <= clock
         /\ MarkerGap \in Nat \ {0} /\ Window \in Nat \ {0} /\ Period \in Nat \ {0}
         /\ MarkerGap < Window
BY ClockType, TimesAssumption

\* Time passes only between the runs of an undisturbed schedule.
LEMMA TickTimely ==
  ASSUME TriggersTypeOK, Timely, Tick
  PROVE  Timely'
<1> SUFFICES ASSUME Undisturbed'
             PROVE  Timely'
  BY DEF Timely
<1>1. /\ clock' = clock + 1 /\ UNCHANGED <<launched, steady, marker, run, troubled>>
      /\ Undisturbed
  BY DEF Tick, Undisturbed
<1>2. Busy = {} /\ clock - launched < Period
  <2>1. steady
    BY <1>1 DEF Undisturbed
  <2>2. Busy = {}
    BY <2>1 DEF Tick
  <2>3. clock - launched < Period + (IF steady THEN 0 ELSE Jitter)
    BY DEF Tick
  <2>4. clock - launched < Period + 0
    BY <2>1, <2>3
  <2>5. clock - launched < Period
    BY <2>4, TimesType
  <2> QED BY <2>2, <2>5
<1>3. Busy' = {} /\ \A p \in Runners : run[p].pc = "rest"
  BY <1>1, <1>2 DEF Busy
<1>4. clock' <= launched' + Period /\ marker' <= launched'
  BY <1>1, <1>2, TimesType DEF Timely
<1>5. MarkerFirst' \/ MarkerLater'
  <2>1. MarkerFirst \/ MarkerLater
    BY <1>1 DEF Timely
  <2>2. CASE MarkerFirst
    BY <1>1, <2>2 DEF MarkerFirst
  <2>3. CASE MarkerLater
    BY <1>1, <1>3, <2>3 DEF MarkerLater
  <2> QED BY <2>1, <2>2, <2>3
<1>6. /\ \A p \in Busy' : launched' = clock'
      /\ \A p, q \in Busy' : p # q => clock' = 0
      /\ \A p \in Runners : /\ run'[p].pc = "cron" => run'[p].now = clock'
                            /\ run'[p].pc \in {"read", "cron", "idle"} => marker' = clock'
  BY <1>1, <1>3
<1> QED BY <1>4, <1>5, <1>6 DEF Timely

\* A start evaluates when it is a window after the marker, and not before.
LEMMA LaunchTimely ==
  ASSUME TriggersTypeOK, Timely, ScheduleFits, NEW p \in Runners, Launch(p)
  PROVE  Timely'
<1> SUFFICES ASSUME Undisturbed'
             PROVE  Timely'
  BY DEF Timely
<1>1. /\ launched' = clock /\ UNCHANGED <<clock, steady, marker, troubled>>
      /\ clock = 0 \/ clock - launched >= Period
      /\ Undisturbed /\ run[p].pc = "rest"
  BY DEF Launch, Undisturbed
<1>2. /\ clock \in Nat /\ marker \in Int /\ launched \in Nat /\ launched <= clock
      /\ MarkerGap \in Nat \ {0} /\ Window \in Nat \ {0} /\ Period \in Nat \ {0}
      /\ MarkerGap < Window
  BY TimesType
<1>3. /\ clock <= launched + Period /\ marker <= launched
      /\ \A q \in Busy : launched = clock
      /\ MarkerFirst \/ MarkerLater
  BY <1>1 DEF Timely
<1>4. \/ clock = 0 /\ launched = 0
      \/ clock # 0 /\ clock = launched + Period /\ Busy = {}
  BY <1>1, <1>2, <1>3
<1>5. /\ \A q \in Runners : q # p => run'[q] = run[q]
      /\ run' = run \/ run'[p].pc = "mark"
  BY RunIs DEF Launch, TriggersTypeOK, RunRecord
<1>6. \A q, s \in Busy' : q # s => clock' = 0
  <2>1. CASE clock = 0
    BY <1>1, <2>1
  <2>2. CASE Busy = {}
    BY <1>5, <2>2 DEF Busy
  <2> QED BY <1>4, <2>1, <2>2
<1>7. \A q \in Runners : /\ run'[q].pc = "cron" => run'[q].now = clock'
                         /\ run'[q].pc \in {"read", "cron", "idle"} => marker' = clock'
  BY <1>1, <1>5 DEF Timely
<1>8. MarkerFirst' \/ MarkerLater'
  <2>1. CASE run' = run
    <3>1. clock - marker < MarkerGap
      <4>1. ~(run[p].pc = "mark")
        BY <1>1
      <4> QED BY <2>1, RunIs DEF Launch, MarkerIsRecent, TriggersTypeOK, RunRecord
    <3>2. MarkerLater
      BY <1>2, <1>3, <3>1 DEF MarkerFirst
    <3>3. CASE clock = 0 /\ launched = 0
      BY <1>1, <2>1, <3>2, <3>3 DEF MarkerLater
    <3>4. CASE clock = launched + Period /\ Busy = {}
      <4>1. \A q \in Runners : run[q].pc # "mark"
        BY <3>4 DEF Busy
      <4>2. PICK n \in 0 .. launched : launched = marker + n * Period
        BY <3>2 DEF MarkerLater
      <4>3. launched + Period <= marker + Window /\ marker >= 0
        BY <3>2, <4>1 DEF MarkerLater
      <4>4. PICK w \in Nat : Window = w * Period
        BY DEF ScheduleFits
      <4>5. n \in Nat /\ n + 1 \in 0 .. clock
        BY <1>2, <3>4
      <4>6. (n + 1) * Period = n * Period + Period /\ n * Period \in Nat
        BY <1>2, <4>5
      <4>7. clock = marker + (n + 1) * Period
        BY <1>2, <3>4, <4>2, <4>6
      <4>8. (n + 1) * Period < w * Period
        BY <1>2, <3>1, <4>4, <4>6, <4>7
      <4>9. (n + 1) * Period + Period <= w * Period
        BY <1>2, <4>4, <4>5, <4>8, MultiplesApart
      <4>10. clock + Period <= marker + Window /\ clock <= marker + Window
        BY <1>2, <4>4, <4>6, <4>7, <4>9
      <4>11. MarkerLater'
        BY <1>1, <2>1, <4>1, <4>3, <4>5, <4>7, <4>10 DEF MarkerLater
      <4> QED BY <4>11
    <3> QED BY <1>4, <3>3, <3>4
  <2>2. CASE run' # run
    <3>1. run'[p].pc = "mark" /\ clock - marker >= MarkerGap
      BY <1>2, <1>5, <2>2 DEF Launch, MarkerIsRecent
    <3>2. CASE MarkerFirst
      <4>1. launched = 0 \/ Busy # {}
        BY <3>2 DEF MarkerFirst, Busy
      <4>2. clock = 0 \/ clock = Period
        BY <1>2, <1>4, <4>1
      <4> QED BY <1>1, <3>1, <3>2, <4>2 DEF MarkerFirst
    <3>3. CASE MarkerLater
      <4>1. clock = launched + Period /\ Busy = {}
        BY <1>2, <1>3, <1>4, <3>1, <3>3 DEF MarkerLater
      <4>2. \A q \in Runners : run[q].pc # "mark"
        BY <4>1 DEF Busy
      <4>3. PICK n \in 0 .. launched : launched = marker + n * Period
        BY <3>3 DEF MarkerLater
      <4>4. launched + Period <= marker + Window /\ marker >= 0
        BY <3>3, <4>2 DEF MarkerLater
      <4>5. PICK w \in Nat : Window = w * Period
        BY DEF ScheduleFits
      <4>6. n \in Nat /\ n + 1 \in 0 .. clock
        BY <1>2, <4>1
      <4>7. (n + 1) * Period = n * Period + Period /\ n * Period \in Nat
        BY <1>2, <4>6
      <4>8. clock = marker + (n + 1) * Period
        BY <1>2, <4>1, <4>3, <4>7
      <4>9. ~((n + 1) * Period < w * Period)
        <5> SUFFICES ASSUME (n + 1) * Period < w * Period
                     PROVE  FALSE
          OBVIOUS
        <5>1. (n + 1) * Period + Period <= w * Period
          BY <1>2, <4>5, <4>6, MultiplesApart
        <5>2. Window < MarkerGap + Period
          BY DEF ScheduleFits
        <5> QED BY <1>2, <3>1, <4>5, <4>7, <4>8, <5>1, <5>2
      <4>10. clock = marker + Window
        BY <1>2, <4>1, <4>4, <4>5, <4>7, <4>8, <4>9
      <4>11. marker' >= 0 /\ launched' <= marker' + Window /\ launched' = marker' + Window
        BY <1>1, <1>2, <4>4, <4>10
      <4>12. \E m \in 0 .. launched' : launched' = marker' + m * Period
        BY <1>1, <4>6, <4>8
      <4>13. MarkerLater'
        BY <3>1, <4>11, <4>12 DEF MarkerLater
      <4> QED BY <4>13
    <3> QED BY <1>3, <3>2, <3>3
  <2> QED BY <2>1, <2>2
<1>9. /\ clock' <= launched' + Period /\ marker' <= launched'
      /\ \A q \in Busy' : launched' = clock'
  BY <1>1, <1>2, <1>3
<1> QED BY <1>6, <1>7, <1>8, <1>9 DEF Timely

LEMMA MarkTimely ==
  ASSUME TriggersTypeOK, Timely, ScheduleFits, NEW p \in Runners, Mark(p)
  PROVE  Timely'
<1> SUFFICES ASSUME Undisturbed'
             PROVE  Timely'
  BY DEF Timely
<1>1. /\ marker' = clock /\ UNCHANGED <<clock, launched, steady, troubled>>
      /\ Undisturbed /\ run[p].pc = "mark"
  BY DEF Mark, Undisturbed
<1>2. /\ clock \in Nat /\ launched \in Nat /\ Window \in Nat \ {0} /\ Period \in Nat \ {0}
      /\ Period < Window
  BY TimesType DEF ScheduleFits
<1>3. /\ \A q \in Runners : q # p => run'[q] = run[q]
      /\ run'[p].pc = "read"
  BY RunIs DEF Mark, TriggersTypeOK, RunRecord
<1>4. p \in Busy /\ Busy' \subseteq Busy
  BY <1>1, <1>3 DEF Busy
<1>5. launched = clock
  BY <1>1, <1>4 DEF Timely
<1>6. \A q, s \in Busy' : q # s => clock' = 0
  BY <1>1, <1>4 DEF Timely
<1>7. \A q \in Runners : /\ run'[q].pc = "cron" => run'[q].now = clock'
                         /\ run'[q].pc \in {"read", "cron", "idle"} => marker' = clock'
  BY <1>1, <1>3 DEF Timely
<1>8. MarkerLater'
  <2>1. launched' = marker' + 0 * Period /\ 0 \in 0 .. launched' /\ marker' >= 0
    BY <1>1, <1>2, <1>5
  <2>2. launched' <= marker' + Window /\ launched' + Period <= marker' + Window
    BY <1>1, <1>2, <1>5
  <2>3. (\E q \in Runners : run'[q].pc = "mark") => clock' = 0
    BY <1>1, <1>3, <1>4 DEF Timely, Busy
  <2> QED BY <2>1, <2>2, <2>3 DEF MarkerLater
<1>9. /\ clock' <= launched' + Period /\ marker' <= launched'
      /\ \A q \in Busy' : launched' = clock'
  BY <1>1, <1>2, <1>5
<1> QED BY <1>6, <1>7, <1>8, <1>9 DEF Timely

LEMMA TimelyStep ==
  ASSUME TriggersTypeOK, Holding, Timely, ScheduleFits, [TriggersNext]_triggersVars
  PROVE  Timely'
<1>1. /\ \A q \in Runners : run[q] \in RunRecord(clock)
      /\ DOMAIN run = Runners
  BY RunIs DEF TriggersTypeOK
<1>2. CASE Tick
  BY <1>2, TickTimely
<1>3. ASSUME NEW p \in Runners, Launch(p)
      PROVE  Timely'
  BY <1>3, LaunchTimely
<1>4. ASSUME NEW p \in Runners, Mark(p)
      PROVE  Timely'
  BY <1>4, MarkTimely
<1>5. ASSUME NEW p \in Runners, ReadLinks(p) \/ StartIdle(p) \/ Finish(p)
      PROVE  Timely'
  <2>1. UNCHANGED <<clock, launched, marker, steady, troubled>>
    BY <1>5 DEF ReadLinks, StartIdle, Finish
  <2>2. \A q \in Runners : q # p => run'[q] = run[q]
    BY <1>1, <1>5 DEF ReadLinks, StartIdle, Finish
  <2>3. \/ run[p].pc = "read" /\ run'[p].pc = "cron" /\ run'[p].now = clock
        \/ run[p].pc = "cron" /\ run'[p].pc = "idle"
        \/ run[p].pc = "idle" /\ run'[p].pc = "rest"
    BY <1>1, <1>5 DEF ReadLinks, StartIdle, Finish, Resting, RunRecord
  <2> QED BY <2>1, <2>2, <2>3, TimelyKept
<1>6. ASSUME NEW p \in Runners, Die(p)
      PROVE  Timely'
  BY <1>6 DEF Die, FailOnce, Timely, Undisturbed
<1>7. ASSUME NEW p \in Runners, NEW link \in run[p].links,
             FireCompanion(p, link) \/ FireRelation(p, link)
      PROVE  Timely'
  <2>1. /\ run[p].pc = "cron"
        /\ run' = [run EXCEPT ![p] = [run[p] EXCEPT !.links = @ \ {link}]]
        /\ UNCHANGED <<clock, launched, marker, steady>>
        /\ troubled' = troubled \/ troubled' = TRUE
    BY <1>7, FireIs
  <2>2. run[p].links \ {link} \in SUBSET (CronLinks \cup IdleLinks)
    BY RunType
  <2>3. run'[p].pc = "cron" /\ run'[p].now = run[p].now
    BY <1>1, <2>1, <2>2, LinksChange
  <2>4. \A q \in Runners : q # p => run'[q] = run[q]
    BY <1>1, <2>1
  <2> QED BY <2>1, <2>3, <2>4, TimelyKept
<1>8. ASSUME NEW p \in Runners, NEW link \in run[p].links, ScanSilences(p, link)
      PROVE  Timely'
  <2>1. /\ run[p].pc = "idle" /\ UNCHANGED <<clock, launched, marker, steady, troubled>>
    BY <1>8, ScanIs
  <2>2. \A q \in Runners : q # p => run'[q] = run[q]
    BY <1>1, <1>8 DEF ScanSilences
  <2>3. run'[p].pc = "idle"
    BY <1>1, <1>8 DEF ScanSilences, RunRecord
  <2> QED BY <2>1, <2>2, <2>3, TimelyKept
<1>9. ASSUME NEW p \in Runners, NEW s \in run[p].silences, Nudge(p, s)
      PROVE  Timely'
  <2>1. /\ run[p].pc = "idle" /\ UNCHANGED <<clock, launched, marker, steady>>
        /\ troubled => troubled'
    BY <1>9, NudgeIs
  <2>2. PICK rest \in SUBSET run[p].silences :
          run' = [run EXCEPT ![p] = [run[p] EXCEPT !.silences = rest]]
    BY <1>9, NudgeIs
  <2>3. rest \in SUBSET Silence
    BY RunType
  <2>4. run'[p].pc = "idle" /\ \A q \in Runners : q # p => run'[q] = run[q]
    BY <1>1, <2>1, <2>2, <2>3, SilencesChange
  <2> QED BY <2>1, <2>4, TimelyKept
<1>10. ASSUME NEW r \in Relationships, Hear(r)
       PROVE  Timely'
  <2>1. UNCHANGED <<clock, launched, marker, steady, troubled, run>>
    BY <1>10 DEF Hear
  <2> QED BY <2>1, TimelyKept
<1>11. CASE UNCHANGED triggersVars
  <2>1. UNCHANGED <<clock, launched, marker, steady, troubled, run>>
    BY <1>11 DEF triggersVars
  <2> QED BY <2>1, TimelyKept
<1> QED
  BY <1>2, <1>3, <1>4, <1>5, <1>6, <1>7, <1>8, <1>9, <1>10, <1>11, TriggersCases

LEMMA TimelyInit ==
  ASSUME TriggersInit
  PROVE  Timely
<1>1. clock = 0 /\ launched = 0 /\ marker = -MarkerGap
  BY DEF TriggersInit
<1>2. \A p \in Runners : run[p].pc = "rest"
  BY DEF TriggersInit, Resting
<1>3. Period \in Nat /\ MarkerGap \in Nat
  BY TimesAssumption
<1>4. clock <= launched + Period /\ marker <= launched
  BY <1>1, <1>3
<1> QED BY <1>1, <1>2, <1>4 DEF Timely, MarkerFirst, Busy

\* When a marker is set, and how old it may be.
LEMMA MarkTime ==
  ASSUME TriggersTypeOK, Timely, ScheduleFits, Undisturbed, NEW p \in Runners, run[p].pc = "mark"
  PROVE  \/ marker = -MarkerGap /\ clock < Window
         \/ marker >= 0 /\ clock = marker + Window
         \/ marker = 0 /\ clock = 0
<1>1. launched = clock /\ marker <= launched /\ (MarkerFirst \/ MarkerLater)
  BY DEF Timely, Busy
<1>2. /\ clock \in Nat /\ marker \in Int /\ Window \in Nat \ {0} /\ Period \in Nat \ {0}
      /\ Period < Window
  BY TimesType DEF ScheduleFits
<1> QED BY <1>1, <1>2 DEF MarkerFirst, MarkerLater

LEMMA MarkerAge ==
  ASSUME TriggersTypeOK, Timely, ScheduleFits, Undisturbed
  PROVE  \/ marker = -MarkerGap /\ clock < Window
         \/ marker >= 0 /\ clock <= marker + Window
<1>1. /\ clock <= launched + Period /\ marker <= launched
      /\ (\E p \in Runners : run[p].pc = "mark") => launched = clock
      /\ MarkerFirst \/ MarkerLater
  BY DEF Timely, Busy
<1>2. /\ clock \in Nat /\ marker \in Int /\ Window \in Nat \ {0} /\ Period \in Nat \ {0}
      /\ Period < Window /\ launched \in Nat
  BY TimesType DEF ScheduleFits
<1>3. CASE MarkerFirst
  BY <1>1, <1>2, <1>3 DEF MarkerFirst
<1>4. CASE MarkerLater
  <2>1. CASE \E p \in Runners : run[p].pc = "mark"
    BY <1>1, <1>4, <2>1 DEF MarkerLater
  <2>2. CASE \A p \in Runners : run[p].pc # "mark"
    BY <1>1, <1>2, <1>4, <2>2 DEF MarkerLater
  <2> QED BY <2>1, <2>2
<1> QED BY <1>1, <1>3, <1>4

\* With a limit that suffices a SELECT returns everything.
LEMMA LimitedIsAll ==
  ASSUME NEW rows, IsFiniteSet(rows), NEW limit \in Nat, Cardinality(rows) <= limit,
         NEW S \in Limited(rows, limit)
  PROVE  S = rows
<1>1. Cardinality(rows) \in Nat
  BY FS_CardinalityType
<1> DEFINE c == Cardinality(rows)
<1> HIDE DEF c
<1>2. Min({limit, c}) = c
  <2>1. c \in Nat /\ c <= limit
    BY <1>1 DEF c
  <2>2. \A x \in {limit, c} : (\A y \in {limit, c} : x <= y) => x = c
    BY <2>1
  <2>3. \A y \in {limit, c} : c <= y
    BY <2>1
  <2>4. Min({limit, c}) \in {limit, c} /\ \A y \in {limit, c} : Min({limit, c}) <= y
    BY <2>3 DEF Min
  <2> QED BY <2>2, <2>4
<1>3. S \subseteq rows /\ Cardinality(S) = c
  BY <1>2 DEF Limited, kSubset, c
<1>4. Cardinality(rows) = Cardinality(S) => rows = S
  BY <1>3, FS_Subset
<1> QED BY <1>3, <1>4 DEF c

FewRelationships == IsFiniteSet(Relationships) /\ Cardinality(Relationships) <= RelationLimit

\* The fields of the rows of cron triggers.
LEMMA CronRowType ==
  ASSUME TriggersTypeOK, NEW j \in jobs, j.source = "cron"
  PROVE  /\ j \in CronRow /\ j.at \in Nat /\ j.about \in Nat /\ j.rel \in Relationships
         /\ j.level \in Level /\ j.behavior \in STRING
<1>1. j \in CronRow \/ j \in IdleRow
  BY DEF TriggersTypeOK
<1> QED BY <1>1 DEF CronRow, IdleRow, Level

\* A step that inserts no row of a cron trigger, sets no marker and leaves no
\* link behind.
LEMMA CronMadeKept ==
  ASSUME TriggersTypeOK, CronMade, Undisturbed' => Undisturbed, marker' = marker,
         \A j : j.source = "cron" => (j \in jobs' <=> j \in jobs),
         Undisturbed' =>
           \A p \in Runners : run'[p].pc = "cron" =>
             \/ run'[p].links = CronLinks
             \/ clock' = clock /\ run[p].pc = "cron" /\ run'[p].links = run[p].links,
         \A link \in CronLinks : Ahead(link) => Ahead(link)'
  PROVE  CronMade'
<1> SUFFICES ASSUME Undisturbed', Cardinality(Relationships) <= RelationLimit
             PROVE  CronTimes' /\ CronApart' /\ CronFired' /\ CronKept'
  BY DEF CronMade
<1>1. CronTimes /\ CronApart /\ CronFired /\ CronKept
  BY DEF CronMade
<1>2. CronTimes'
  BY <1>1 DEF CronTimes
<1>3. CronApart'
  BY <1>1 DEF CronApart
<1>4. CronFired'
  <2> SUFFICES ASSUME NEW p \in Runners, run'[p].pc = "cron", NEW link \in CronLinks \ run'[p].links,
                      link.rel = All, IsDue(link, clock)', NEW r \in Relationships
               PROVE  CronJob(link.behavior, r, "companion", PreviousTime(link, clock))' \in jobs'
    BY DEF CronFired
  <2>1. clock' = clock /\ run[p].pc = "cron" /\ run'[p].links = run[p].links
    OBVIOUS
  <2>0. IsDue(link, clock)
    BY <2>1 DEF IsDue, PreviousTime, Passed
  <2>2. CronJob(link.behavior, r, "companion", PreviousTime(link, clock)) \in jobs
    BY <1>1, <2>0, <2>1 DEF CronFired
  <2>3. CronJob(link.behavior, r, "companion", PreviousTime(link, clock)).source = "cron"
    BY DEF CronJob
  <2>4. CronJob(link.behavior, r, "companion", PreviousTime(link, clock))'
          = CronJob(link.behavior, r, "companion", PreviousTime(link, clock))
    BY <2>1 DEF CronJob, PreviousTime, Passed
  <2> QED BY <2>2, <2>3, <2>4
<1>5. CronKept'
  <2> SUFFICES ASSUME NEW link \in CronLinks, NEW d \in DueTimes[link], NEW r \in Reach(link),
                      d + Window <= marker \/ (d <= marker /\ ~Ahead(link)')
               PROVE  CronJobs(link.behavior, r, d)' # {}
    BY DEF CronKept
  <2>1. CronJobs(link.behavior, r, d) # {}
    BY <1>1 DEF CronKept
  <2>2. CronJobs(link.behavior, r, d)' = CronJobs(link.behavior, r, d)
    BY DEF CronJobs
  <2> QED BY <2>1, <2>2
<1> QED BY <1>2, <1>3, <1>4, <1>5

LEMMA AheadStays ==
  ASSUME NEW link \in CronLinks, Ahead(link),
         \A p \in Runners :
           \/ run'[p] = run[p]
           \/ run[p].pc \notin {"read", "cron"}
           \/ run'[p].pc = "read"
           \/ run'[p].pc = "cron" /\ run'[p].links = CronLinks
           \/ run[p].pc = "cron" /\ run[p].links = {}
  PROVE  Ahead(link)'
<1>1. PICK p \in Runners : run[p].pc = "read" \/ (run[p].pc = "cron" /\ link \in run[p].links)
  BY DEF Ahead
<1>2. CASE run'[p] = run[p]
  BY <1>1, <1>2 DEF Ahead
<1>3. CASE run'[p].pc = "read"
  BY <1>3 DEF Ahead
<1>4. CASE run'[p].pc = "cron" /\ run'[p].links = CronLinks
  BY <1>4 DEF Ahead
<1> QED BY <1>1, <1>2, <1>3, <1>4

\* The rows of an evaluation are of its marker, those before it a window older.
LEMMA MarkCronMade ==
  ASSUME TriggersTypeOK, Holding, Timely, CronMade, ScheduleFits, NEW p \in Runners, Mark(p)
  PROVE  CronMade'
<1> SUFFICES ASSUME Undisturbed', Cardinality(Relationships) <= RelationLimit
             PROVE  CronTimes' /\ CronApart' /\ CronFired' /\ CronKept'
  BY DEF CronMade
<1>1. /\ marker' = clock /\ UNCHANGED <<clock, jobs>> /\ run[p].pc = "mark"
      /\ \A q \in Runners : q # p => run'[q] = run[q]
      /\ Undisturbed /\ run'[p].pc = "read"
  BY RunIs DEF Mark, Undisturbed, TriggersTypeOK, RunRecord
<1>2. CronTimes /\ CronApart /\ CronFired /\ CronKept
  BY <1>1 DEF CronMade
<1>3. \/ marker = -MarkerGap /\ clock < Window
      \/ marker >= 0 /\ clock = marker + Window
      \/ marker = 0 /\ clock = 0
  BY <1>1, MarkTime
<1>4. clock \in Nat /\ marker \in Int /\ Window \in Nat \ {0} /\ MarkerGap \in Nat \ {0}
  BY TimesType
<1>5. \A j \in jobs : j.source = "cron" => j.at = marker' \/ j.at + Window <= marker'
  <2> SUFFICES ASSUME NEW j \in jobs, j.source = "cron"
               PROVE  j.at = clock \/ j.at + Window <= clock
    BY <1>1
  <2>1. j.at \in Nat /\ (j.at = marker \/ j.at + Window <= marker)
    BY <1>2, CronRowType DEF CronTimes
  <2> QED BY <1>3, <1>4, <2>1
<1>6. CronTimes'
  BY <1>1, <1>2, <1>5 DEF CronTimes
<1>7. CronApart'
  BY <1>1, <1>2 DEF CronApart
<1>8. CronFired'
  <2> SUFFICES ASSUME NEW q \in Runners, run'[q].pc = "cron", NEW link \in CronLinks \ run'[q].links,
                      link.rel = All, IsDue(link, clock), NEW r \in Relationships
               PROVE  CronJob(link.behavior, r, "companion", PreviousTime(link, clock)) \in jobs
    BY <1>1 DEF CronFired, IsDue, PreviousTime, Passed, CronJob
  <2>1. run'[q] = run[q]
    BY <1>1
  <2> QED BY <1>2, <2>1 DEF CronFired
<1>9. CronKept'
  <2> SUFFICES ASSUME NEW link \in CronLinks, NEW d \in DueTimes[link], NEW r \in Reach(link),
                      d + Window <= clock \/ (d <= clock /\ ~Ahead(link)')
               PROVE  CronJobs(link.behavior, r, d) # {}
    BY <1>1 DEF CronKept, CronJobs
  <2>1. Ahead(link)'
    BY <1>1 DEF Ahead
  <2>2. d + Window <= clock /\ d \in Nat
    BY <2>1, LinksAssumption
  <2>3. marker >= 0 /\ clock = marker + Window
    BY <1>3, <1>4, <2>2
  <2>4. d <= marker
    BY <1>4, <2>2, <2>3
  <2>5. ~Ahead(link)
    <3>1. marker # clock
      BY <1>4, <2>3
    <3>2. \A q \in Runners : run[q].pc \notin {"read", "cron"}
      BY <1>1, <3>1 DEF Timely
    <3> QED BY <3>2 DEF Ahead
  <2> QED BY <1>2, <2>4, <2>5 DEF CronKept
<1> QED BY <1>6, <1>7, <1>8, <1>9

\* What an evaluation does when nothing fails.
LEMMA FiresAll ==
  ASSUME TriggersTypeOK, Holding, FewRelationships, ~troubled', NEW p \in Runners,
         NEW link \in run[p].links, FireCompanion(p, link) \/ FireRelation(p, link)
  PROVE  \/ /\ IsDue(link, run[p].now)
            /\ link.rel # All => ~RelationJobExists(link)
            /\ jobs' = jobs \cup {CronJob(link.behavior, r, LevelOf(link),
                                          PreviousTime(link, run[p].now)) : r \in Reach(link)}
         \/ /\ ~IsDue(link, run[p].now) \/ (link.rel # All /\ RelationJobExists(link))
            /\ jobs' = jobs
<1>1. CASE FireCompanion(p, link)
  <2>1. link.rel = All /\ Reach(link) = Relationships /\ LevelOf(link) = "companion"
    BY <1>1 DEF FireCompanion, Reach, LevelOf
  <2>2. ~CompanionJobExists(link)
    BY TalkType, LinksAssumption DEF CompanionJobExists
  <2>3. CASE IsDue(link, run[p].now)
    <3>1. PICK S \in Reached : \E done \in SUBSET S :
            /\ Insert({CronJob(link.behavior, r, "companion",
                               PreviousTime(link, run[p].now)) : r \in done})
            /\ IF done = S THEN UNCHANGED troubled ELSE FailOnce
      BY <1>1, <2>2, <2>3 DEF FireCompanion
    <3>2. PICK done \in SUBSET S :
            /\ Insert({CronJob(link.behavior, r, "companion",
                               PreviousTime(link, run[p].now)) : r \in done})
            /\ IF done = S THEN UNCHANGED troubled ELSE FailOnce
      BY <3>1
    <3>3. done = S
      BY <3>2 DEF FailOnce
    <3>4. S \in Limited(Relationships, RelationLimit) /\ RelationLimit \in Nat
      BY TimesAssumption DEF Reached
    <3>5. S = Relationships
      BY <3>4, LimitedIsAll DEF FewRelationships
    <3>6. jobs' = jobs \cup {CronJob(link.behavior, r, LevelOf(link),
                                     PreviousTime(link, run[p].now)) : r \in Reach(link)}
      BY <2>1, <3>2, <3>3, <3>5 DEF Insert
    <3> QED BY <2>1, <2>3, <3>6
  <2>4. CASE ~IsDue(link, run[p].now)
    BY <1>1, <2>4 DEF FireCompanion
  <2> QED BY <2>3, <2>4
<1>2. CASE FireRelation(p, link)
  <2>1. link.rel # All /\ Reach(link) = {link.rel} /\ LevelOf(link) = "relation"
    BY <1>2 DEF FireRelation, Reach, LevelOf
  <2>2. CASE IsDue(link, run[p].now) /\ ~RelationJobExists(link)
    <3>1. Insert({CronJob(link.behavior, link.rel, "relation", PreviousTime(link, run[p].now))})
      BY <1>2, <2>2 DEF FireRelation, FailOnce
    <3>2. jobs' = jobs \cup {CronJob(link.behavior, r, LevelOf(link),
                                     PreviousTime(link, run[p].now)) : r \in Reach(link)}
      BY <2>1, <3>1 DEF Insert
    <3> QED BY <2>2, <3>2
  <2>3. CASE ~(IsDue(link, run[p].now) /\ ~RelationJobExists(link))
    BY <1>2, <2>1, <2>3 DEF FireRelation
  <2> QED BY <2>2, <2>3
<1> QED BY <1>1, <1>2

\* A time whose window is not over is the one its trigger is due for.
LEMMA DueIs ==
  ASSUME TimesFit, NEW link \in CronLinks, NEW n \in Nat, NEW d \in DueTimes[link],
         d <= n, n < d + Window
  PROVE  IsDue(link, n) /\ PreviousTime(link, n) = d
<1>1. d \in Nat /\ Window \in Nat
  BY LinksAssumption, TimesAssumption
<1>2. Passed(link, n) # {}
  BY DEF Passed
<1> DEFINE t == PreviousTime(link, n)
<1> HIDE DEF t
<1>3. /\ t \in DueTimes[link] /\ t \in Nat
      /\ t <= n
      /\ \A e \in DueTimes[link] : e <= n => e <= t
  BY <1>2, PreviousTimeIs DEF t
<1>4. d <= t
  BY <1>3
<1>5. ~(d < t)
  <2>1. ASSUME d < t
        PROVE  d + Window <= t
    BY <1>3, <2>1 DEF TimesFit
  <2> QED BY <1>1, <1>3, <2>1
<1>6. t = d
  BY <1>1, <1>3, <1>4, <1>5
<1>7. n - t < Window
  BY <1>1, <1>6
<1> QED BY <1>2, <1>6, <1>7 DEF IsDue, t

\* A row of the last marker is about the time its behavior is due for.
LEMMA RecentRow ==
  ASSUME TriggersTypeOK, CronTimes, TimesFit, marker = clock, NEW link \in CronLinks,
         IsDue(link, clock),
         NEW j \in jobs, j.source = "cron", j.behavior = link.behavior, clock - j.at < MarkerGap
  PROVE  j.about = PreviousTime(link, clock)
<1>1. /\ j.at \in Nat /\ j.about \in Nat /\ clock \in Nat /\ Window \in Nat /\ MarkerGap \in Nat
      /\ MarkerGap < Window
  BY CronRowType, TimesType
<1>2. j.at = clock
  BY <1>1 DEF CronTimes
<1> DEFINE maker == MakerOf(j.behavior, j.rel, j.level)
           t == PreviousTime(link, clock)
<1>3. maker \in CronLinks /\ j.about \in DueTimes[maker] /\ maker.behavior = link.behavior
  BY DEF CronTimes, MakerOf
<1>4. j.about <= clock /\ clock < j.about + Window
  BY <1>2 DEF CronTimes
<1>5. t \in DueTimes[link] /\ t \in Nat /\ t <= clock /\ clock - t < Window
  BY <1>1, PreviousTimeIs DEF IsDue
<1> HIDE DEF maker, t
<1>6. /\ j.about < t => j.about + Window <= t
      /\ t < j.about => t + Window <= j.about
  BY <1>3, <1>5 DEF TimesFit
<1>7. j.about = t
  BY <1>1, <1>4, <1>5, <1>6
<1> QED BY <1>7 DEF t

\* The state in which a cron trigger is evaluated.
Evaluating(p, link) ==
  /\ TriggersTypeOK /\ Holding
  /\ Undisturbed /\ CronTimes /\ CronApart /\ CronFired /\ CronKept
  /\ TimesFit /\ FewRelationships
  /\ run[p].pc = "cron" /\ link \in run[p].links /\ link \in CronLinks
  /\ run[p].now = clock /\ marker = clock

\* The row it makes for a relationship.
Row(link, r) == CronJob(link.behavior, r, LevelOf(link), PreviousTime(link, clock))

LEMMA RowIs ==
  ASSUME NEW p \in Runners, NEW link, Evaluating(p, link), IsDue(link, clock), NEW r \in Reach(link)
  PROVE  /\ Row(link, r).source = "cron" /\ Row(link, r).behavior = link.behavior
         /\ Row(link, r).rel = r /\ Row(link, r).level = LevelOf(link)
         /\ Row(link, r).about = PreviousTime(link, clock) /\ Row(link, r).at = clock
         /\ MakerOf(link.behavior, r, LevelOf(link)) = link
         /\ PreviousTime(link, clock) \in DueTimes[link]
         /\ PreviousTime(link, clock) <= clock /\ clock < PreviousTime(link, clock) + Window
<1>1. link \in CronLinks /\ clock \in Nat /\ Window \in Nat
  BY TimesType DEF Evaluating
<1>2. MakerOf(link.behavior, r, LevelOf(link)) = link
  <2>1. link = [behavior |-> link.behavior, rel |-> link.rel]
    BY <1>1, LinkType DEF Links
  <2>2. link.rel # All => r = link.rel
    BY DEF Reach
  <2> QED BY <2>1, <2>2 DEF MakerOf, LevelOf
<1>3. Passed(link, clock) # {} /\ clock - PreviousTime(link, clock) < Window
  BY DEF IsDue
<1>4. /\ PreviousTime(link, clock) \in DueTimes[link] /\ PreviousTime(link, clock) \in Nat
      /\ PreviousTime(link, clock) <= clock
  BY <1>1, <1>3, PreviousTimeIs
<1>5. clock < PreviousTime(link, clock) + Window
  BY <1>1, <1>3, <1>4
<1> QED BY <1>2, <1>4, <1>5 DEF Row, CronJob

\* A link of one relationship makes a row only where the link at companion level
\* of its behavior is not due for that time: its row has just been made.
LEMMA NoCompanionRow ==
  ASSUME NEW p \in Runners, NEW link, Evaluating(p, link), FireRelation(p, link),
         IsDue(link, clock), ~RelationJobExists(link)
  PROVE  ~IsTimeOf(MakerOf(link.behavior, link.rel, "companion"), PreviousTime(link, clock))
<1> DEFINE c == MakerOf(link.behavior, link.rel, "companion")
           t == PreviousTime(link, clock)
<1> SUFFICES ASSUME c \in CronLinks, t \in DueTimes[c]
             PROVE  FALSE
  BY DEF IsTimeOf
<1>1. c.rel = All /\ c.behavior = link.behavior
  BY DEF MakerOf
<1>2. c \notin run[p].links
  BY <1>1 DEF FireRelation
<1>3. link \in CronLinks /\ link.rel \in Relationships
  <2>1. link.rel # All /\ link \in CronLinks
    BY DEF FireRelation, Evaluating
  <2> QED BY <2>1, LinkType
<1>4. clock \in Nat /\ Window \in Nat /\ MarkerGap \in Nat \ {0}
  BY TimesType DEF Evaluating
<1>5. t \in Nat /\ t <= clock /\ clock - t < Window
  BY <1>3, <1>4, PreviousTimeIs DEF IsDue
<1>6. clock < t + Window
  BY <1>4, <1>5
<1> HIDE DEF c, t
<1>7. IsDue(c, clock) /\ PreviousTime(c, clock) = t
  BY <1>4, <1>5, <1>6, DueIs DEF Evaluating
<1> DEFINE made == CronJob(c.behavior, link.rel, "companion", PreviousTime(c, clock))
<1>8. made \in jobs
  BY <1>1, <1>2, <1>3, <1>7 DEF Evaluating, CronFired
<1>9. made.behavior = link.behavior /\ made.source = "cron" /\ made.rel = link.rel /\ made.at = clock
  BY <1>1 DEF CronJob
<1>10. clock - clock < MarkerGap
  BY <1>4
<1> HIDE DEF made
<1> QED BY <1>8, <1>9, <1>10 DEF RelationJobExists

\* Where a recent job keeps a link from firing, it is of the same time.
LEMMA FiredAlready ==
  ASSUME NEW p \in Runners, NEW link, Evaluating(p, link), IsDue(link, clock),
         RelationJobExists(link)
  PROVE  CronJobs(link.behavior, link.rel, PreviousTime(link, clock)) # {}
<1>1. PICK j \in jobs : /\ j.behavior = link.behavior /\ j.source = "cron"
                        /\ j.rel = link.rel
                        /\ clock - j.at < MarkerGap
  BY DEF RelationJobExists
<1>2. j.about = PreviousTime(link, clock)
  BY <1>1, RecentRow DEF Evaluating
<1> QED BY <1>1, <1>2 DEF CronJobs

\* The evaluation of one link, when nothing fails.
LEMMA FireStep ==
  ASSUME NEW p \in Runners, NEW link \in run[p].links, Evaluating(p, link),
         FireCompanion(p, link) \/ FireRelation(p, link), ~troubled'
  PROVE  CronTimes' /\ CronApart' /\ CronFired' /\ CronKept'
<1> DEFINE t == PreviousTime(link, clock)
           new == {Row(link, r) : r \in Reach(link)}
<1>1. /\ run[p].pc = "cron" /\ link \in CronLinks
      /\ run' = [run EXCEPT ![p] = [run[p] EXCEPT !.links = @ \ {link}]]
      /\ clock' = clock /\ marker' = marker
  BY FireIs DEF Evaluating
<1>2. marker = clock /\ run[p].now = clock /\ FewRelationships /\ TriggersTypeOK /\ Holding
  BY DEF Evaluating
<1>3. \/ /\ IsDue(link, clock)
         /\ link.rel # All => ~RelationJobExists(link)
         /\ jobs' = jobs \cup new
      \/ /\ ~IsDue(link, clock) \/ (link.rel # All /\ RelationJobExists(link))
         /\ jobs' = jobs
  BY <1>2, FiresAll DEF Row
<1>4. jobs \subseteq jobs'
  BY <1>3
<1>5. \A j \in jobs' : j \in jobs \/ (IsDue(link, clock) /\ \E r \in Reach(link) : j = Row(link, r))
  BY <1>3
<1>6. /\ \A q \in Runners : q # p => run'[q] = run[q]
      /\ run'[p].pc = "cron" /\ run'[p].links = run[p].links \ {link}
  <2> DEFINE left == run[p].links \ {link}
             y == [run[p] EXCEPT !.links = left]
  <2>1. run'[p] = y /\ \A q \in Runners : q # p => run'[q] = run[q]
    BY <1>1, <1>2 DEF TriggersTypeOK
  <2>2. left \in SUBSET (CronLinks \cup IdleLinks) /\ run[p] \in RunRecord(clock)
    BY <1>2, RunType, RunIs
  <2> HIDE DEF left
  <2>3. y.pc = run[p].pc /\ y.links = left
    BY <2>2, LinksChange
  <2> QED BY <1>1, <2>1, <2>3 DEF left
<1>7. CronTimes'
  <2> SUFFICES ASSUME NEW j \in jobs', j.source = "cron"
               PROVE  /\ j.about <= j.at /\ j.at < j.about + Window
                      /\ j.at = marker \/ j.at + Window <= marker
                      /\ MakerOf(j.behavior, j.rel, j.level) \in CronLinks
                      /\ j.about \in DueTimes[MakerOf(j.behavior, j.rel, j.level)]
                      /\ j.level = "relation" => ~IsTimeOf(MakerOf(j.behavior, j.rel, "companion"), j.about)
    BY <1>1 DEF CronTimes
  <2>1. CASE j \in jobs
    BY <2>1 DEF Evaluating, CronTimes
  <2>2. ASSUME j \notin jobs
        PROVE  /\ j.about <= j.at /\ j.at < j.about + Window
               /\ j.at = marker
               /\ MakerOf(j.behavior, j.rel, j.level) \in CronLinks
               /\ j.about \in DueTimes[MakerOf(j.behavior, j.rel, j.level)]
               /\ j.level = "relation" => ~IsTimeOf(MakerOf(j.behavior, j.rel, "companion"), j.about)
    <3>1. IsDue(link, clock)
      BY <1>5, <2>2
    <3>2. PICK r \in Reach(link) : j = Row(link, r)
      BY <1>5, <2>2
    <3>3. /\ j.behavior = link.behavior /\ j.rel = r /\ j.level = LevelOf(link) /\ j.about = t
          /\ j.at = clock /\ MakerOf(link.behavior, r, LevelOf(link)) = link
          /\ t \in DueTimes[link] /\ t <= clock /\ clock < t + Window
      BY <3>1, <3>2, RowIs
    <3>4. ASSUME j.level = "relation"
          PROVE  ~IsTimeOf(MakerOf(j.behavior, j.rel, "companion"), j.about)
      <4>1. link.rel # All /\ r = link.rel
        BY <3>3, <3>4 DEF LevelOf, Reach
      <4>2. FireRelation(p, link)
        BY <4>1 DEF FireCompanion
      <4>3. ~RelationJobExists(link)
        BY <1>3, <2>2, <4>1
      <4> QED BY <3>1, <3>3, <4>1, <4>2, <4>3, NoCompanionRow
    <3> HIDE DEF t
    <3> QED BY <1>1, <1>2, <3>3, <3>4
  <2> QED BY <2>1, <2>2
<1>8. CronApart'
  <2> SUFFICES ASSUME NEW j \in jobs', NEW k \in jobs', j.source = "cron", k.source = "cron"
               PROVE  j.at = k.at \/ j.at + Window <= k.at \/ k.at + Window <= j.at
    BY DEF CronApart
  <2>1. \A i \in jobs' : i.source = "cron" /\ i \notin jobs => i.at = clock
    BY <1>5, RowIs
  <2>2. \A i \in jobs : i.source = "cron" => i.at = clock \/ i.at + Window <= clock
    BY <1>2 DEF Evaluating, CronTimes
  <2>3. CASE j \in jobs /\ k \in jobs
    BY <2>3 DEF Evaluating, CronApart
  <2> QED BY <2>1, <2>2, <2>3
<1>9. CronFired'
  <2> SUFFICES ASSUME NEW q \in Runners, run'[q].pc = "cron", NEW l \in CronLinks \ run'[q].links,
                      l.rel = All, IsDue(l, clock), NEW r \in Relationships
               PROVE  CronJob(l.behavior, r, "companion", PreviousTime(l, clock)) \in jobs'
    BY <1>1 DEF CronFired, IsDue, PreviousTime, Passed, CronJob
  <2>1. CASE l \notin run[q].links
    <3>1. run[q].pc = "cron"
      BY <1>1, <1>6
    <3> QED BY <1>4, <2>1, <3>1 DEF Evaluating, CronFired
  <2>2. CASE l \in run[q].links
    <3>1. l = link
      BY <1>6, <2>2
    <3>2. LevelOf(link) = "companion" /\ Reach(link) = Relationships
      BY <3>1 DEF LevelOf, Reach
    <3>3. jobs' = jobs \cup new
      BY <1>3, <3>1
    <3>4. CronJob(l.behavior, r, "companion", PreviousTime(l, clock)) = Row(link, r)
      BY <3>1, <3>2 DEF Row
    <3> QED BY <3>2, <3>3, <3>4
  <2> QED BY <2>1, <2>2
<1>10. CronKept'
  <2> SUFFICES ASSUME NEW l \in CronLinks, NEW d \in DueTimes[l], NEW r \in Reach(l),
                      d + Window <= marker \/ (d <= marker /\ ~Ahead(l)')
               PROVE  CronJobs(l.behavior, r, d)' # {}
    BY <1>1 DEF CronKept
  <2>1. CronJobs(l.behavior, r, d) \subseteq CronJobs(l.behavior, r, d)'
    BY <1>4 DEF CronJobs
  <2>2. CASE d + Window <= marker \/ ~Ahead(l)
    <3> DEFINE over == d + Window <= marker
               past == d <= marker
               now == Ahead(l)'
               was == Ahead(l)
    <3>0. (over \/ (past /\ ~now)) /\ (over \/ ~was)
      BY <2>2
    <3> HIDE DEF over, past, now, was
    <3>1. over \/ (past /\ ~was)
      BY <3>0
    <3> USE DEF over, past, now, was
    <3>2. CronJobs(l.behavior, r, d) # {}
      BY <3>1 DEF Evaluating, CronKept
    <3> QED BY <2>1, <3>2
  <2>3. CASE ~(d + Window <= marker) /\ Ahead(l)
    <3>1. d <= clock /\ ~Ahead(l)' /\ d \in Nat /\ clock \in Nat /\ Window \in Nat
      BY <1>2, <2>3, LinksAssumption, TimesType
    <3>2. clock < d + Window
      BY <1>2, <2>3, <3>1
    <3>3. l = link
      <4>1. PICK q \in Runners : run[q].pc = "read" \/ (run[q].pc = "cron" /\ l \in run[q].links)
        BY <2>3 DEF Ahead
      <4>2. q = p
        BY <1>6, <3>1, <4>1 DEF Ahead
      <4>3. l \in run[p].links /\ l \notin run'[p].links
        BY <1>1, <1>6, <3>1, <4>1, <4>2 DEF Ahead
      <4> QED BY <1>6, <4>3
    <3>4. IsDue(link, clock) /\ t = d
      BY <3>1, <3>2, <3>3, DueIs DEF Evaluating
    <3>5. CASE jobs' = jobs \cup new
      <4>1. Row(link, r) \in jobs'
        BY <3>3, <3>5
      <4>2. /\ Row(link, r).source = "cron" /\ Row(link, r).behavior = link.behavior
            /\ Row(link, r).rel = r /\ Row(link, r).about = d
        BY <3>3, <3>4, RowIs
      <4> QED BY <3>3, <4>1, <4>2 DEF CronJobs
    <3>6. CASE link.rel # All /\ RelationJobExists(link)
      <4>1. r = link.rel
        BY <3>3, <3>6 DEF Reach
      <4>2. CronJobs(link.behavior, link.rel, t) # {}
        BY <3>4, <3>6, FiredAlready
      <4> QED BY <2>1, <3>3, <3>4, <4>1, <4>2
    <3> QED BY <1>3, <3>4, <3>5, <3>6
  <2> QED BY <2>2, <2>3
<1> QED BY <1>7, <1>8, <1>9, <1>10

CronInv == TriggersTypeOK /\ Holding /\ Timely /\ CronMade

LEMMA CronStep ==
  ASSUME CronInv, ScheduleFits, TimesFit, IsFiniteSet(Relationships), [TriggersNext]_triggersVars
  PROVE  CronInv'
<1>1. TriggersTypeOK' /\ Holding' /\ Timely'
  BY TriggersTypeStep, TimelyStep DEF CronInv
<1>2. /\ \A q \in Runners : run[q] \in RunRecord(clock)
      /\ DOMAIN run = Runners
  BY RunIs DEF CronInv, TriggersTypeOK
<1>3. CASE Tick
  <2>1. UNCHANGED <<steady, marker, run, jobs, troubled>>
    BY <1>3 DEF Tick
  <2>2. Undisturbed' => \A q \in Runners : run'[q].pc = "rest"
    <3>1. steady => Busy = {}
      BY <1>3 DEF Tick
    <3> QED BY <2>1, <3>1 DEF Undisturbed, Busy
  <2>3. \A link \in CronLinks : Ahead(link) => Ahead(link)'
    BY <2>1 DEF Ahead
  <2>4. Undisturbed' => Undisturbed
    BY <2>1 DEF Undisturbed
  <2>5. CronMade'
    BY <2>1, <2>2, <2>3, <2>4, CronMadeKept DEF CronInv
  <2> QED BY <1>1, <2>5 DEF CronInv
<1>4. ASSUME NEW p \in Runners, Launch(p) \/ ReadLinks(p) \/ StartIdle(p) \/ Finish(p)
      PROVE  CronInv'
  <2>1. UNCHANGED <<clock, steady, marker, jobs, troubled>>
    BY <1>4 DEF Launch, ReadLinks, StartIdle, Finish
  <2>2. \A q \in Runners : q # p => run'[q] = run[q]
    BY <1>2, <1>4 DEF Launch, ReadLinks, StartIdle, Finish
  <2>3. \/ run'[p] = run[p]
        \/ run[p].pc = "rest" /\ run'[p].pc = "mark"
        \/ run'[p].pc = "cron" /\ run'[p].links = CronLinks
        \/ run[p].pc = "cron" /\ run[p].links = {} /\ run'[p].pc = "idle"
        \/ run[p].pc = "idle" /\ run'[p].pc = "rest"
    <3>1. CASE Launch(p)
      BY <1>2, <3>1 DEF Launch, RunRecord
    <3>2. CASE ReadLinks(p)
      BY <1>2, <3>2 DEF ReadLinks, RunRecord
    <3>3. CASE StartIdle(p) \/ Finish(p)
      BY <1>2, <3>3 DEF StartIdle, Finish, Resting, RunRecord
    <3> QED BY <1>4, <3>1, <3>2, <3>3
  <2>4. \A link \in CronLinks : Ahead(link) => Ahead(link)'
    BY <2>2, <2>3, AheadStays
  <2>5. \A q \in Runners : run'[q].pc = "cron" =>
          \/ run'[q].links = CronLinks
          \/ run[q].pc = "cron" /\ run'[q].links = run[q].links
    BY <2>2, <2>3
  <2>6. Undisturbed' => Undisturbed
    BY <2>1 DEF Undisturbed
  <2>7. CronMade'
    BY <2>1, <2>4, <2>5, <2>6, CronMadeKept DEF CronInv
  <2> QED BY <1>1, <2>7 DEF CronInv
<1>5. ASSUME NEW p \in Runners, Mark(p)
      PROVE  CronInv'
  BY <1>1, <1>5, MarkCronMade DEF CronInv
<1>6. ASSUME NEW p \in Runners, Die(p)
      PROVE  CronInv'
  BY <1>1, <1>6 DEF Die, FailOnce, CronInv, CronMade, Undisturbed
<1>7. ASSUME NEW p \in Runners, NEW link \in run[p].links,
             FireCompanion(p, link) \/ FireRelation(p, link)
      PROVE  CronInv'
  <2> SUFFICES ASSUME Undisturbed', Cardinality(Relationships) <= RelationLimit
               PROVE  CronTimes' /\ CronApart' /\ CronFired' /\ CronKept'
    BY <1>1 DEF CronInv, CronMade
  <2>1. /\ run[p].pc = "cron" /\ link \in CronLinks /\ steady' = steady
        /\ troubled' = troubled \/ troubled' = TRUE
    BY <1>7, FireIs DEF CronInv
  <2>2. Undisturbed /\ ~troubled'
    BY <2>1 DEF Undisturbed
  <2>3. run[p].now = clock /\ marker = clock
    BY <2>1, <2>2 DEF CronInv, Timely
  <2>4. Evaluating(p, link)
    BY <2>1, <2>2, <2>3 DEF Evaluating, FewRelationships, CronInv, CronMade
  <2> QED BY <1>7, <2>2, <2>4, FireStep
<1>8. ASSUME NEW p \in Runners, run[p].pc = "idle", run'[p].pc = "idle",
             \A q \in Runners : q # p => run'[q] = run[q],
             UNCHANGED <<clock, steady, marker>>, troubled => troubled',
             \A j : j.source = "cron" => (j \in jobs' <=> j \in jobs)
      PROVE  CronInv'
  <2>1. \A link \in CronLinks : Ahead(link) => Ahead(link)'
    BY <1>8, AheadStays
  <2>2. Undisturbed' => Undisturbed
    BY <1>8 DEF Undisturbed
  <2>3. CronMade'
    BY <1>8, <2>1, <2>2, CronMadeKept DEF CronInv
  <2> QED BY <1>1, <2>3 DEF CronInv
<1>9. ASSUME NEW p \in Runners, NEW link \in run[p].links, ScanSilences(p, link)
      PROVE  CronInv'
  <2>1. /\ run[p].pc = "idle" /\ UNCHANGED <<clock, steady, marker, jobs, troubled>>
    BY <1>9, ScanIs DEF CronInv
  <2>2. \A q \in Runners : q # p => run'[q] = run[q]
    BY <1>2, <1>9 DEF ScanSilences
  <2>3. run'[p].pc = "idle"
    BY <1>2, <1>9 DEF ScanSilences, RunRecord
  <2> QED BY <1>8, <2>1, <2>2, <2>3
<1>10. ASSUME NEW p \in Runners, NEW s \in run[p].silences, Nudge(p, s)
       PROVE  CronInv'
  <2>1. /\ run[p].pc = "idle" /\ UNCHANGED <<clock, steady, marker>>
        /\ jobs' = jobs \/ jobs' = jobs \cup {IdleJob(s)}
        /\ troubled => troubled'
    BY <1>10, NudgeIs DEF CronInv
  <2>2. PICK rest \in SUBSET run[p].silences :
          run' = [run EXCEPT ![p] = [run[p] EXCEPT !.silences = rest]]
    BY <1>10, NudgeIs DEF CronInv
  <2>3. rest \in SUBSET Silence
    BY RunType DEF CronInv
  <2>4. run'[p].pc = "idle" /\ \A q \in Runners : q # p => run'[q] = run[q]
    BY <1>2, <2>1, <2>2, <2>3, SilencesChange
  <2>5. IdleJob(s).source # "cron"
    BY DEF IdleJob
  <2>6. \A j : j.source = "cron" => (j \in jobs' <=> j \in jobs)
    BY <2>1, <2>5
  <2> QED BY <1>8, <2>1, <2>4, <2>6
<1>11. CASE UNCHANGED triggersVars \/ \E r \in Relationships : Hear(r)
  <2>1. UNCHANGED <<clock, steady, run, jobs, marker, troubled>>
    BY <1>11 DEF triggersVars, Hear
  <2>2. \A link \in CronLinks : Ahead(link) => Ahead(link)'
    BY <2>1 DEF Ahead
  <2>3. Undisturbed' => Undisturbed
    BY <2>1 DEF Undisturbed
  <2>4. CronMade'
    BY <2>1, <2>2, <2>3, CronMadeKept DEF CronInv
  <2> QED BY <1>1, <2>4 DEF CronInv
<1> QED
  BY <1>3, <1>4, <1>5, <1>6, <1>7, <1>9, <1>10, <1>11, TriggersCases

LEMMA CronInit ==
  ASSUME TriggersInit
  PROVE  CronInv
<1>1. TriggersTypeOK /\ Holding
  BY TalkInit DEF TalkInv
<1>2. /\ \A p \in Runners : run[p].pc = "rest"
      /\ jobs = {} /\ marker = -MarkerGap
  BY DEF TriggersInit, Resting
<1>3. CronKept
  <2> SUFFICES ASSUME NEW link \in CronLinks, NEW d \in DueTimes[link]
               PROVE  ~(d + Window <= marker) /\ ~(d <= marker)
    BY DEF CronKept
  <2>1. d \in Nat /\ Window \in Nat /\ MarkerGap \in Nat \ {0}
    BY LinksAssumption, TimesAssumption
  <2> QED BY <1>2, <2>1
<1>4. CronTimes /\ CronApart /\ CronFired
  BY <1>2 DEF CronTimes, CronApart, CronFired
<1> QED BY <1>1, <1>3, <1>4, TimelyInit DEF CronInv, CronMade

\* Two rows about one time and of one behavior and relationship are one.
LEMMA RowsAlike ==
  ASSUME CronInv, Undisturbed, Cardinality(Relationships) <= RelationLimit,
         NEW j \in jobs, NEW k \in jobs, j.source = "cron", k.source = "cron",
         j.behavior = k.behavior, j.rel = k.rel, j.about = k.about
  PROVE  j = k
<1>1. CronTimes /\ CronApart
  BY DEF CronInv, CronMade
<1>2. /\ j \in CronRow /\ j.at \in Nat /\ j.about \in Nat /\ j.level \in Level
      /\ k \in CronRow /\ k.at \in Nat /\ k.about \in Nat /\ k.level \in Level
  BY CronRowType DEF CronInv
<1>3. Window \in Nat
  BY TimesType DEF CronInv
<1>4. j.at = k.at
  <2>1. /\ j.about <= j.at /\ j.at < j.about + Window
        /\ k.about <= k.at /\ k.at < k.about + Window
        /\ j.at = k.at \/ j.at + Window <= k.at \/ k.at + Window <= j.at
    BY <1>1 DEF CronTimes, CronApart
  <2> QED BY <1>2, <1>3, <2>1
<1>5. ASSUME NEW a \in {j, k}, NEW b \in {j, k}, a.level = "relation", b.level = "companion"
      PROVE  FALSE
  <2>1. ~IsTimeOf(MakerOf(a.behavior, a.rel, "companion"), a.about)
    BY <1>1, <1>5 DEF CronTimes
  <2>2. IsTimeOf(MakerOf(b.behavior, b.rel, "companion"), b.about)
    BY <1>1, <1>5 DEF CronTimes, IsTimeOf
  <2>3. MakerOf(a.behavior, a.rel, "companion") = MakerOf(b.behavior, b.rel, "companion")
    BY DEF MakerOf
  <2> QED BY <2>1, <2>2, <2>3
<1>6. j.level = k.level
  BY <1>2, <1>5 DEF Level
<1>7. /\ j = [source |-> j.source, behavior |-> j.behavior, rel |-> j.rel, level |-> j.level,
              about |-> j.about, at |-> j.at]
      /\ k = [source |-> k.source, behavior |-> k.behavior, rel |-> k.rel, level |-> k.level,
              about |-> k.about, at |-> k.at]
  BY <1>2 DEF CronRow
<1> QED BY <1>4, <1>6, <1>7

\* With an exact schedule and periods that fit together, a cron time whose window
\* is over has made exactly one job for every relationship its links reach: by
\* then an evaluation within the window has set its marker and done its links.
THEOREM FiresOnce ==
  ASSUME ScheduleFits, TimesFit, IsFiniteSet(Relationships)
  PROVE  TriggersSpec => []FiresOnceWhenSteady
<1>1. TriggersInit => CronInv
  BY CronInit
<1>2. CronInv /\ [TriggersNext]_triggersVars => CronInv'
  BY CronStep
<1>3. CronInv => FiresOnceWhenSteady
  <2> SUFFICES ASSUME CronInv, Undisturbed, Cardinality(Relationships) <= RelationLimit,
                      NEW link \in CronLinks, NEW d \in DueTimes[link], d + Window <= clock,
                      NEW r \in Reach(link)
               PROVE  Cardinality(CronJobs(link.behavior, r, d)) = 1
    BY DEF FiresOnceWhenSteady, Undisturbed
  <2>1. d \in Nat /\ clock \in Nat /\ marker \in Int /\ Window \in Nat
    BY LinksAssumption, TimesType DEF CronInv
  <2>2. d <= marker
    <3>1. \/ marker = -MarkerGap /\ clock < Window
          \/ marker >= 0 /\ clock <= marker + Window
      BY MarkerAge DEF CronInv
    <3> QED BY <2>1, <3>1
  <2>3. Ahead(link) => marker = clock
    BY DEF Ahead, CronInv, Timely
  <2>4. d + Window <= marker \/ (d <= marker /\ ~Ahead(link))
    BY <2>2, <2>3
  <2>5. CronJobs(link.behavior, r, d) # {}
    BY <2>4 DEF CronInv, CronMade, CronKept
  <2>6. PICK j \in CronJobs(link.behavior, r, d) : TRUE
    BY <2>5
  <2>7. \A k \in CronJobs(link.behavior, r, d) : k = j
    BY RowsAlike DEF CronJobs
  <2>8. CronJobs(link.behavior, r, d) = {j}
    BY <2>6, <2>7
  <2> QED BY <2>8, FS_Singleton
<1> QED BY <1>1, <1>2, <1>3, PTL DEF TriggersSpec

IdleInv == TalkInv /\ Timely /\ IdleMade

\* A step that sets no marker and hears nothing, and loses no silence.
LEMMA IdleMadeKept ==
  ASSUME IdleMade, Undisturbed' => Undisturbed, marker' = marker, talk' = talk,
         jobs \subseteq jobs',
         Undisturbed' /\ Cardinality(Relationships) <= IdleLimit =>
           \A p \in Runners, link \in IdleLinks : \A r \in Reach(link) :
             talk[r].heard > 0 /\ AheadIn(p, link, r) =>
               \/ AheadIn(p, link, r)'
               \/ Answered(link.behavior, r)'
               \/ marker - talk[r].at <= IdleAfter
  PROVE  IdleMade'
<1> SUFFICES ASSUME Undisturbed', Cardinality(Relationships) <= IdleLimit,
                    NEW link \in IdleLinks, NEW r \in Reach(link), talk[r].heard > 0
             PROVE  NudgeMade(link, r)'
  BY DEF NudgeMade, IdleMade
<1>1. NudgeMade(link, r)
  BY DEF IdleMade
<1>2. Answered(link.behavior, r) => Answered(link.behavior, r)'
  BY DEF Answered
<1>3. IdleAhead(link, r) => \/ IdleAhead(link, r)'
                            \/ Answered(link.behavior, r)'
                            \/ marker - talk[r].at <= IdleAfter
  <2>1. (\E p \in Runners : AheadIn(p, link, r)') => IdleAhead(link, r)'
    BY DEF IdleAhead, AheadIn
  <2> QED BY <2>1 DEF IdleAhead
<1> QED BY <1>1, <1>2, <1>3 DEF NudgeMade

LEMMA MarkIdleMade ==
  ASSUME TriggersTypeOK, Holding, Timely, IdleMade, ScheduleFits, NEW p \in Runners, Mark(p)
  PROVE  IdleMade'
<1> SUFFICES ASSUME Undisturbed', Cardinality(Relationships) <= IdleLimit,
                    NEW link \in IdleLinks, NEW r \in Reach(link), talk[r].heard > 0
             PROVE  NudgeMade(link, r)'
  BY DEF NudgeMade, IdleMade, Mark
<1>1. /\ marker' = clock /\ UNCHANGED <<clock, jobs, talk>> /\ run[p].pc = "mark"
      /\ Undisturbed /\ run'[p].pc = "read"
  BY RunIs DEF Mark, Undisturbed, TriggersTypeOK, RunRecord
<1>2. \/ marker = -MarkerGap /\ clock < Window
      \/ marker >= 0 /\ clock = marker + Window
      \/ marker = 0 /\ clock = 0
  BY <1>1, MarkTime
<1>3. /\ clock \in Nat /\ marker \in Int /\ Window \in Nat \ {0} /\ MarkerGap \in Nat \ {0}
      /\ IdleAfter \in Nat
  BY TimesType, TimesAssumption
<1>4. talk[r].at \in Nat
  BY LinkType, TalkType
<1>5. IdleAhead(link, r)'
  BY <1>1 DEF IdleAhead, AheadIn
<1>6. NudgeMade(link, r)
  BY <1>1 DEF IdleMade
<1>7. CASE clock < Window
  <2>1. clock - Window - talk[r].at <= IdleAfter
    BY <1>3, <1>4, <1>7
  <2> QED BY <1>1, <1>5, <2>1 DEF NudgeMade
<1>8. CASE clock = marker + Window
  <2>1. ~IdleAhead(link, r)
    <3>1. marker # clock
      BY <1>3, <1>8
    <3>2. \A q \in Runners : run[q].pc \notin {"read", "cron", "idle"}
      BY <1>1, <3>1 DEF Timely
    <3> QED BY <3>2 DEF IdleAhead, AheadIn
  <2>2. CASE Answered(link.behavior, r)
    <3>1. Answered(link.behavior, r)'
      BY <1>1, <2>2 DEF Answered
    <3> QED BY <3>1 DEF NudgeMade
  <2>3. CASE marker - talk[r].at <= IdleAfter
    <3>1. clock - Window - talk[r].at <= IdleAfter
      BY <1>3, <1>4, <1>8, <2>3
    <3> QED BY <1>1, <1>5, <3>1 DEF NudgeMade
  <2> QED BY <1>6, <2>1, <2>2, <2>3 DEF NudgeMade
<1> QED BY <1>2, <1>3, <1>7, <1>8

\* A message begins a silence, that ends one.
LEMMA HearIdleMade ==
  ASSUME IdleInv, NEW q \in Relationships, Hear(q)
  PROVE  IdleMade'
<1> SUFFICES ASSUME Undisturbed', Cardinality(Relationships) <= IdleLimit,
                    NEW link \in IdleLinks, NEW r \in Reach(link)
             PROVE  NudgeMade(link, r)'
  BY DEF NudgeMade, IdleMade
<1>1. /\ UNCHANGED <<clock, marker, run, jobs>> /\ Undisturbed
      /\ talk' = [talk EXCEPT ![q] = [heard |-> talk[q].heard + 1, at |-> clock]]
  BY DEF Hear, Undisturbed
<1>2. NudgeMade(link, r)
  BY <1>1 DEF IdleMade, IdleInv
<1>3. CASE r = q
  <2>1. talk'[r].at = clock
    BY <1>1, <1>3 DEF IdleInv, TalkInv, TriggersTypeOK
  <2>2. clock \in Nat /\ marker \in Int /\ marker <= clock /\ Window \in Nat /\ IdleAfter \in Nat
    BY ClockType, TimesAssumption DEF IdleInv, TalkInv
  <2>3. marker - Window - clock <= IdleAfter /\ marker - clock <= IdleAfter
    BY <2>2
  <2> QED BY <1>1, <2>1, <2>3 DEF NudgeMade
<1>4. CASE r # q
  <2>1. talk'[r] = talk[r]
    BY <1>1, <1>4 DEF IdleInv, TalkInv, TriggersTypeOK
  <2> QED BY <1>1, <1>2, <2>1 DEF NudgeMade, Answered, IdleAhead, AheadIn
<1> QED BY <1>3, <1>4

\* A scan leaves out none that is silent.
LEMMA ScanIdleMade ==
  ASSUME IdleInv, IsFiniteSet(Relationships), NEW p \in Runners, NEW link \in run[p].links,
         ScanSilences(p, link)
  PROVE  IdleMade'
<1>1. /\ run[p].pc = "idle" /\ run[p].silences = {} /\ link \in IdleLinks
      /\ UNCHANGED <<clock, launched, steady, marker, jobs, talk, overlapped, troubled>>
  BY ScanIs DEF IdleInv, TalkInv
<1>2. PICK S \in Limited({r \in Reach(link) : IsSilent(r)}, IdleLimit) :
        run' = [run EXCEPT ![p] = [run[p] EXCEPT
                !.links = @ \ {link},
                !.silences = {[behavior |-> link.behavior, rel |-> r, heard |-> talk[r].heard] :
                                r \in S}]]
  BY ScanIs DEF IdleInv, TalkInv
<1> DEFINE seen == {[behavior |-> link.behavior, rel |-> r, heard |-> talk[r].heard] : r \in S}
<1>3. /\ \A q \in Runners : q # p => run'[q] = run[q]
      /\ run'[p].pc = "idle" /\ run'[p].links = run[p].links \ {link}
      /\ run'[p].silences = seen
  <2>1. /\ run'[p] = [run[p] EXCEPT !.links = @ \ {link}, !.silences = seen]
        /\ \A q \in Runners : q # p => run'[q] = run[q]
    BY <1>2 DEF IdleInv, TalkInv, TriggersTypeOK
  <2>2. run[p] \in RunRecord(clock)
    BY RunIs DEF IdleInv, TalkInv
  <2> HIDE DEF seen
  <2> QED BY <1>1, <2>1, <2>2 DEF RunRecord
<1>4. ASSUME Undisturbed', Cardinality(Relationships) <= IdleLimit,
             NEW q \in Runners, NEW l \in IdleLinks, NEW r \in Reach(l), talk[r].heard > 0,
             AheadIn(q, l, r)
      PROVE  AheadIn(q, l, r)' \/ marker - talk[r].at <= IdleAfter
  <2>1. CASE q # p
    <3>1. run'[q] = run[q]
      BY <1>3, <2>1
    <3> QED BY <1>1, <1>4, <3>1 DEF AheadIn
  <2>2. CASE q = p /\ l # link
    <3>1. l \in run[p].links
      BY <1>1, <1>4, <2>2 DEF AheadIn
    <3> QED BY <1>3, <2>2, <3>1 DEF AheadIn
  <2>3. CASE q = p /\ l = link
    <3> DEFINE silent == {x \in Reach(link) : IsSilent(x)}
    <3>1. IsFiniteSet(silent) /\ Cardinality(silent) <= IdleLimit /\ IdleLimit \in Nat
      <4>1. silent \in SUBSET Relationships
        BY <1>1, LinkType
      <4>2. IsFiniteSet(silent) /\ Cardinality(silent) <= Cardinality(Relationships)
        BY <4>1, FS_Subset
      <4>3. /\ Cardinality(silent) \in Nat /\ Cardinality(Relationships) \in Nat
            /\ IdleLimit \in Nat
        BY <4>2, FS_CardinalityType, TimesAssumption
      <4> HIDE DEF silent
      <4> QED BY <1>4, <4>2, <4>3
    <3>2. S = silent
      BY <3>1, LimitedIsAll
    <3>3. CASE r \in S
      <4>1. [behavior |-> link.behavior, rel |-> r, heard |-> talk[r].heard] \in run'[p].silences
        BY <1>3, <3>3
      <4> QED BY <1>1, <1>3, <2>3, <4>1 DEF AheadIn
    <3>4. CASE r \notin S
      <4>1. ~(clock - talk[r].at > IdleAfter)
        BY <1>4, <2>3, <3>2, <3>4 DEF IsSilent
      <4>2. marker = clock
        BY <1>1, <1>4 DEF IdleInv, Timely, Undisturbed
      <4>3. talk[r].at \in Nat /\ clock \in Nat /\ IdleAfter \in Nat
        BY <1>4, LinkType, TalkType DEF IdleInv, TalkInv
      <4>4. marker - talk[r].at <= IdleAfter
        BY <4>1, <4>2, <4>3
      <4> QED BY <4>4
    <3> QED BY <3>3, <3>4
  <2> QED BY <2>1, <2>2, <2>3
<1>5. Undisturbed' => Undisturbed
  BY <1>1 DEF Undisturbed
<1> QED BY <1>1, <1>4, <1>5, IdleMadeKept DEF IdleInv

\* A silence in hand is done with when it is answered.
LEMMA NudgeIdleMade ==
  ASSUME IdleInv, NEW p \in Runners, NEW s \in run[p].silences, Nudge(p, s)
  PROVE  IdleMade'
<1>1. /\ run[p].pc = "idle" /\ s \in Silence
      /\ UNCHANGED <<clock, launched, steady, marker, talk, overlapped>>
      /\ jobs \subseteq jobs'
      /\ \/ troubled' = TRUE
         \/ /\ troubled' = troubled
            /\ run' = [run EXCEPT ![p] = [run[p] EXCEPT !.silences = @ \ {s}]]
            /\ IdleJobExists(s) \/ jobs' = jobs \cup {IdleJob(s)}
  BY NudgeIs DEF IdleInv, TalkInv
<1>2. ASSUME Undisturbed',
             NEW q \in Runners, NEW l \in IdleLinks, NEW r \in Reach(l),
             AheadIn(q, l, r)
      PROVE  AheadIn(q, l, r)' \/ Answered(l.behavior, r)'
  <2>1. /\ run' = [run EXCEPT ![p] = [run[p] EXCEPT !.silences = @ \ {s}]]
        /\ IdleJobExists(s) \/ jobs' = jobs \cup {IdleJob(s)}
    BY <1>1, <1>2 DEF Undisturbed
  <2>2. /\ \A c \in Runners : c # p => run'[c] = run[c]
        /\ run'[p].pc = "idle" /\ run'[p].links = run[p].links
        /\ run'[p].silences = run[p].silences \ {s}
    <3> DEFINE left == run[p].silences \ {s}
               y == [run[p] EXCEPT !.silences = left]
    <3>1. run'[p] = y /\ \A c \in Runners : c # p => run'[c] = run[c]
      BY <2>1 DEF IdleInv, TalkInv, TriggersTypeOK
    <3>2. left \in SUBSET Silence /\ run[p] \in RunRecord(clock)
      BY RunType, RunIs DEF IdleInv, TalkInv
    <3> HIDE DEF left
    <3>3. y.pc = run[p].pc /\ y.links = run[p].links /\ y.silences = left
      BY <3>2, SilencesChange
    <3> QED BY <1>1, <3>1, <3>3 DEF left
  <2> DEFINE mine == [behavior |-> l.behavior, rel |-> r, heard |-> talk[r].heard]
  <2>3. CASE q # p
    <3>1. run'[q] = run[q]
      BY <2>2, <2>3
    <3> QED BY <1>1, <1>2, <3>1 DEF AheadIn
  <2>4. CASE q = p /\ (l \in run[p].links \/ mine # s)
    <3>1. l \in run'[p].links \/ mine \in run'[p].silences
      BY <1>1, <1>2, <2>2, <2>4 DEF AheadIn
    <3> QED BY <1>1, <2>2, <2>4, <3>1 DEF AheadIn
  <2>5. CASE mine = s
    <3>1. s.behavior = l.behavior /\ s.rel = r /\ s.heard = talk[r].heard /\ r \in Relationships
      BY <2>5, LinkType
    <3>2. CASE jobs' = jobs \cup {IdleJob(s)}
      <4>1. /\ IdleJob(s).source = "idle" /\ IdleJob(s).behavior = l.behavior
            /\ IdleJob(s).rel = r /\ IdleJob(s).heard = talk[r].heard
        BY <3>1 DEF IdleJob
      <4>2. IdleJob(s) \in jobs'
        BY <3>2
      <4> QED BY <1>1, <4>1, <4>2 DEF Answered
    <3>3. CASE IdleJobExists(s)
      <4>1. PICK j \in jobs : /\ j.behavior = s.behavior /\ j.source = "idle"
                              /\ j.rel = s.rel
                              /\ j.heard >= s.heard
        BY <3>3 DEF IdleJobExists
      <4>2. j.heard <= talk[r].heard /\ j.heard >= talk[r].heard
        BY <3>1, <4>1 DEF IdleInv, TalkInv, Past
      <4>3. j.heard \in Nat /\ talk[r].heard \in Nat
        BY <3>1, <4>1, TalkType DEF IdleInv, TalkInv
      <4>4. j.heard = talk[r].heard
        BY <4>2, <4>3
      <4> QED BY <1>1, <3>1, <4>1, <4>4 DEF Answered
    <3> QED BY <2>1, <3>2, <3>3
  <2> QED BY <2>3, <2>4, <2>5
<1>3. Undisturbed' => Undisturbed
  BY <1>1 DEF Undisturbed
<1> QED BY <1>1, <1>2, <1>3, IdleMadeKept DEF IdleInv

LEMMA IdleStep ==
  ASSUME IdleInv, ScheduleFits, IsFiniteSet(Relationships), [TriggersNext]_triggersVars
  PROVE  IdleInv'
<1>1. TalkInv' /\ Timely'
  BY TalkStep, TimelyStep DEF IdleInv, TalkInv
<1>2. /\ \A q \in Runners : run[q] \in RunRecord(clock)
      /\ DOMAIN run = Runners
  BY RunIs DEF IdleInv, TalkInv, TriggersTypeOK
<1>3. CASE Tick \/ UNCHANGED triggersVars
  <2>1. UNCHANGED <<steady, marker, run, jobs, talk, troubled>>
    BY <1>3 DEF Tick, triggersVars
  <2>2. Undisturbed' => Undisturbed
    BY <2>1 DEF Undisturbed
  <2>3. \A p \in Runners : \A link, r : AheadIn(p, link, r) => AheadIn(p, link, r)'
    BY <2>1 DEF AheadIn
  <2>4. IdleMade'
    BY <2>1, <2>2, <2>3, IdleMadeKept DEF IdleInv
  <2> QED BY <1>1, <2>4 DEF IdleInv
<1>4. ASSUME NEW p \in Runners, Launch(p) \/ ReadLinks(p) \/ StartIdle(p) \/ Finish(p)
      PROVE  IdleInv'
  <2>1. UNCHANGED <<steady, marker, jobs, talk, troubled>>
    BY <1>4 DEF Launch, ReadLinks, StartIdle, Finish
  <2>2. \A q \in Runners : q # p => run'[q] = run[q]
    BY <1>2, <1>4 DEF Launch, ReadLinks, StartIdle, Finish
  <2>3. \/ run'[p] = run[p]
        \/ run[p].pc = "rest"
        \/ run'[p].pc = "cron"
        \/ run'[p].pc = "idle" /\ run'[p].links = IdleLinks
        \/ run[p].pc = "idle" /\ run[p].links = {} /\ run[p].silences = {}
    <3>1. CASE Launch(p)
      BY <3>1 DEF Launch
    <3>2. CASE ReadLinks(p)
      BY <1>2, <3>2 DEF ReadLinks, RunRecord
    <3>3. CASE StartIdle(p)
      BY <1>2, <3>3 DEF StartIdle, RunRecord
    <3>4. CASE Finish(p)
      BY <3>4 DEF Finish
    <3> QED BY <1>4, <3>1, <3>2, <3>3, <3>4
  <2>4. \A q \in Runners, link \in IdleLinks : \A r \in Reach(link) :
          AheadIn(q, link, r) => AheadIn(q, link, r)'
    BY <2>1, <2>2, <2>3 DEF AheadIn
  <2>5. Undisturbed' => Undisturbed
    BY <2>1 DEF Undisturbed
  <2>6. IdleMade'
    BY <2>1, <2>4, <2>5, IdleMadeKept DEF IdleInv
  <2> QED BY <1>1, <2>6 DEF IdleInv
<1>5. ASSUME NEW p \in Runners, Mark(p)
      PROVE  IdleInv'
  BY <1>1, <1>5, MarkIdleMade DEF IdleInv, TalkInv
<1>6. ASSUME NEW p \in Runners, Die(p)
      PROVE  IdleInv'
  BY <1>1, <1>6 DEF Die, FailOnce, IdleInv, IdleMade, Undisturbed
<1>7. ASSUME NEW p \in Runners, NEW link \in run[p].links,
             FireCompanion(p, link) \/ FireRelation(p, link)
      PROVE  IdleInv'
  <2>1. /\ run[p].pc = "cron" /\ UNCHANGED <<steady, marker, talk>>
        /\ run' = [run EXCEPT ![p] = [run[p] EXCEPT !.links = @ \ {link}]]
        /\ troubled' = troubled \/ troubled' = TRUE
    BY <1>7, FireIs DEF IdleInv, TalkInv
  <2>2. jobs \subseteq jobs'
    BY <1>7, FireIs DEF IdleInv, TalkInv
  <2>3. run[p].links \ {link} \in SUBSET (CronLinks \cup IdleLinks)
    BY RunType DEF IdleInv, TalkInv
  <2>4. run'[p].pc = "cron"
    BY <1>2, <2>1, <2>3, LinksChange
  <2>5. \A q \in Runners : q # p => run'[q] = run[q]
    BY <1>2, <2>1
  <2>6. \A q \in Runners, l \in IdleLinks : \A r \in Reach(l) :
          AheadIn(q, l, r) => AheadIn(q, l, r)'
    BY <2>1, <2>4, <2>5 DEF AheadIn
  <2>7. Undisturbed' => Undisturbed
    BY <2>1 DEF Undisturbed
  <2>8. IdleMade'
    BY <2>1, <2>2, <2>6, <2>7, IdleMadeKept DEF IdleInv
  <2> QED BY <1>1, <2>8 DEF IdleInv
<1>8. ASSUME NEW p \in Runners, NEW link \in run[p].links, ScanSilences(p, link)
      PROVE  IdleInv'
  BY <1>1, <1>8, ScanIdleMade DEF IdleInv
<1>9. ASSUME NEW p \in Runners, NEW s \in run[p].silences, Nudge(p, s)
      PROVE  IdleInv'
  BY <1>1, <1>9, NudgeIdleMade DEF IdleInv
<1>10. ASSUME NEW r \in Relationships, Hear(r)
       PROVE  IdleInv'
  BY <1>1, <1>10, HearIdleMade DEF IdleInv
<1> QED
  BY <1>3, <1>4, <1>5, <1>6, <1>7, <1>8, <1>9, <1>10, TriggersCases

LEMMA IdleInit ==
  ASSUME TriggersInit
  PROVE  IdleInv
<1>1. \A r \in Relationships : talk[r].heard = 0
  BY DEF TriggersInit
<1>2. \A link \in IdleLinks : \A r \in Reach(link) : ~(talk[r].heard > 0)
  BY <1>1, LinkType
<1> QED BY <1>2, TalkInit, TimelyInit DEF IdleInv, IdleMade, NudgeMade

\* With an exact schedule a silence that lasts is answered within a window of the
\* time it is due: an evaluation scans for it that often, and what a scan finds
\* is nudged before the evaluation ends.
THEOREM SilenceAnswered ==
  ASSUME ScheduleFits, IsFiniteSet(Relationships)
  PROVE  TriggersSpec => []SilenceGetsNudge
<1>1. TriggersInit => IdleInv
  BY IdleInit
<1>2. IdleInv /\ [TriggersNext]_triggersVars => IdleInv'
  BY IdleStep
<1>3. IdleInv => SilenceGetsNudge
  <2> SUFFICES ASSUME IdleInv, Undisturbed, Cardinality(Relationships) <= IdleLimit,
                      NEW link \in IdleLinks, NEW r \in Reach(link),
                      talk[r].heard > 0, clock - talk[r].at > IdleAfter + Window
               PROVE  Answered(link.behavior, r)
    BY DEF SilenceGetsNudge, Undisturbed, Answered
  <2>1. /\ clock \in Nat /\ marker \in Int /\ Window \in Nat /\ IdleAfter \in Nat
        /\ talk[r].at \in Nat
    BY LinkType, TimesType, TalkType DEF IdleInv, TalkInv
  <2>2. NudgeMade(link, r)
    BY DEF IdleMade, IdleInv
  <2>3. \/ marker = -MarkerGap /\ clock < Window
        \/ marker >= 0 /\ clock <= marker + Window
    BY MarkerAge DEF IdleInv, TalkInv
  <2>4. clock <= marker + Window /\ ~(marker - talk[r].at <= IdleAfter)
    BY <2>1, <2>3
  <2>5. ASSUME IdleAhead(link, r)
        PROVE  marker = clock
    BY <2>5 DEF IdleAhead, AheadIn, IdleInv, Timely
  <2>6. ~(IdleAhead(link, r) /\ marker - Window - talk[r].at <= IdleAfter)
    BY <2>1, <2>5
  <2> QED BY <2>2, <2>4, <2>6 DEF NudgeMade
<1> QED BY <1>1, <1>2, <1>3, PTL DEF TriggersSpec
=============================================================================
