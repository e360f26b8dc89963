---------------------------- MODULE BehaviorJobs ----------------------------
(***************************************************************************)
(* The behavior jobs of one companion: a turn, the API, a schedule effect  *)
(* or a trigger inserts them; poll_behavior_jobs, which the scheduler      *)
(* starts every ten seconds whether or not earlier calls have ended,       *)
(* claims them in batches and has BehaviorExecutor.execute_job run them    *)
(* one by one; execute_behavior_job runs one by hand; an effect of a turn  *)
(* cancels one.  All statements are autocommitted.                         *)
(***************************************************************************)
EXTENDS Naturals, Sequences, FiniteSets

CONSTANTS
  Jobs,
  Users,       \* end users of the companion, whose turns may cancel
  KindOf,      \* what inserts a job: a member of Kind
  Pollers,     \* calls of poll_behavior_jobs that may overlap
  Containers,  \* of BehaviorExecutor, max_containers of them
  BatchSize,   \* LIMIT of the claim
  LastEffect,  \* effects a behavior returns
  NoJob

Kind == {"turn", "schedule", "api", "cron", "idle"}

ASSUME KindAssumption == KindOf \in [Jobs -> Kind]
ASSUME BatchAssumption == BatchSize \in Nat \ {0}
ASSUME EffectAssumption == LastEffect \in Nat
ASSUME NoJobAssumption == NoJob \notin Jobs
ASSUME CallerAssumption == {"tester", "nobody"} \cap Pollers = {}

Status == {"none", "pending", "running", "completed", "failed", "cancelled"}
Ended == {"completed", "failed", "cancelled"}
Pc == {"free", "called", "running", "not_found", "raised", "done"}
Effect == 1..LastEffect

\* The key is in jobs.behavior_key, where the cancellation looks for it ...
KeyInColumn(j) == KindOf[j] \in {"turn", "schedule"}
\* ... or in jobs.params, where the executor does.
KeyInParams(j) == KindOf[j] # "schedule"

Priority(j) == IF KindOf[j] = "schedule" THEN 50 ELSE IF KindOf[j] = "api" THEN 10 ELSE 0

VARIABLES
  status,        \* of a job
  due,           \* jobs whose run_at has come
  created,       \* jobs in the order of created_at
  batch,         \* a poller: the jobs it claimed and has not heard of
  pc, job, caller, step, \* a container: progress, job, who waits, effects applied
  found,         \* a user's turn that cancels: the job find_active_job returned
  applied,       \* history: how often polled executions applied an effect
  touched        \* history: jobs that were executed by hand

row == <<status, due, created>>
container == <<pc, job, caller, step>>
history == <<applied, touched>>
vars == <<row, batch, container, found, history>>

TypeOK ==
  /\ status \in [Jobs -> Status]
  /\ due \subseteq Jobs
  /\ created \in Seq(Jobs)
  /\ batch \in [Pollers -> SUBSET Jobs]
  /\ pc \in [Containers -> Pc]
  /\ job \in [Containers -> Jobs \cup {NoJob}]
  /\ caller \in [Containers -> Pollers \cup {"tester", "nobody"}]
  /\ step \in [Containers -> 0..LastEffect]
  /\ found \in [Users -> Jobs \cup {NoJob}]
  /\ applied \in [Jobs -> [Effect -> Nat]]
  /\ touched \subseteq Jobs

Init ==
  /\ status = [j \in Jobs |-> "none"]
  /\ due = {}
  /\ created = <<>>
  /\ batch = [p \in Pollers |-> {}]
  /\ pc = [x \in Containers |-> "free"]
  /\ job = [x \in Containers |-> NoJob]
  /\ caller = [x \in Containers |-> "nobody"]
  /\ step = [x \in Containers |-> 0]
  /\ found = [u \in Users |-> NoJob]
  /\ applied = [j \in Jobs |-> [e \in Effect |-> 0]]
  /\ touched = {}

-----------------------------------------------------------------------------
(* Helpers *)

Before(i, j) ==
  \/ Priority(i) > Priority(j)
  \/ /\ Priority(i) = Priority(j)
     /\ \E k, l \in DOMAIN created : k < l /\ created[k] = i /\ created[l] = j

\* A slip: a claim that also takes what another poller is running.
ActiveJobs == {j \in due : status[j] \in {"pending", "running"}}

Claimable == {j \in due : status[j] = "pending"}

\* A job a cancellation may find: job_type, companion and behavior_key are
\* compared, the user is not.
Active(j) == status[j] \in {"pending", "running"} /\ KeyInColumn(j)

Polled(x) == pc[x] # "free" /\ caller[x] # "tester"

-----------------------------------------------------------------------------
(* Slips that the properties below would catch, no part of Next: a completion *)
(* ahead of the effects, a cancellation without its guard, a failed job that  *)
(* its poller tries again and again.                                          *)

CompleteEarly(x) ==
  /\ pc[x] = "running"
  /\ status' = [status EXCEPT ![job[x]] = "completed"]
  /\ pc' = [pc EXCEPT ![x] = "done"]
  /\ UNCHANGED <<due, created, batch, job, caller, step, found, history>>

CancelUnguarded(u) ==
  /\ found[u] # NoJob
  /\ status' = [status EXCEPT ![found[u]] = "cancelled"]
  /\ found' = [found EXCEPT ![u] = NoJob]
  /\ UNCHANGED <<due, created, batch, container, history>>

ReturnAndRetry(x) ==
  /\ pc[x] = "done"
  /\ pc' = [pc EXCEPT ![x] = "free"]
  /\ job' = [job EXCEPT ![x] = NoJob]
  /\ caller' = [caller EXCEPT ![x] = "nobody"]
  /\ step' = [step EXCEPT ![x] = 0]
  /\ batch' = [p \in Pollers |->
                IF caller[x] = p /\ status[job[x]] # "failed" THEN batch[p] \ {job[x]} ELSE batch[p]]
  /\ UNCHANGED <<row, found, history>>

-----------------------------------------------------------------------------
(* Insertion *)

\* A schedule effect may name a later time.
Enqueue(j) ==
  /\ status[j] = "none"
  /\ status' = [status EXCEPT ![j] = "pending"]
  /\ created' = Append(created, j)
  /\ due' \in {due \cup {j}} \cup (IF KindOf[j] = "schedule" THEN {due} ELSE {})
  /\ UNCHANGED <<batch, container, found, history>>

RunAtComes(j) ==
  /\ status[j] # "none" /\ j \notin due
  /\ due' = due \cup {j}
  /\ UNCHANGED <<status, created, batch, container, found, history>>

-----------------------------------------------------------------------------
(* poll_behavior_jobs *)

\* UPDATE ... WHERE id IN (SELECT ... FOR UPDATE SKIP LOCKED) RETURNING id
Claim(p) ==
  /\ batch[p] = {}
  /\ Claimable # {}
  /\ \E B \in SUBSET Claimable :
       /\ B # {}
       /\ Cardinality(B) <= BatchSize
       /\ Cardinality(B) = BatchSize \/ B = Claimable
       /\ \A i \in B, j \in Claimable \ B : Before(i, j)
       /\ status' = [j \in Jobs |-> IF j \in B THEN "running" ELSE status[j]]
       /\ batch' = [batch EXCEPT ![p] = B]
  /\ UNCHANGED <<due, created, container, found, history>>

\* The next execute_job.remote.aio, once the one before has returned.
Call(p, x) ==
  /\ pc[x] = "free"
  /\ \A y \in Containers : caller[y] # p
  /\ \E j \in batch[p] : job' = [job EXCEPT ![x] = j]
  /\ caller' = [caller EXCEPT ![x] = p]
  /\ pc' = [pc EXCEPT ![x] = "called"]
  /\ UNCHANGED <<row, batch, step, found, history>>

\* The function's timeout, shorter than the executor's, or its container dies:
\* an execution under way goes on by itself.
PollerDies(p) ==
  /\ batch[p] # {}
  /\ batch' = [batch EXCEPT ![p] = {}]
  /\ caller' = [x \in Containers |-> IF caller[x] = p THEN "nobody" ELSE caller[x]]
  /\ UNCHANGED <<row, pc, job, step, found, history>>

-----------------------------------------------------------------------------
(* BehaviorExecutor.execute_job *)

\* execute_behavior_job: any job, whatever its status.
CallByHand(j, x) ==
  /\ status[j] # "none" /\ pc[x] = "free"
  /\ job' = [job EXCEPT ![x] = j]
  /\ caller' = [caller EXCEPT ![x] = "tester"]
  /\ pc' = [pc EXCEPT ![x] = "called"]
  /\ touched' = touched \cup {j}
  /\ UNCHANGED <<row, batch, step, found, applied>>

\* _get_job and _get_behavior.
LookUp(x) ==
  /\ pc[x] = "called"
  /\ pc' = [pc EXCEPT ![x] = IF KeyInParams(job[x]) THEN "running" ELSE "not_found"]
  /\ UNCHANGED <<row, batch, job, caller, step, found, history>>

\* _process_effects, one effect: no transaction spans them.
ApplyEffect(x) ==
  /\ pc[x] = "running"
  /\ step[x] < LastEffect
  /\ applied' = IF Polled(x)
                  THEN [applied EXCEPT ![job[x]][step[x] + 1] = @ + 1]
                  ELSE applied
  /\ step' = [step EXCEPT ![x] = @ + 1]
  /\ UNCHANGED <<row, batch, pc, job, caller, found, touched>>

\* _complete_job tests nothing but the id.
Complete(x) ==
  /\ pc[x] = "running"
  /\ step[x] = LastEffect
  /\ status' = [status EXCEPT ![job[x]] = "completed"]
  /\ pc' = [pc EXCEPT ![x] = "done"]
  /\ UNCHANGED <<due, created, batch, job, caller, step, found, history>>

\* The behavior's code, an effect or the completion raises.
Raise(x) ==
  /\ pc[x] \in {"called", "running"}
  /\ pc' = [pc EXCEPT ![x] = "raised"]
  /\ UNCHANGED <<row, batch, job, caller, step, found, history>>

\* _fail_job tests nothing but the id either.
Fail(x) ==
  /\ pc[x] \in {"not_found", "raised"}
  /\ status' = [status EXCEPT ![job[x]] = "failed"]
  /\ pc' = [pc EXCEPT ![x] = "done"]
  /\ UNCHANGED <<due, created, batch, job, caller, step, found, history>>

Free(x) ==
  /\ pc' = [pc EXCEPT ![x] = "free"]
  /\ job' = [job EXCEPT ![x] = NoJob]
  /\ caller' = [caller EXCEPT ![x] = "nobody"]
  /\ step' = [step EXCEPT ![x] = 0]

Return(x) ==
  /\ pc[x] = "done"
  /\ Free(x)
  /\ batch' = [p \in Pollers |-> IF caller[x] = p THEN batch[p] \ {job[x]} ELSE batch[p]]
  /\ UNCHANGED <<row, found, history>>

\* The container is killed, or _fail_job raises: the exception ends the poller.
ContainerDies(x) ==
  /\ pc[x] \notin {"free", "done"}
  /\ Free(x)
  /\ batch' = [p \in Pollers |-> IF caller[x] = p THEN {} ELSE batch[p]]
  /\ UNCHANGED <<row, found, history>>

-----------------------------------------------------------------------------
(* PostTurnExecutor._schedule_action with "cancel" *)

\* find_active_job: the newest.
FindActive(u) ==
  /\ found[u] = NoJob
  /\ \E k \in DOMAIN created :
       /\ Active(created[k])
       /\ \A l \in DOMAIN created : l > k => ~Active(created[l])
       /\ found' = [found EXCEPT ![u] = created[k]]
  /\ UNCHANGED <<row, batch, container, history>>

CancelFound(u) ==
  /\ found[u] # NoJob
  /\ status' = [status EXCEPT ![found[u]] = IF @ = "pending" THEN "cancelled" ELSE @]
  /\ found' = [found EXCEPT ![u] = NoJob]
  /\ UNCHANGED <<due, created, batch, container, history>>

-----------------------------------------------------------------------------
Execute(x) ==
  \/ LookUp(x) \/ ApplyEffect(x) \/ Complete(x) \/ Raise(x) \/ Fail(x) \/ Return(x)

Next ==
  \/ \E j \in Jobs : Enqueue(j) \/ RunAtComes(j)
  \/ \E p \in Pollers : Claim(p) \/ PollerDies(p)
  \/ \E x \in Containers :
       \/ Execute(x) \/ ContainerDies(x)
       \/ \E p \in Pollers : Call(p, x)
       \/ \E j \in Jobs : CallByHand(j, x)
  \/ \E u \in Users : FindActive(u) \/ CancelFound(u)

Spec == Init /\ [][Next]_vars

\* The scheduler starts pollers for ever; calls queue for containers, so that one
\* cannot miss every free one; and the code of an execution runs to its end.
Fairness ==
  /\ WF_vars(\E j \in Jobs : RunAtComes(j))
  /\ WF_vars(\E p \in Pollers : Claim(p))
  /\ \A p \in Pollers : SF_vars(\E x \in Containers : Call(p, x))
  /\ \A x \in Containers : WF_vars(Execute(x))

FairSpec == Spec /\ Fairness

-----------------------------------------------------------------------------
(* Properties *)

(* Pollers that overlap never execute the same job: no effect of it is applied *)
(* twice by them, whatever dies in between.                                   *)
EffectsOnce == \A j \in Jobs, e \in Effect : applied[j][e] <= 1

(* Effects have no transaction, so a job may end between two of them; but what *)
(* was applied is always a prefix, all of it when the job is completed.        *)
EffectsInOrder ==
  /\ \A j \in Jobs, e \in Effect : e > 1 => applied[j][e] <= applied[j][e - 1]
  /\ \A j \in Jobs \ touched, e \in Effect : status[j] = "completed" => applied[j][e] = 1

(* Cancelling is safe: a job that was cancelled while a poller claimed is      *)
(* either gone before the claim or left alone; its effects are never applied,  *)
(* unless somebody runs it by hand.                                           *)
CancelledNeverRuns ==
  \A j \in Jobs \ touched : status[j] = "cancelled" =>
    /\ \A e \in Effect : applied[j][e] = 0
    /\ \A p \in Pollers : j \notin batch[p]
    /\ \A x \in Containers : job[x] # j

\* The table has the job as running, and no poller or execution of one knows of it.
Abandoned(j) ==
  /\ status[j] = "running"
  /\ \A p \in Pollers : j \notin batch[p]
  /\ \A x \in Containers : Polled(x) => job[x] # j

(* Every job is claimed and ends, or a crash has left it running for ever:     *)
(* batches, priorities, the containers that the pollers share, and jobs that   *)
(* crashes have abandoned keep no other waiting.                               *)
JobsEnd ==
  <>[](\A j \in Jobs : status[j] \in {"none"} \cup Ended \/ Abandoned(j))

-----------------------------------------------------------------------------
(* The inductive invariant behind the first three. *)

\* A poller awaits one execution at a time.
OneCall ==
  \A x, y \in Containers : caller[x] \in Pollers /\ caller[x] = caller[y] => x = y

\* Where a polled job is: with at most one poller, in at most one container, and
\* in neither before the claim.
Places ==
  /\ OneCall
  /\ \A p, q \in Pollers : p # q => batch[p] \cap batch[q] = {}
  /\ \A x, y \in Containers : Polled(x) /\ Polled(y) /\ job[x] = job[y] => x = y
  /\ \A x \in Containers, p \in Pollers :
       Polled(x) /\ job[x] \in batch[p] => caller[x] = p
  /\ \A x \in Containers :
       /\ pc[x] = "free" => job[x] = NoJob /\ caller[x] = "nobody" /\ step[x] = 0
       /\ pc[x] # "free" => job[x] \in Jobs
       /\ pc[x] = "called" => step[x] = 0
       /\ pc[x] # "free" /\ caller[x] \in Pollers => job[x] \in batch[caller[x]]
       /\ caller[x] = "tester" => job[x] \in touched

\* A job no poller has begun has no effects, one under way those counted.
NotClaimed ==
  \A j \in Jobs : status[j] \in {"none", "pending"} =>
    /\ \A e \in Effect : applied[j][e] = 0
    /\ \A p \in Pollers : j \notin batch[p]
    /\ \A x \in Containers : ~(Polled(x) /\ job[x] = j)

Waiting(j) == \A x \in Containers : job[x] = j => ~Polled(x)
NotCalled ==
  \A p \in Pollers, j \in Jobs, e \in Effect :
    j \in batch[p] /\ Waiting(j) => applied[j][e] = 0

UnderWay ==
  \A x \in Containers, e \in Effect : Polled(x) =>
    /\ e <= step[x] => applied[job[x]][e] = 1
    /\ e > step[x] => applied[job[x]][e] = 0

Progress == NotClaimed /\ NotCalled /\ UnderWay

IInv == TypeOK /\ Places /\ Progress /\ EffectsOnce /\ CancelledNeverRuns

=============================================================================
