------------------------------ MODULE Triggers ------------------------------
(***************************************************************************)
(* The clock-driven half of poll_behavior_jobs                             *)
(* (context/modal_behavior_executor.py): about once a minute one of its    *)
(* runs evaluates the cron and the idle triggers of all behaviors and      *)
(* inserts a job for each that is due.  Nothing but timestamps in the jobs *)
(* table keeps the runs apart: a marker row for the evaluation as a whole, *)
(* earlier jobs for a single trigger.  What becomes of the jobs is in      *)
(* BehaviorJobs; of the messages, which the idle triggers look at, only    *)
(* their times matter.                                                     *)
(*                                                                         *)
(* Time is counted in ticks: one of 5 seconds makes every limit of the     *)
(* code a whole number, a coarser one keeps them in proportion.            *)
(***************************************************************************)
EXTENDS Integers, FiniteSets, FiniteSetsExt

CONSTANTS
  Runners,        \* containers a run of poll_behavior_jobs may execute in
  Relationships,  \* of one companion
  All,            \* "relationship_id IS NULL": a link at companion level
  CronLinks,      \* enabled links with a cron trigger, see Links
  DueTimes,       \* [CronLinks -> SUBSET Nat]: what the expression stands for
  IdleLinks,      \* enabled links with an idle trigger
  RelationLimit,  \* LIMIT of the relationships a companion's cron reaches
  IdleLimit,      \* LIMIT of the silent relationships a companion's scan returns
  Period,         \* Modal starts the function this often
  MarkerGap,      \* a marker or a job younger than this counts as recent
  Window,         \* a cron trigger is due this long after its time
  IdleAfter,      \* minutes of the idle trigger
  Timeout,        \* Modal kills a run after this
  Jitter,         \* a start may be this late when the schedule is not steady
  MaxMessages,    \* bound: [Relationships -> messages]
  Horizon         \* bound: the last tick

Links == [behavior : STRING, rel : Relationships \cup {All}]

Reach(link) == IF link.rel = All THEN Relationships ELSE {link.rel}

ASSUME LinksAssumption ==
  /\ All \notin Relationships
  /\ CronLinks \subseteq Links /\ IdleLinks \subseteq Links
  /\ DueTimes \in [CronLinks -> SUBSET Nat]

ASSUME TimesAssumption ==
  /\ {Period, MarkerGap, Window, IdleAfter, Timeout} \subseteq Nat \ {0}
  /\ {Jitter, Horizon, RelationLimit, IdleLimit} \subseteq Nat
  /\ MaxMessages \in [Relationships -> Nat]
  /\ MarkerGap < Window

VARIABLES
  clock,      \* NOW()
  launched,   \* when Modal last started a run
  steady,     \* the schedule is exact and runs take no time (chosen at the start)
  marker,     \* created_at of the newest cron_check row
  run,        \* [Runners -> what a run of poll_behavior_jobs has in hand]
  jobs,       \* the rows the triggers inserted
  talk,       \* [Relationships -> number and time of its last message]
  overlapped, \* history: two runs were evaluating, or about to, at once
  troubled    \* history: a run died, or an INSERT failed

triggersVars == <<clock, launched, steady, marker, run, jobs, talk,
          overlapped, troubled>>

Resting == [pc |-> "rest", since |-> 0, now |-> 0, links |-> {}, silences |-> {}]

TriggersInit ==
  /\ clock = 0 /\ launched = 0
  /\ steady \in BOOLEAN
  /\ marker = -MarkerGap
  /\ run = [p \in Runners |-> Resting]
  /\ jobs = {}
  /\ talk = [r \in Relationships |-> [heard |-> 0, at |-> 0]]
  /\ overlapped = FALSE /\ troubled = FALSE

-----------------------------------------------------------------------------
(* The schedule of Modal *)

Busy == {p \in Runners : run[p].pc # "rest"}

\* Time passes.  A start is not later than the schedule allows; in a steady
\* schedule a run has ended by now, in another it may take until Modal kills it.
Tick ==
  /\ clock < Horizon
  /\ clock - launched < Period + (IF steady THEN 0 ELSE Jitter)
  /\ \A p \in Busy : ~steady /\ clock - run[p].since < Timeout
  /\ clock' = clock + 1
  /\ UNCHANGED <<launched, steady, marker, run, jobs, talk, overlapped, troubled>>

\* A slip: the marker forgotten.
MarkerIgnored == FALSE

MarkerIsRecent == clock - marker < MarkerGap

\* A run starts and looks for a recent marker.  With one there is nothing to
\* evaluate, and the run goes on to claim jobs.
Launch(p) ==
  /\ run[p].pc = "rest"
  /\ clock = 0 \/ clock - launched >= Period
  /\ launched' = clock
  /\ IF MarkerIsRecent
       THEN UNCHANGED <<run, overlapped>>
       ELSE /\ run' = [run EXCEPT ![p].pc = "mark", ![p].since = clock]
            /\ overlapped' = (overlapped \/ Busy # {})
  /\ UNCHANGED <<clock, steady, marker, jobs, talk, troubled>>

Mark(p) ==
  /\ run[p].pc = "mark"
  /\ marker' = clock
  /\ run' = [run EXCEPT ![p].pc = "read"]
  /\ UNCHANGED <<clock, launched, steady, jobs, talk, overlapped, troubled>>

\* Bound: one failure.
FailOnce == ~troubled /\ troubled' = TRUE

\* The container dies, or is killed after its timeout.
Die(p) ==
  /\ p \in Busy
  /\ FailOnce
  /\ run' = [run EXCEPT ![p] = Resting]
  /\ UNCHANGED <<clock, launched, steady, marker, jobs, talk, overlapped>>

-----------------------------------------------------------------------------
(* _evaluate_cron_triggers *)

\* Rows have no id here: two that are alike come of overlapping runs, of which
\* nothing is claimed.
CronJob(behavior, rel, level, about) ==
  [source |-> "cron", behavior |-> behavior, rel |-> rel, level |-> level,
   about |-> about, at |-> clock]

IdleJob(s) ==
  [source |-> "idle", behavior |-> s.behavior, rel |-> s.rel,
   heard |-> talk[s.rel].heard, at |-> clock]

Insert(rows) == jobs' = jobs \cup rows

ReadLinks(p) ==
  /\ run[p].pc = "read"
  /\ run' = [run EXCEPT ![p].pc = "cron", ![p].now = clock, ![p].links = CronLinks]
  /\ UNCHANGED <<clock, launched, steady, marker, jobs, talk, overlapped, troubled>>

\* cron.get_prev(now), for a trigger that was ever due.
Passed(link, now) == {d \in DueTimes[link] : d <= now}
PreviousTime(link, now) == Max(Passed(link, now))
IsDue(link, now) ==
  /\ Passed(link, now) # {}
  /\ now - PreviousTime(link, now) < Window

\* The results of a SELECT with a LIMIT.
Limited(rows, limit) == kSubset(Min({limit, Cardinality(rows)}), rows)

\* The relationships a companion's trigger reaches: those heard of last.
Reached ==
  {S \in Limited(Relationships, RelationLimit) :
     \A r \in S, q \in Relationships \ S : talk[r].at >= talk[q].at}

\* The code looks for a job without a relationship, and makes none.
CompanionJobExists(link) ==
  \E j \in jobs : /\ j.behavior = link.behavior /\ j.source = "cron"
                  /\ j.rel = All
                  /\ clock - j.at < MarkerGap

\* A slip: the job a companion's link has just made overlooked.
RelationJobOfOwn(link) ==
  \E j \in jobs : /\ j.behavior = link.behavior /\ j.source = "cron"
                  /\ j.rel = link.rel /\ j.level = "relation"
                  /\ clock - j.at < MarkerGap

RelationJobExists(link) ==
  \E j \in jobs : /\ j.behavior = link.behavior /\ j.source = "cron"
                  /\ j.rel = link.rel
                  /\ clock - j.at < MarkerGap

\* A link at companion level: one INSERT per relationship; the first that
\* fails ends the loop.
FireCompanion(p, link) ==
  /\ run[p].pc = "cron" /\ link \in run[p].links /\ link.rel = All
  /\ run' = [run EXCEPT ![p].links = @ \ {link}]
  /\ IF IsDue(link, run[p].now) /\ ~CompanionJobExists(link)
       THEN \E S \in Reached : \E done \in SUBSET S :
              /\ Insert({CronJob(link.behavior, r, "companion",
                              PreviousTime(link, run[p].now)) : r \in done})
              /\ IF done = S THEN UNCHANGED troubled ELSE FailOnce
       ELSE UNCHANGED <<jobs, troubled>>
  /\ UNCHANGED <<clock, launched, steady, marker, talk, overlapped>>

\* A link of one relationship, after those of the companion.
FireRelation(p, link) ==
  /\ run[p].pc = "cron" /\ link \in run[p].links
  /\ \A l \in run[p].links : l.rel # All
  /\ run' = [run EXCEPT ![p].links = @ \ {link}]
  /\ IF IsDue(link, run[p].now) /\ ~RelationJobExists(link)
       THEN \/ /\ Insert({CronJob(link.behavior, link.rel, "relation",
                                  PreviousTime(link, run[p].now))})
               /\ UNCHANGED troubled
            \/ FailOnce /\ UNCHANGED jobs
       ELSE UNCHANGED <<jobs, troubled>>
  /\ UNCHANGED <<clock, launched, steady, marker, talk, overlapped>>

-----------------------------------------------------------------------------
(* _evaluate_idle_triggers *)

StartIdle(p) ==
  /\ run[p].pc = "cron" /\ run[p].links = {}
  /\ run' = [run EXCEPT ![p].pc = "idle", ![p].now = 0, ![p].links = IdleLinks]
  /\ UNCHANGED <<clock, launched, steady, marker, jobs, talk, overlapped, troubled>>

\* A slip: the silence counted from the next evaluation on.
IsSilentForLong(r) ==
  /\ talk[r].heard > 0
  /\ clock - talk[r].at > IdleAfter + Window

IsSilent(r) ==
  /\ talk[r].heard > 0
  /\ clock - talk[r].at > IdleAfter

\* The SELECT of the silent relationships of a link, with their last messages:
\* at companion level a hundred of them, in no order.
ScanSilences(p, link) ==
  /\ run[p].pc = "idle" /\ run[p].silences = {} /\ link \in run[p].links
  /\ \E S \in Limited({r \in Reach(link) : IsSilent(r)}, IdleLimit) :
       run' = [run EXCEPT
         ![p].links = @ \ {link},
         ![p].silences = {[behavior |-> link.behavior, rel |-> r, heard |-> talk[r].heard] :
                            r \in S}]
  /\ UNCHANGED <<clock, launched, steady, marker, jobs, talk, overlapped, troubled>>

\* A slip: jobs looked for in the last minute, as for cron triggers.
IdleJobIsRecent(s) ==
  \E j \in jobs : /\ j.behavior = s.behavior /\ j.source = "idle"
                  /\ j.rel = s.rel
                  /\ clock - j.at < MarkerGap

\* created_at > last_message_at, of the message the scan has seen.
IdleJobExists(s) ==
  \E j \in jobs : /\ j.behavior = s.behavior /\ j.source = "idle"
                  /\ j.rel = s.rel
                  /\ j.heard >= s.heard

\* An error ends the loop over the relationships of the link.
Nudge(p, s) ==
  /\ run[p].pc = "idle" /\ s \in run[p].silences
  /\ \/ /\ run' = [run EXCEPT ![p].silences = @ \ {s}]
        /\ IF IdleJobExists(s) THEN UNCHANGED jobs ELSE Insert({IdleJob(s)})
        /\ UNCHANGED troubled
     \/ /\ run' = [run EXCEPT ![p].silences = {}]
        /\ FailOnce /\ UNCHANGED jobs
  /\ UNCHANGED <<clock, launched, steady, marker, talk, overlapped>>

Finish(p) ==
  /\ run[p].pc = "idle" /\ run[p].links = {} /\ run[p].silences = {}
  /\ run' = [run EXCEPT ![p] = Resting]
  /\ UNCHANGED <<clock, launched, steady, marker, jobs, talk, overlapped, troubled>>

-----------------------------------------------------------------------------
(* What the triggers look at: messages *)

\* A row of messages: of a turn, or of a job that was executed.
Hear(r) ==
  /\ talk[r].heard < MaxMessages[r]
  /\ talk' = [talk EXCEPT ![r] = [heard |-> @.heard + 1, at |-> clock]]
  /\ UNCHANGED <<clock, launched, steady, marker, run, jobs, overlapped, troubled>>

-----------------------------------------------------------------------------

Evaluate(p) ==
  \/ Mark(p) \/ ReadLinks(p) \/ StartIdle(p) \/ Finish(p)
  \/ \E link \in run[p].links :
       FireCompanion(p, link) \/ FireRelation(p, link) \/ ScanSilences(p, link)
  \/ \E s \in run[p].silences : Nudge(p, s)

TriggersNext ==
  \/ Tick
  \/ \E p \in Runners : Launch(p) \/ Evaluate(p) \/ Die(p)
  \/ \E r \in Relationships : Hear(r)

TriggersSpec == TriggersInit /\ [][TriggersNext]_triggersVars
-----------------------------------------------------------------------------
(* Correctness *)

CronRow == [source : {"cron"}, behavior : STRING, rel : Relationships,
            level : {"companion", "relation"}, about : Nat, at : Nat]
IdleRow == [source : {"idle"}, behavior : STRING, rel : Relationships,
            heard : Nat, at : Nat]
Silence == [behavior : STRING, rel : Relationships, heard : Nat]

\* The types of the variables: rows are rows the code can write.
TriggersTypeOK ==
  /\ clock \in 0..Horizon /\ launched \in 0..clock /\ steady \in BOOLEAN
  /\ marker \in (0..clock) \cup {-MarkerGap}
  /\ run \in [Runners ->
       [pc : {"rest", "mark", "read", "cron", "idle"}, since : 0..clock, now : 0..clock,
        links : SUBSET (CronLinks \cup IdleLinks), silences : SUBSET Silence]]
  /\ jobs \subseteq CronRow \cup IdleRow
  /\ talk \in [Relationships -> [heard : Nat, at : 0..clock]]
  /\ overlapped \in BOOLEAN /\ troubled \in BOOLEAN

CronJobs(behavior, r, d) ==
  {j \in jobs : j.source = "cron" /\ j.behavior = behavior /\ j.rel = r /\ j.about = d}

\* With an exact schedule, the periods and limits of the code fit together: a
\* cron time whose window is over has made one job for every relationship its
\* links reach, whether one link reaches it or two.
FiresOnceWhenSteady ==
  steady /\ ~troubled /\ Cardinality(Relationships) <= RelationLimit =>
    \A link \in CronLinks : \A d \in DueTimes[link] :
      d + Window <= clock =>
        \A r \in Reach(link) : Cardinality(CronJobs(link.behavior, r, d)) = 1

\* Without it, as long as no two evaluations overlap, a cron time makes at most
\* three jobs for a relationship and a level: the marker does not keep
\* evaluations a window apart, a run may evaluate long after its marker, and
\* the check for a companion's job never finds one.
FewDuplicates ==
  ~overlapped =>
    \A link \in CronLinks : \A d \in DueTimes[link], r \in Relationships :
      \A level \in {"companion", "relation"} :
        Cardinality({j \in CronJobs(link.behavior, r, d) : j.level = level}) <= 3

\* Idle jobs of one behavior for one relationship are further apart than the
\* silence it waits for, unless evaluations overlapped: no silence is answered
\* twice, also when a message comes between the scan and the job.
NudgesApart ==
  ~overlapped =>
    \A j, k \in jobs :
      /\ j # k /\ j.source = "idle" /\ k.source = "idle"
      /\ j.behavior = k.behavior /\ j.rel = k.rel
      => j.at > k.at + IdleAfter \/ k.at > j.at + IdleAfter

\* A silence that lasts is answered within a window of the time it is due, as
\* long as no more relationships are silent than a scan returns.
SilenceGetsNudge ==
  steady /\ ~troubled /\ Cardinality(Relationships) <= IdleLimit =>
    \A link \in IdleLinks : \A r \in Reach(link) :
      talk[r].heard > 0 /\ clock - talk[r].at > IdleAfter + Window =>
        \E j \in jobs : /\ j.source = "idle" /\ j.behavior = link.behavior
                        /\ j.rel = r /\ j.heard = talk[r].heard
=============================================================================
