------------------------------ MODULE Summaries ------------------------------
(***************************************************************************)
(* The incremental summaries of one relationship: turns and a manual       *)
(* request that find a threshold of the message count crossed, workers     *)
(* that ask an LLM and store a version, and the reset of a test user.      *)
(*                                                                         *)
(* The numbering of messages is the one of TurnLog.  A summary stands for  *)
(* the set of messages whose text the LLM was shown, its predecessor's     *)
(* included.  Every action is one statement, or one transaction.           *)
(***************************************************************************)
EXTENDS Naturals, FiniteSets

CONSTANTS
  Turns,        \* calls of process_turn_streaming / process_turn_non_streaming
  Pushes,       \* proactive messages: numbered rows that are not counted
  Askers,       \* calls of the endpoint that triggers a summary
  DeviceOf,     \* the socket of a turn; an HTTP turn has one of its own
  MessageLimit, \* context.message_limit: threshold, and length of the history
  MaxResets     \* bound: resets of the relationship

ASSUME LimitAssumption == MessageLimit \in Nat \ {0}
ASSUME ResetsAssumption == MaxResets \in Nat
ASSUME DeviceAssumption == DOMAIN DeviceOf = Turns
ASSUME CallerAssumption ==
  /\ Turns \cap Pushes = {}
  /\ Turns \cap Askers = {}
  /\ Pushes \cap Askers = {}

User(t) == <<"user", t>>
Reply(t) == <<"assistant", t>>
Push(p) == <<"push", p>>
Message == {User(t) : t \in Turns} \cup {Reply(t) : t \in Turns}
             \cup {Push(p) : p \in Pushes}

Callers == Turns \cup Askers
Actors == Callers \cup Pushes

Pc == {"idle", "numbered", "saved", "fresh", "answered", "counted", "looked",
       "done", "failed"}

Snapshot == [count : Nat, last : Nat, life : Nat]
Summary == [from : Nat, to : Nat, covers : SUBSET Message, life : Nat]
Unread == [count |-> 0, last |-> 0, life |-> 0]
NoSummary == [version |-> 0, covers |-> {}]
Payload == [by : Callers, version : Nat, summary : Summary]

VARIABLES
  seqOf,          \* messages.seq of a row; 0: the row is not in the table
  messageCount,   \* relationships.message_count
  lastSummarized, \* relationships.last_summarized_message_count
  summaries,      \* relationship_summaries: a row by its version
  pc, number,     \* a turn, push or request: progress, the seq it took
  snap,           \* the relationship as a caller read it
  latest,         \* version and covers of the latest summary a caller read
  jobs,           \* spawned calls of summarize_relationship
  life,           \* history: resets so far
  torn,           \* history: a reset met something in flight
  smooth          \* history: turns and jobs came one at a time and none failed

rows == <<seqOf, messageCount, lastSummarized, summaries>>
caller == <<pc, number, snap, latest>>
history == <<life, torn, smooth>>
summariesVars == <<rows, caller, jobs, history>>

SummariesTypeOK ==
  /\ seqOf \in [Message -> Nat]
  /\ messageCount \in Nat
  /\ lastSummarized \in Nat
  /\ DOMAIN summaries \subseteq Nat \ {0}
  /\ \A v \in DOMAIN summaries : summaries[v] \in Summary
  /\ pc \in [Actors -> Pc]
  /\ number \in [Actors -> Nat]
  /\ snap \in [Actors -> Snapshot]
  /\ latest \in [Actors -> [version : Nat, covers : SUBSET Message]]
  /\ jobs \subseteq Payload
  /\ life \in 0 .. MaxResets
  /\ torn \in BOOLEAN
  /\ smooth \in BOOLEAN

SummariesInit ==
  /\ seqOf = [m \in Message |-> 0]
  /\ messageCount = 0
  /\ lastSummarized = 0
  /\ summaries = <<>>
  /\ pc = [c \in Actors |-> "idle"]
  /\ number = [c \in Actors |-> 0]
  /\ snap = [c \in Actors |-> Unread]
  /\ latest = [c \in Actors |-> NoSummary]
  /\ jobs = {}
  /\ life = 0
  /\ torn = FALSE
  /\ smooth = TRUE

-----------------------------------------------------------------------------
(* Helpers *)

Rows == {m \in Message : seqOf[m] # 0}

\* COALESCE(MAX(seq), 0) + 1, as a singleton.
NextSeqs == {n \in {seqOf[m] + 1 : m \in Message} : \A m \in Message : seqOf[m] < n}

\* A slip: seq > $2.
After(from, to) == {m \in Rows : from < seqOf[m] /\ seqOf[m] <= to}

InRange(from, to) == {m \in Rows : from <= seqOf[m] /\ seqOf[m] <= to}

\* ORDER BY version DESC LIMIT 1, as a set of at most one version.
LatestVersions == {v \in DOMAIN summaries : \A w \in DOMAIN summaries : w <= v}

LatestVersion == IF summaries = <<>> THEN 0 ELSE CHOOSE v \in LatestVersions : TRUE

\* What the prompt of a turn knows from the latest summary.
Known == UNION {summaries[v].covers : v \in LatestVersions}

Busy(c) == pc[c] \notin {"idle", "done", "failed"}
Alone(c) == \A d \in Actors \ {c} : ~Busy(d)
Quiet == jobs = {} /\ \A c \in Actors : ~Busy(c)

\* A turn adds to the count it read what finalize_turn added since.
CountOf(c) == IF c \in Turns THEN snap[c].count + 2 ELSE snap[c].count

WindowEnd(c) == (CountOf(c) \div MessageLimit) * MessageLimit

NextVersion(c) == latest[c].version + 1

Crossed(c) ==
  /\ CountOf(c) \div MessageLimit > snap[c].last \div MessageLimit
  /\ CountOf(c) >= MessageLimit

\* The end of a coroutine, and of its locals.
Leave(c, how) ==
  /\ pc' = [pc EXCEPT ![c] = how]
  /\ number' = [number EXCEPT ![c] = 0]
  /\ snap' = [snap EXCEPT ![c] = Unread]
  /\ latest' = [latest EXCEPT ![c] = NoSummary]

-----------------------------------------------------------------------------
(* A turn, as far as numbers and counts go *)

\* A socket's receive loop awaits the turn it started.
DeviceFree(t) == \A u \in Turns : DeviceOf[u] = DeviceOf[t] => ~Busy(u)

TakeNumber(t) ==
  /\ pc[t] = "idle"
  /\ t \in Turns => DeviceFree(t)
  /\ \E n \in NextSeqs : number' = [number EXCEPT ![t] = n]
  /\ pc' = [pc EXCEPT ![t] = "numbered"]
  /\ smooth' = (smooth /\ Alone(t))
  /\ UNCHANGED <<rows, snap, latest, jobs, life, torn>>

SaveUser(t) ==
  /\ t \in Turns
  /\ pc[t] = "numbered"
  /\ seqOf' = [seqOf EXCEPT ![User(t)] = number[t]]
  /\ pc' = [pc EXCEPT ![t] = "saved"]
  /\ UNCHANGED <<messageCount, lastSummarized, summaries, number, snap, latest,
                 jobs, history>>

\* _refresh_relationship_for_context: the row that the rest of the turn uses.
RefreshRelationship(t) ==
  /\ t \in Turns
  /\ pc[t] = "saved"
  /\ snap' = [snap EXCEPT ![t] =
                [count |-> messageCount, last |-> lastSummarized, life |-> life]]
  /\ pc' = [pc EXCEPT ![t] = "fresh"]
  /\ UNCHANGED <<rows, number, latest, jobs, history>>

SaveReply(t) ==
  /\ t \in Turns
  /\ pc[t] = "fresh"
  /\ seqOf' = [seqOf EXCEPT ![Reply(t)] = number[t] + 1]
  /\ pc' = [pc EXCEPT ![t] = "answered"]
  /\ number' = [number EXCEPT ![t] = 0]
  /\ UNCHANGED <<messageCount, lastSummarized, summaries, snap, latest, jobs, history>>

FinalizeTurn(t) ==
  /\ t \in Turns
  /\ pc[t] = "answered"
  /\ messageCount' = messageCount + 2
  /\ pc' = [pc EXCEPT ![t] = "counted"]
  /\ UNCHANGED <<seqOf, lastSummarized, summaries, number, snap, latest, jobs, history>>

\* The context or the LLM raises: the user's row stays, nothing is counted.
FailTurn(t) ==
  /\ t \in Turns
  /\ pc[t] = "fresh"
  /\ Leave(t, "failed")
  /\ UNCHANGED <<rows, jobs, history>>

\* PostTurnExecutor._send_proactive_message inserts a row and counts nothing.
SavePush(p) ==
  /\ p \in Pushes
  /\ pc[p] = "numbered"
  /\ seqOf' = [seqOf EXCEPT ![Push(p)] = number[p]]
  /\ Leave(p, "done")
  /\ UNCHANGED <<messageCount, lastSummarized, summaries, jobs, history>>

-----------------------------------------------------------------------------
(* The dispatch of a summary, by a turn or by the endpoint *)

\* trigger_summarization reads the relationship it is asked about.
Ask(r) ==
  /\ pc[r] = "idle"
  /\ snap' = [snap EXCEPT ![r] =
                [count |-> messageCount, last |-> lastSummarized, life |-> life]]
  /\ pc' = [pc EXCEPT ![r] = "counted"]
  /\ smooth' = (smooth /\ Alone(r))
  /\ UNCHANGED <<rows, number, latest, jobs, life, torn>>

\* dispatch_summarization_if_needed, up to the latest summary it reads.
Look(c) ==
  /\ pc[c] = "counted"
  /\ IF Crossed(c)
       THEN /\ latest' = [latest EXCEPT ![c] =
                 [version |-> LatestVersion, covers |-> Known]]
            /\ pc' = [pc EXCEPT ![c] = "looked"]
            /\ UNCHANGED <<number, snap>>
       ELSE Leave(c, "done")
  /\ UNCHANGED <<rows, jobs, history>>

\* The messages of the range, and the job; an empty range or a spawn that
\* raises leaves nothing but a warning.
Spawn(c) ==
  /\ pc[c] = "looked"
  /\ Leave(c, "done")
  /\ LET fetched == InRange(snap[c].last + 1, WindowEnd(c))
         job == [by |-> c, version |-> NextVersion(c),
                 summary |-> [from |-> snap[c].last + 1, to |-> WindowEnd(c),
                              covers |-> latest[c].covers \cup fetched,
                              life |-> snap[c].life]] IN
       \/ /\ fetched # {}
          /\ jobs' = jobs \cup {job}
          /\ smooth' = (smooth /\ jobs = {})
       \/ /\ UNCHANGED jobs
          /\ smooth' = (smooth /\ fetched = {})
  /\ UNCHANGED <<rows, life, torn>>

-----------------------------------------------------------------------------
(* The worker and the gateway *)

StoreSummary(j) ==
  /\ summaries' = [v \in DOMAIN summaries \cup {j.version} |->
                     IF v = j.version THEN j.summary ELSE summaries[v]]
  /\ lastSummarized' = j.summary.to

\* A slip: the version of a summary is upserted.
LandOver(j) ==
  /\ j \in jobs
  /\ StoreSummary(j)
  /\ jobs' = jobs \ {j}
  /\ UNCHANGED <<seqOf, messageCount, caller, history>>

\* create_relationship_summary: the row and the relationship in one
\* transaction, which the unique key (relationship_id, version) may abort.
Land(j) ==
  /\ j \in jobs
  /\ j.version \notin DOMAIN summaries
  /\ StoreSummary(j)
  /\ jobs' = jobs \ {j}
  /\ UNCHANGED <<seqOf, messageCount, caller, history>>

\* The LLM fails, or the key is taken: the text is lost, nothing is retried.
Lose(j) ==
  /\ j \in jobs
  /\ jobs' = jobs \ {j}
  /\ smooth' = FALSE
  /\ UNCHANGED <<rows, caller, life, torn>>

-----------------------------------------------------------------------------
(* reset_test_user_conversation, reset_test_user_profile *)

\* A slip: the columns of the relationship are forgotten.
ResetRowsOnly ==
  /\ life < MaxResets
  /\ seqOf' = [m \in Message |-> 0]
  /\ summaries' = <<>>
  /\ life' = life + 1
  /\ torn' = (torn \/ ~Quiet)
  /\ smooth' = (smooth /\ Quiet)
  /\ UNCHANGED <<messageCount, lastSummarized, caller, jobs>>

\* One transaction; turns and spawned jobs are not told.
ResetRelationship ==
  /\ life < MaxResets
  /\ seqOf' = [m \in Message |-> 0]
  /\ summaries' = <<>>
  /\ messageCount' = 0
  /\ lastSummarized' = 0
  /\ life' = life + 1
  /\ torn' = (torn \/ ~Quiet)
  /\ smooth' = (smooth /\ Quiet)
  /\ UNCHANGED <<caller, jobs>>

-----------------------------------------------------------------------------

TurnStep(t) ==
  \/ TakeNumber(t) \/ SaveUser(t) \/ RefreshRelationship(t) \/ SaveReply(t)
  \/ FinalizeTurn(t) \/ FailTurn(t) \/ Look(t) \/ Spawn(t)

PushStep(p) == TakeNumber(p) \/ SavePush(p)

RequestStep(r) == Ask(r) \/ Look(r) \/ Spawn(r)

SummariesNext ==
  \/ \E t \in Turns : TurnStep(t)
  \/ \E p \in Pushes : PushStep(p)
  \/ \E r \in Askers : RequestStep(r)
  \/ \E j \in jobs : Land(j) \/ Lose(j)
  \/ ResetRelationship

SummariesSpec == SummariesInit /\ [][SummariesNext]_summariesVars

-----------------------------------------------------------------------------
(* Properties *)

NumbersDiffer == \A m, k \in Rows : m # k => seqOf[m] # seqOf[k]

\* As long as no two messages share a number, a message the relationship counts
\* as summarized is in the text of the latest summary: stale snapshots, windows
\* that are summarized twice, lost jobs and a count that falls back lose nothing.
SummarizedIsKnown ==
  ~torn /\ NumbersDiffer => \A m \in Rows : seqOf[m] <= lastSummarized => m \in Known

\* When turns and jobs came one at a time, none failed and all has come to rest,
\* the messages that the prompt shows nowhere, neither in the newest
\* message_limit rows nor in the summary, are no more than the rows that were
\* never counted (proactive messages, turns that failed).
PromptMissesOnlyUncounted ==
  LET newer(m) == {k \in Rows : seqOf[k] > seqOf[m]}
      missed == {m \in Rows \ Known : Cardinality(newer(m)) >= MessageLimit} IN
    smooth /\ Quiet => Cardinality(missed) <= Cardinality(Rows) - messageCount

\* Without a reset in between a later summary never knows less than the one
\* before it, in whatever order concurrent jobs land.
KnowledgeGrows ==
  [][life' = life /\ ~torn => Known \subseteq Known']_summariesVars

\* docstring of _reset_relationship_runtime_state: "to prevent stale leakage".
\* No summary of what was said before a reset is there after it.
NothingFromBefore == \A v \in DOMAIN summaries : summaries[v].life = life
=============================================================================
