------------------------------ MODULE JobQueue ------------------------------
(*****************************************************************************)
(* The durable job queue of the news AI scheduler and the processes that     *)
(* drive it: the annotator's sync pass (authorize, discover and enqueue,     *)
(* reconcile, reopen), its account lanes (claim, execute, settle), the       *)
(* operator's retry overrides, and crashes.  Every action is one SQLite      *)
(* transaction or one step between two of them.                              *)
(* Source: xauusd_news/news/scheduler/state.py and runtime.py,               *)
(* news/annotation/content_policy.py, scripts/runtime/run_news_annotator.py  *)
(*****************************************************************************)
EXTENDS JobRows

CONSTANTS
  Content,        \* content hash of the revision a job is about
  Protected,      \* annotation jobs on the daily brief's protected days
  Legacy,         \* jobs left by an earlier release with a failure on record
  Churning,       \* jobs whose revision may be superseded while the model runs
  Requests,       \* operator request identities
  Modes,          \* override modes operators use
  Delays,         \* waits a deferral or a custom schedule may ask for
  PENDING_DELAY,  \* first wait when the current evidence is not available
  LEGACY_RETRY,   \* next_retry_at of a delayed legacy failure
  NoJob,
  MaxTime,        \* bound: the clock
  MaxAttempts,    \* bound: claims per job
  MaxCrashes      \* bound: process crashes

VARIABLES
  now,         \* wall clock
  phase,       \* where the annotator process is in its cycle
  instant,     \* the time sync_pending_jobs was called with, 0 outside it
  cutoff,      \* queued_before of the current round, 0 outside it
  jobs,        \* news_ai_jobs_v1
  overrides,   \* news_ai_retry_schedule_overrides_v1, by request_id
  failure,     \* latest model failure of a job and its recovery grant
  usable,      \* the job's immutable product exists and is usable
  superseded,  \* a newer revision or a preferred cluster peer exists
  marked,      \* content hashes classified as prohibited
  found,       \* rows the current sync pass discovered
  todo,        \* discovered rows not yet enqueued
  worker,      \* what each lane holds in memory
  installed,   \* the annotation contract of this release is installed
  crashes,
  settled,     \* history: jobs settled by their owner in this round
  served       \* history: jobs claimed since their latest recovery grant

vars == <<now, phase, instant, cutoff, jobs, overrides, failure, usable,
          superseded, marked, found, todo, worker, installed, crashes,
          settled, served>>

MODES == {"KEEP_ORIGINAL", "IMMEDIATE", "DELAY", "IDLE_CAPACITY", "CUSTOM"}
PHASES == {"begin", "authorize", "discover", "enqueue", "reconcile",
           "reopen", "synced", "lanes"}
KINDS == {"none", "terminal", "delayed", "fresh"}
OUTCOMES == {"none", "OK", "SKIPPED", "PENDING", "MAINTENANCE", "DEFERRED",
             "FAILED"}
PCS == {"idle", "claimed", "calling", "settle", "done", "failed"}
Contents == {Content[j] : j \in Jobs}
NoGrant == -1

ASSUME JobQueueAssumption ==
  /\ Protected \subseteq {j \in Jobs : TaskType[j] = "ACTIVE_ANNOTATION"}
  /\ Legacy \subseteq Jobs /\ Churning \subseteq Jobs
  /\ Modes \subseteq MODES
  /\ Delays \subseteq Nat
  /\ PENDING_DELAY \in Nat /\ LEGACY_RETRY \in Nat
  /\ MaxTime \in Nat /\ MaxAttempts \in Nat /\ MaxCrashes \in Nat
  /\ NoJob \notin Jobs

Override == [job : Jobs, mode : MODES, at : Nat, original : Nat,
             effective : Nat, active : BOOLEAN]
NoOverride == [job |-> NoJob, mode |-> "none", at |-> 0, original |-> 0,
               effective |-> 0, active |-> FALSE]

Idle == [pc |-> "idle", job |-> NoJob, claim |-> 0, outcome |-> "none"]
Done == [Idle EXCEPT !.pc = "done"]
Failed == [Idle EXCEPT !.pc = "failed"]

IsAnnotation(j) == TaskType[j] = "ACTIVE_ANNOTATION"

-----------------------------------------------------------------------------
(* What the scheduler reads. *)

ActiveFor(j) == {r \in Requests : overrides[r].active /\ overrides[r].job = j}
\* Mutant: the claim forgets to deactivate the overrides it consumes.
KeptActive(S) == overrides

Deactivated(S) ==
  [r \in Requests |->
     IF overrides[r].active /\ overrides[r].job \in S
     THEN [overrides[r] EXCEPT !.active = FALSE] ELSE overrides[r]]

\* requested_at of the active IDLE_CAPACITY override, the claim query's join.
IdleSince ==
  [j \in Jobs |->
     IF \E r \in ActiveFor(j) : overrides[r].mode = "IDLE_CAPACITY"
     THEN overrides[CHOOSE r \in ActiveFor(j) :
                      overrides[r].mode = "IDLE_CAPACITY"].at
     ELSE -1]

\* A legacy failure keeps its record out of the pending readers until granted.
Blocked(j, t) ==
  /\ failure[j].granted = NoGrant
  /\ \/ failure[j].kind = "terminal"
     \/ failure[j].kind = "delayed" /\ LEGACY_RETRY > t

\* Mutant: the pending readers do not look at the prohibited hashes.
PendingMarked(j, t) == ~usable[j] /\ ~superseded[j] /\ ~Blocked(j, t)

Pending(j, t) ==
  /\ ~usable[j] /\ ~superseded[j]
  /\ Content[j] \notin marked
  /\ ~Blocked(j, t)

\* The discovery reader skips annotation identities a live job already owns.
Tracked(j) ==
  \/ jobs[j].state \in WAITING \cup {"LEASED"}
  \/ jobs[j].state = "DEAD_LETTER" /\ jobs[j].error # "OBSOLETE"

Discoverable(t) ==
  {j \in Jobs : Pending(j, t) /\ (IsAnnotation(j) => ~Tracked(j))}

\* Mutant: the update checks the state of the row, not its owner.
OwnedByAnyone(w) == jobs[worker[w].job].state = "LEASED"

Owned(w) ==
  /\ jobs[worker[w].job].state = "LEASED"
  /\ jobs[worker[w].job].owner = w
-----------------------------------------------------------------------------
LegacyRows(j) ==
  {[AbsentRow(j) EXCEPT !.state = "DEAD_LETTER", !.error = "TERMINAL",
                        !.attempts = 1],
   [AbsentRow(j) EXCEPT !.state = "BACKING_OFF", !.error = "RETRY",
                        !.attempts = 1, !.avail = LEGACY_RETRY]}

Rows == UNION {{AbsentRow(j)} \cup LegacyRows(j) : j \in Jobs}

Init ==
  /\ now = 1 /\ phase = "begin" /\ instant = 0 /\ cutoff = 0
  /\ jobs \in [Jobs -> Rows]
  /\ \A j \in Jobs :
       IF j \in Legacy THEN jobs[j] \in LegacyRows(j) ELSE jobs[j] = AbsentRow(j)
  /\ overrides = [r \in Requests |-> NoOverride]
  /\ failure = [j \in Jobs |->
       [kind |-> CASE jobs[j].state = "DEAD_LETTER" -> "terminal"
                   [] jobs[j].state = "BACKING_OFF" -> "delayed"
                   [] OTHER -> "none",
        granted |-> NoGrant]]
  /\ usable = [j \in Jobs |-> FALSE]
  /\ superseded = [j \in Jobs |-> FALSE]
  /\ marked = {} /\ found = {} /\ todo = {}
  /\ worker = [w \in Workers |-> Idle]
  /\ installed = FALSE /\ crashes = 0
  /\ settled = {} /\ served = {}

evidence == <<failure, usable, superseded, marked>>
history == <<settled, served>>
process == <<phase, instant, cutoff, found, todo, crashes>>
-----------------------------------------------------------------------------
(* The annotator's sync pass, sync_pending_jobs. *)

BeginSync ==
  /\ \/ phase \in {"begin", "synced"}
     \/ phase = "lanes" /\ \A w \in Workers : worker[w].pc \in {"done", "failed"}
  /\ phase' = "authorize" /\ instant' = now
  /\ worker' = [w \in Workers |-> Idle]
  /\ cutoff' = 0 /\ settled' = {}
  /\ UNCHANGED <<now, jobs, overrides, evidence, found, todo, installed,
                 crashes, served>>

\* Grants one versioned recovery to each stopped legacy failure and requeues
\* the rows it covers, unless an operator's schedule or a newer update stands.
Grants(j) ==
  /\ failure[j].granted = NoGrant
  /\ Content[j] \notin marked
  /\ \/ failure[j].kind = "terminal"
     \/ failure[j].kind = "delayed" /\ LEGACY_RETRY > instant

Granted(j) == IF Grants(j) THEN [failure[j] EXCEPT !.granted = instant]
                           ELSE failure[j]

\* Mutant: a grant keeps requeueing whatever happened to the row since.
RequeuesAlways(j) ==
  /\ jobs[j].state \in WAITING \cup {"DEAD_LETTER"}
  /\ ActiveFor(j) = {}
  /\ jobs[j].error \notin RETIRED
  /\ Granted(j).granted # NoGrant

\* Mutant: recovery does not look for an operator's schedule.
RequeuesOverridden(j) ==
  /\ jobs[j].state \in WAITING \cup {"DEAD_LETTER"}
  /\ jobs[j].error \notin RETIRED
  /\ Granted(j).granted # NoGrant
  /\ jobs[j].updated < Granted(j).granted

Requeues(j) ==
  /\ jobs[j].state \in WAITING \cup {"DEAD_LETTER"}
  /\ ActiveFor(j) = {}
  /\ jobs[j].error \notin RETIRED
  /\ Granted(j).granted # NoGrant
  /\ jobs[j].updated < Granted(j).granted

Authorize ==
  /\ phase = "authorize" /\ phase' = "discover"
  /\ failure' = [j \in Jobs |-> Granted(j)]
  /\ jobs' = [j \in Jobs |->
       IF Requeues(j) THEN Unleased(jobs[j], "QUEUED", instant, "NONE", instant)
                      ELSE jobs[j]]
  /\ served' = served \ {j \in Jobs : Grants(j)}
  /\ UNCHANGED <<now, instant, cutoff, overrides, usable, superseded, marked,
                 found, todo, worker, installed, crashes, settled>>

Discover ==
  /\ phase = "discover" /\ phase' = "enqueue"
  /\ found' = Discoverable(instant) /\ todo' = Discoverable(instant)
  /\ UNCHANGED <<now, instant, cutoff, jobs, overrides, evidence, worker,
                 installed, crashes, history>>

\* INSERT OR IGNORE, restore the priority of a waiting row, then reopen a
\* COMPLETED annotation, whose priority stays what its completion made it.
EnqueueRow(j) ==
  CASE jobs[j].state = "ABSENT" ->
         [AbsentRow(j) EXCEPT !.state = "QUEUED", !.avail = instant,
                              !.updated = instant]
    [] jobs[j].state \in WAITING -> [jobs[j] EXCEPT !.priority = PriorityOf[j]]
    [] jobs[j].state = "COMPLETED" /\ IsAnnotation(j) ->
         Unleased(jobs[j], "QUEUED", instant, "NONE", instant)
    [] OTHER -> jobs[j]

Enqueue(j) ==
  /\ phase = "enqueue" /\ j \in todo
  /\ jobs' = [jobs EXCEPT ![j] = EnqueueRow(j)]
  /\ todo' = todo \ {j}
  /\ UNCHANGED <<now, phase, instant, cutoff, overrides, evidence, found,
                 worker, installed, crashes, history>>

EndEnqueue ==
  /\ phase = "enqueue" /\ todo = {} /\ phase' = "reconcile"
  /\ UNCHANGED <<now, instant, cutoff, jobs, overrides, evidence, found, todo,
                 worker, installed, crashes, history>>

\* The two UPDATEs of reconcile_completed_jobs, in their order.
\* Mutant: reconciliation leaves leased rows to their workers.
SatisfiedWaiting(row, j, use) ==
  row.state \in WAITING /\ row.error \notin RETIRED /\ use[j]

Satisfied(row, j, use) ==
  /\ row.state \notin {"ABSENT", "COMPLETED"}
  /\ row.error \notin RETIRED
  /\ use[j]

Obsolete(row, j, use) ==
  /\ row.state \in WAITING \cup {"COMPLETED", "DEAD_LETTER"}
  /\ row.error \notin RETIRED
  /\ \/ superseded[j]
     \/ IsAnnotation(j) /\ row.state = "COMPLETED" /\ ~use[j]

Reconciled(old, j, use, t) ==
  LET row == IF Satisfied(old, j, use)
             THEN Unleased(old, "COMPLETED", old.avail, old.error, t)
             ELSE old
  IN IF Obsolete(row, j, use)
     THEN Unleased(row, "DEAD_LETTER", row.avail, "OBSOLETE", t)
     ELSE row

Reconcile ==
  /\ phase = "reconcile" /\ phase' = "reopen"
  /\ jobs' = [j \in Jobs |-> Reconciled(jobs[j], j, usable, instant)]
  /\ UNCHANGED <<now, instant, cutoff, overrides, evidence, found, todo,
                 worker, installed, crashes, history>>

ReopenProtected ==
  /\ phase = "reopen" /\ phase' = "synced"
  /\ jobs' = [j \in Jobs |->
       IF /\ j \in found \cap Protected
          /\ jobs[j].state = "DEAD_LETTER" /\ jobs[j].error = "OBSOLETE"
       THEN Unleased(jobs[j], "QUEUED", instant, "NONE", instant)
       ELSE jobs[j]]
  /\ found' = {} /\ instant' = 0
  /\ UNCHANGED <<now, cutoff, overrides, evidence, todo, worker,
                 installed, crashes, history>>
-----------------------------------------------------------------------------
(* The account lanes of one round. *)

\* The clock moves on between reading queued_before and any later release.
StartLanes ==
  /\ phase = "synced" /\ phase' = "lanes"
  /\ now < MaxTime /\ cutoff' = now /\ now' = now + 1
  /\ UNCHANGED <<instant, jobs, overrides, evidence, found, todo, worker,
                 installed, crashes, history>>

ClaimRows == ExpireLeases(jobs, now)
Offered(w) == Claimable(ClaimRows, PoolOf[w], TASKS, now, cutoff)

Claim(w, j) ==
  /\ phase = "lanes" /\ worker[w].pc = "idle"
  /\ IsFirst(j, Offered(w), ClaimRows, IdleSince, now)
  /\ jobs[j].attempts < MaxAttempts
  /\ jobs' = [ClaimRows EXCEPT ![j].state = "LEASED", ![j].owner = w,
                               ![j].expires = now + LEASE,
                               ![j].attempts = @ + 1, ![j].updated = now]
  /\ overrides' = Deactivated({j})
  /\ worker' = [worker EXCEPT ![w] = [pc |-> "claimed", job |-> j,
                                      claim |-> jobs[j].attempts + 1,
                                      outcome |-> "none"]]
  /\ served' = served \cup {j}
  /\ UNCHANGED <<now, process, evidence, installed, settled>>

\* An empty claim still commits the expiry of leases; it ends the lane.
ClaimNothing(w) ==
  /\ phase = "lanes" /\ worker[w].pc = "idle" /\ Offered(w) = {}
  /\ jobs' = ClaimRows
  /\ worker' = [worker EXCEPT ![w] = Done]
  /\ UNCHANGED <<now, process, overrides, evidence, installed, history>>

\* The lane served its share of the round's maximum.
LaneFull(w) ==
  /\ phase = "lanes" /\ worker[w].pc = "idle"
  /\ worker' = [worker EXCEPT ![w] = Done]
  /\ UNCHANGED <<now, process, jobs, overrides, evidence, installed, history>>

Outcome(w, o) ==
  worker' = [worker EXCEPT ![w].pc = "settle", ![w].outcome = o]

\* _execute_job: the content and evidence checks, then the provider call.
Execute(w) ==
  /\ worker[w].pc = "claimed"
  /\ LET j == worker[w].job IN
       \/ Content[j] \in marked /\ Outcome(w, "SKIPPED")
       \/ Content[j] \notin marked /\ ~Pending(j, now) /\ Outcome(w, "PENDING")
       \/ Pending(j, now) /\ worker' = [worker EXCEPT ![w].pc = "calling"]
  /\ UNCHANGED <<now, process, jobs, overrides, evidence, installed, history>>

Deferred(w, o) ==
  /\ worker[w].pc = "calling" /\ o \in {"MAINTENANCE", "DEFERRED"}
  /\ Outcome(w, o)
  /\ UNCHANGED <<now, process, jobs, overrides, evidence, installed, history>>

\* The product is appended to the ledger before the job is settled.  An
\* annotation's append also completes a row that is no longer leased.
StoreProduct(w) ==
  /\ worker[w].pc = "calling" /\ Outcome(w, "OK")
  /\ LET j == worker[w].job IN
       /\ usable' = [usable EXCEPT ![j] = TRUE]
       /\ jobs' = IF IsAnnotation(j) /\ jobs[j].state # "LEASED"
                  THEN [jobs EXCEPT ![j] = Completed(jobs[j], j, now)] ELSE jobs
  /\ UNCHANGED <<now, process, overrides, failure, superseded, marked,
                 installed, history>>

\* Another lane stored the annotation of the same model first: the primary
\* key refuses the second one and the database error ends the lane.
DuplicateProduct(w) ==
  /\ worker[w].pc = "calling"
  /\ IsAnnotation(worker[w].job) /\ usable[worker[w].job]
  /\ worker' = [worker EXCEPT ![w] = Failed]
  /\ UNCHANGED <<now, process, jobs, overrides, evidence, installed, history>>

RecordFailure(w) ==
  /\ worker[w].pc = "calling" /\ Outcome(w, "FAILED")
  /\ failure' = [failure EXCEPT ![worker[w].job] =
                   [kind |-> "fresh", granted |-> NoGrant]]
  /\ UNCHANGED <<now, process, jobs, overrides, usable, superseded, marked,
                 installed, history>>

\* skip_prohibited_content: mark the hash, retire unleased work about it and
\* deactivate the overrides of everything retired as prohibited.  The failure
\* detail appended afterwards is left out: nothing reads it once c is marked.
ProhibitRow(j, c) ==
  IF Content[j] = c /\ jobs[j].state \in WAITING
  THEN Unleased(jobs[j], "DEAD_LETTER", jobs[j].avail, "PROHIBITED", now)
  ELSE jobs[j]

Prohibit(w) ==
  /\ worker[w].pc = "calling" /\ Outcome(w, "SKIPPED")
  /\ LET c == Content[worker[w].job] IN
       /\ marked' = marked \cup {c}
       /\ jobs' = [j \in Jobs |-> ProhibitRow(j, c)]
       /\ overrides' = Deactivated({j \in Jobs :
              jobs'[j].state = "DEAD_LETTER" /\ jobs'[j].error = "PROHIBITED"})
  /\ UNCHANGED <<now, process, failure, usable, superseded, installed, history>>

\* _transition_leased_job by the owner, and the lane takes its next turn.
Transition(w, row) ==
  /\ Owned(w)
  /\ jobs' = [jobs EXCEPT ![worker[w].job] = row]
  /\ worker' = [worker EXCEPT ![w] = Idle]
  /\ settled' = settled \cup {worker[w].job}
  /\ UNCHANGED <<now, process, overrides, evidence, installed, served>>

Settling(w, o) == worker[w].pc = "settle" /\ worker[w].outcome = o

CompleteJob(w) ==
  /\ Settling(w, "OK")
  /\ Transition(w, Unleased(jobs[worker[w].job], "COMPLETED", now, "NONE", now))

RetireJob(w) ==
  /\ Settling(w, "SKIPPED")
  /\ Transition(w, Unleased(jobs[worker[w].job], "DEAD_LETTER", now,
                            "PROHIBITED", now))

ReleasePending(w) ==
  /\ Settling(w, "PENDING")
  /\ Transition(w, Unleased(jobs[worker[w].job], "QUEUED",
                            now + PENDING_DELAY, "RETRY", now))

DeferForMaintenance(w) ==
  /\ Settling(w, "MAINTENANCE")
  /\ jobs[worker[w].job].attempts > 0
  /\ \E d \in Delays :
       Transition(w, [Unleased(jobs[worker[w].job], "QUEUED", now + d,
                               "RETRY", now) EXCEPT !.attempts = @ - 1])

ReleaseDeferred(w) ==
  /\ Settling(w, "DEFERRED")
  /\ \E d \in Delays :
       Transition(w, Unleased(jobs[worker[w].job], "QUEUED", now + d,
                              "RETRY", now))

ReleaseFailed(w) ==
  /\ Settling(w, "FAILED")
  /\ Transition(w, Unleased(jobs[worker[w].job], "QUEUED", now, "RETRY", now))

\* "scheduler lease is not owned by this worker": the lane ends with an error.
LoseLease(w) ==
  /\ worker[w].pc = "settle" /\ ~Owned(w)
  /\ worker' = [worker EXCEPT ![w] = Failed]
  /\ UNCHANGED <<now, process, jobs, overrides, evidence, installed, history>>

\* A database error ends the lane and leaves its lease to expire.
LaneError(w) ==
  /\ worker[w].pc \in {"claimed", "calling", "settle"}
  /\ crashes < MaxCrashes /\ crashes' = crashes + 1
  /\ worker' = [worker EXCEPT ![w] = Failed]
  /\ UNCHANGED <<now, phase, instant, cutoff, found, todo, jobs, overrides,
                 evidence, installed, history>>

SettleJob(w) ==
  \/ CompleteJob(w) \/ RetireJob(w) \/ ReleasePending(w)
  \/ DeferForMaintenance(w) \/ ReleaseDeferred(w) \/ ReleaseFailed(w)
  \/ LoseLease(w)

ProviderAnswer(w) ==
  \/ StoreProduct(w) \/ DuplicateProduct(w) \/ RecordFailure(w) \/ Prohibit(w)
  \/ \E o \in OUTCOMES : Deferred(w, o)
-----------------------------------------------------------------------------
(* The operator, other processes, time and crashes. *)

EffectiveTime(mode, original, custom) ==
  CASE mode = "KEEP_ORIGINAL" -> original
    [] mode \in {"IMMEDIATE", "IDLE_CAPACITY"} -> now
    [] mode \in {"DELAY", "CUSTOM"} -> custom

\* apply_retry_schedule_override with a matching expectation; every mismatch
\* and every repeated request_id changes nothing.
ApplyOverride(r, j, mode, d) ==
  /\ overrides[r] = NoOverride
  /\ jobs[j].state \in WAITING
  /\ LET first == ActiveFor(j)
         original == IF first = {} THEN jobs[j].avail
                     ELSE overrides[CHOOSE f \in first : TRUE].original
         effective == EffectiveTime(mode, original, now + d)
         record(active) == [job |-> j, mode |-> mode, at |-> now,
                            original |-> original, effective |-> effective,
                            active |-> active]
     IN IF mode = "KEEP_ORIGINAL" /\ first = {}
        THEN /\ overrides' = [overrides EXCEPT ![r] = record(FALSE)]
             /\ UNCHANGED <<jobs, settled>>
        ELSE /\ overrides' = [Deactivated({j}) EXCEPT ![r] = record(TRUE)]
             /\ jobs' = [jobs EXCEPT ![j].avail = effective, ![j].updated = now]
             /\ settled' = settled \ {j}
  /\ UNCHANGED <<now, process, evidence, worker, installed, served>>

Operator ==
  \E r \in Requests, j \in Jobs, mode \in Modes, d \in Delays :
     ApplyOverride(r, j, mode, d)

\* _backfill_current_annotation_completions: the rows of usable annotations
\* that are current become COMPLETED unless leased, retired ones included.
\* (Their times are set to the product's; nothing reads those of a COMPLETED row.)
Bridged(j, use) ==
  IF /\ IsAnnotation(j) /\ use[j] /\ ~superseded[j]
     /\ jobs[j].state \notin {"ABSENT", "LEASED"}
  THEN Completed(jobs[j], j, now) ELSE jobs[j]

\* Opening the ledger under a new contract: annotations it no longer accepts
\* stop being usable, the current ones complete their jobs and the jobs are
\* reconciled in the same transaction.
InstallContract ==
  /\ ~installed /\ installed' = TRUE
  /\ \E R \in SUBSET {j \in Jobs : IsAnnotation(j) /\ usable[j]} :
       usable' = [j \in Jobs |-> usable[j] /\ j \notin R]
  /\ jobs' = [j \in Jobs |-> Reconciled(Bridged(j, usable'), j, usable', now)]
  /\ UNCHANGED <<now, process, overrides, failure, superseded, marked, worker,
                 history>>

\* The collector stores a newer revision, or a preferred peer appears; only
\* an annotation's peer can lose its preference again.
Supersede(j) ==
  /\ superseded' = [superseded EXCEPT ![j] = ~@]
  /\ superseded[j] => IsAnnotation(j)
  /\ UNCHANGED <<now, process, jobs, overrides, failure, usable, marked,
                 worker, installed, history>>

Tick ==
  /\ now < MaxTime /\ now' = now + 1
  /\ UNCHANGED <<process, jobs, overrides, evidence, worker, installed,
                 history>>

\* The process dies between any two transactions and is started again.
Crash ==
  /\ phase # "begin" /\ crashes < MaxCrashes /\ crashes' = crashes + 1
  /\ phase' = "begin" /\ found' = {} /\ todo' = {}
  /\ instant' = 0 /\ cutoff' = 0 /\ settled' = {}
  /\ worker' = [w \in Workers |-> Idle]
  /\ UNCHANGED <<now, jobs, overrides, evidence, installed, served>>

SyncStep ==
  \/ BeginSync \/ Authorize \/ Discover \/ EndEnqueue \/ Reconcile
  \/ ReopenProtected \/ \E j \in Jobs : Enqueue(j)

LaneStep(w) ==
  \/ \E j \in Jobs : Claim(w, j)
  \/ ClaimNothing(w) \/ LaneFull(w)
  \/ Execute(w) \/ ProviderAnswer(w) \/ SettleJob(w)

Next ==
  \/ SyncStep \/ StartLanes
  \/ \E w \in Workers : LaneStep(w) \/ LaneError(w)
  \/ Operator \/ InstallContract \/ Tick \/ Crash
  \/ \E j \in Churning : Supersede(j)

Spec == Init /\ [][Next]_vars


\* The annotator is supervised: its sync pass goes on, a round is started and
\* every lane keeps running until its round ends.
Fairness ==
  /\ WF_vars(SyncStep)
  /\ WF_vars(StartLanes)
  /\ \A w \in Workers : WF_vars(LaneStep(w))

FairSpec == Spec /\ Fairness
-----------------------------------------------------------------------------
(* Properties. *)

\* Every variable stays in its type; times, attempts and grants are naturals.
TypeOK ==
  /\ now \in Nat /\ instant \in Nat /\ cutoff \in Nat /\ crashes \in Nat
  /\ phase \in PHASES /\ installed \in BOOLEAN
  /\ jobs \in [Jobs -> Row]
  /\ overrides \in [Requests -> Override \cup {NoOverride}]
  /\ failure \in [Jobs -> [kind : KINDS, granted : Nat \cup {NoGrant}]]
  /\ usable \in [Jobs -> BOOLEAN] /\ superseded \in [Jobs -> BOOLEAN]
  /\ marked \subseteq Contents
  /\ found \subseteq Jobs /\ todo \subseteq Jobs
  /\ worker \in [Workers -> [pc : PCS, job : Jobs \cup {NoJob}, claim : Nat,
                             outcome : OUTCOMES]]
  /\ settled \subseteq Jobs /\ served \subseteq Jobs

\* A lane that is past its claim remembers the job it claimed.
LaneHoldsJob ==
  \A w \in Workers :
    worker[w].pc \in {"claimed", "calling", "settle"} => worker[w].job \in Jobs

\* A row is leased exactly while it names an owner, and a leased row was
\* counted as an attempt: no path that takes a lease away (expiry, settling,
\* reconciliation, recovery, retirement) leaves half of it behind.
LeaseShape ==
  \A j \in Jobs :
    /\ (jobs[j].state = "LEASED") <=> (jobs[j].owner # NoWorker)
    /\ jobs[j].state = "LEASED" => jobs[j].attempts > 0

\* The lane that passes the owner check of _transition_leased_job executed
\* the latest claim of the row: a lane whose lease expired and was claimed by
\* another, or was reconciled away and reopened, never settles the newer claim.
FenceMatchesClaim ==
  \A w \in Workers :
    worker[w].job # NoJob /\ Owned(w) =>
      jobs[worker[w].job].attempts = worker[w].claim

\* At most one override of a job is active, none is while the job is leased,
\* and none survives the retirement of prohibited content.
OverrideDiscipline ==
  /\ \A r, q \in Requests :
       overrides[r].active /\ overrides[q].active
         /\ overrides[r].job = overrides[q].job => r = q
  /\ \A r \in Requests : overrides[r].active =>
       LET row == jobs[overrides[r].job] IN
         /\ row.state # "LEASED"
         /\ ~(row.state = "DEAD_LETTER" /\ row.error = "PROHIBITED")

\* Finished work about prohibited content never comes back: no discovery,
\* recovery, reconciliation, reopening, operator or stale lane queues or leases
\* a job again that was settled, in whatever way, before or after the marking.
ProhibitedStaysOut ==
  [][\A j \in Jobs :
       /\ Content[j] \in marked
       /\ jobs[j].state \in {"COMPLETED", "DEAD_LETTER"}
       => jobs'[j].state \in {"COMPLETED", "DEAD_LETTER"}]_vars

\* A recovery grant requeues a job at most until the job is claimed: the rows
\* Authorize touches were not claimed since their grant, unless the grant is
\* new in this very step.
RecoverOnce ==
  [][phase = "authorize" /\ phase' = "discover" =>
       \A j \in Jobs : jobs'[j] # jobs[j] => j \notin served']_vars

\* A job its lane has put back in the queue is not claimed again in the same
\* round, unless an operator rescheduled it meanwhile.
OncePerRound ==
  [][\A j \in Jobs :
       jobs[j].attempts < jobs'[j].attempts => j \notin settled]_vars

\* Contract backfill is served ahead of claimable LIVE work only when an
\* operator parked it as idle capacity and it has waited IDLE_WAIT.
LiveFirst ==
  [][\A j \in Jobs :
       /\ jobs[j].attempts < jobs'[j].attempts
       /\ LaneOf[j] = "CONTRACT_BACKFILL"
       /\ \E k \in Offered(jobs'[j].owner) : LaneOf[k] = "LIVE"
       => /\ IdleSince[j] # -1
          /\ now - IdleSince[j] >= IDLE_WAIT]_vars

\* What a lane claims is neither work of its own round nor ahead of LIVE work.
ClaimOrder == OncePerRound /\ LiveFirst

\* The contract of IDLE_CAPACITY: while the override is young, every otherwise
\* claimable job of the pool that is not idle capacity is ordered first.
IdleYields ==
  [][\A j \in Jobs :
       /\ jobs[j].attempts < jobs'[j].attempts
       /\ IdleSince[j] # -1
       /\ now - IdleSince[j] < IDLE_WAIT
       => \A k \in Offered(jobs'[j].owner) : IdleSince[k] # -1]_vars

\* As long as an override stays active and its job stays waiting, no sync pass,
\* recovery or reconciliation moves the time the operator chose.
OverrideStands ==
  [][\A r \in Requests :
       overrides[r].active /\ overrides'[r].active
         /\ jobs[overrides[r].job].state \in WAITING
         /\ jobs'[overrides[r].job].state \in WAITING
       => jobs'[overrides[r].job].avail = jobs[overrides[r].job].avail]_vars

\* What an operator chose is kept while it waits, and a recovery grant moves a
\* job once: no pass moves a row again without a new command or a new grant.
MovesAreAuthorized == OverrideStands /\ RecoverOnce

\* A stored product settles its job: whatever crashed or lost its lease in
\* between, the job ends COMPLETED or retired unless the product is withdrawn.
ProductSettlesJob ==
  \A j \in Jobs :
    (usable[j] /\ jobs[j].state # "ABSENT")
      ~> (jobs[j].state \in {"COMPLETED", "DEAD_LETTER"} \/ ~usable[j])
=============================================================================
