------------------------------ MODULE JobRows ------------------------------
(*****************************************************************************)
(* The rows of news_ai_jobs_v1 and the pure decisions the scheduler makes    *)
(* about them: which rows a lane may claim and in which order.               *)
(* Source: xauusd_news/news/scheduler/state.py.                              *)
(*                                                                           *)
(* A row exists once its identity was enqueued; state "ABSENT" stands for    *)
(* an identity without a row.  Times are natural numbers; one unit is the    *)
(* smallest interval the model tells apart.                                  *)
(*****************************************************************************)
EXTENDS Integers, FiniteSets

CONSTANTS
  Jobs,          \* deterministic job identities
  Workers,       \* account lanes; the lane is the lease owner's identity
  TaskType,      \* the task of a job identity
  IdRank,        \* the order of the job identities (ORDER BY ... job_id)
  LaneOf,        \* the work lane its immutable evidence puts a job in
  PriorityOf,    \* the priority its immutable evidence gives a job
  PoolOf,        \* the credential pool of a lane
  LEASE,         \* lease_seconds
  HEAD_START,    \* PRIORITY_HEAD_START
  IDLE_WAIT,     \* IDLE_CAPACITY_MAX_WAIT
  NoWorker       \* NULL in lease_owner

TASKS == {"ACTIVE_ANNOTATION", "ACTIVE_IMPACT", "TITLE_TRANSLATION"}
PRIORITIES == {"IMMEDIATE", "FAST", "NORMAL", "BACKGROUND"}
URGENT == {"IMMEDIATE", "FAST"}
WORK_LANES == {"LIVE", "CONTRACT_BACKFILL"}
POOLS == {"ROUTINE", "PREEMPTIBLE"}

\* The errors that decide a row's future; every other text is "RETRY".
ERRORS == {"NONE", "RETRY", "TERMINAL", "PROHIBITED", "OBSOLETE"}
\* Errors that no recovery and no reconciliation may look past.
RETIRED == {"PROHIBITED", "OBSOLETE"}

WAITING == {"QUEUED", "BACKING_OFF"}
STATES == WAITING \cup {"ABSENT", "LEASED", "COMPLETED", "DEAD_LETTER"}

ASSUME JobRowsAssumption ==
  /\ TaskType \in [Jobs -> TASKS]
  /\ IdRank \in [Jobs -> Nat]
  /\ \A i, j \in Jobs : IdRank[i] = IdRank[j] => i = j
  /\ LaneOf \in [Jobs -> WORK_LANES]
  /\ PriorityOf \in [Jobs -> PRIORITIES]
  /\ \A j \in Jobs : LaneOf[j] = "CONTRACT_BACKFILL" => PriorityOf[j] = "BACKGROUND"
  /\ PoolOf \in [Workers -> POOLS]
  /\ LEASE \in Nat \ {0}
  /\ HEAD_START \in Nat
  /\ IDLE_WAIT \in Nat
  /\ NoWorker \notin Workers

Row == [state : STATES, avail : Nat, owner : Workers \cup {NoWorker},
        expires : Nat, attempts : Nat, error : ERRORS, updated : Nat,
        priority : PRIORITIES]

AbsentRow(j) ==
  [state |-> "ABSENT", avail |-> 0, owner |-> NoWorker, expires |-> 0,
   attempts |-> 0, error |-> "NONE", updated |-> 0, priority |-> PriorityOf[j]]

\* Mutant: the lease columns are not cleared.
StillOwned(row, s, avail, error, t) ==
  [row EXCEPT !.state = s, !.avail = avail, !.error = error, !.updated = t]

\* A row whose lease, if it had one, is given up and whose state is s.
Unleased(row, s, avail, error, t) ==
  [row EXCEPT !.state = s, !.avail = avail, !.owner = NoWorker,
              !.expires = 0, !.error = error, !.updated = t]

\* record_annotation_completion: an annotation stored while its row is not
\* leased completes the row and files it as ordinary work of its lane.
Completed(row, j, t) ==
  [Unleased(row, "COMPLETED", t, "NONE", t) EXCEPT
     !.priority = IF LaneOf[j] = "CONTRACT_BACKFILL" THEN "BACKGROUND" ELSE "NORMAL"]

\* Every claim first returns the expired leases to the queue.
ExpireLeases(rows, t) ==
  [j \in Jobs |->
     IF rows[j].state = "LEASED" /\ rows[j].expires <= t
     THEN Unleased(rows[j], "QUEUED", rows[j].avail, rows[j].error, t)
     ELSE rows[j]]

\* Mutant: a claim ignores the round's cutoff.
ClaimableAnytime(rows, pool, tasks, t, cutoff) ==
  {j \in Jobs : rows[j].state \in WAITING /\ TaskType[j] \in tasks
                /\ rows[j].avail <= t}

\* The rows a lane of this pool may claim at t, in a round cut off at cutoff.
Claimable(rows, pool, tasks, t, cutoff) ==
  {j \in Jobs :
     /\ rows[j].state \in WAITING
     /\ TaskType[j] \in tasks
     /\ rows[j].avail <= t
     /\ rows[j].avail <= cutoff
     /\ pool = "PREEMPTIBLE" => rows[j].priority \in URGENT}

PriorityRank ==
  [IMMEDIATE |-> 0, FAST |-> 1, NORMAL |-> 2, BACKGROUND |-> 3]
TaskRank ==
  [ACTIVE_IMPACT |-> 0, ACTIVE_ANNOTATION |-> 1, TITLE_TRANSLATION |-> 2]

Flag(b) == IF b THEN 0 ELSE 1

\* Mutant: waiting time decides before the work lane does.
OldestFirstKey(j, row, idleSince, t) ==
  << 0, row.avail, 0, 0, 0, 0, 0, 0, 0, IdRank[j] >>

(*****************************************************************************)
(* The ORDER BY of claim_job, as a tuple compared component by component.    *)
(* idleSince is the requested_at of the row's active IDLE_CAPACITY           *)
(* override, or -1 when it has none.                                         *)
(*****************************************************************************)
ClaimKey(j, row, idleSince, t) ==
  LET idle == idleSince >= 0
      aged == row.avail <= t - HEAD_START
  IN << Flag(idle /\ idleSince <= t - IDLE_WAIT),
        Flag(LaneOf[j] = "LIVE"),
        Flag(/\ TaskType[j] = "ACTIVE_ANNOTATION"
             /\ LaneOf[j] = "LIVE"
             /\ row.priority \in URGENT),
        1 - Flag(idle /\ idleSince > t - IDLE_WAIT),
        Flag(aged),
        IF aged THEN row.avail ELSE 0,
        PriorityRank[row.priority],
        TaskRank[TaskType[j]],
        row.avail,
        IdRank[j] >>

Precedes(k, l) ==
  \E i \in 1..10 : k[i] < l[i] /\ \A h \in 1..(i - 1) : k[h] = l[h]

\* j is the row LIMIT 1 selects among the rows of S.
IsFirst(j, S, rows, idleSince, t) ==
  /\ j \in S
  /\ \A k \in S \ {j} :
       Precedes(ClaimKey(j, rows[j], idleSince[j], t),
                ClaimKey(k, rows[k], idleSince[k], t))
=============================================================================
