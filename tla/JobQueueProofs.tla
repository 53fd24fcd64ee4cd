--------------------------- MODULE JobQueueProofs ---------------------------
(*****************************************************************************)
(* Proofs about JobQueue for every set of jobs, lanes and requests and       *)
(* every value of the bounds.                                                *)
(*****************************************************************************)
EXTENDS JobQueue, TLAPS

\* Giving up a lease yields a row.
LEMMA UnleasedIsRow ==
  ASSUME NEW row \in Row, NEW s \in STATES, NEW avail \in Nat,
         NEW error \in ERRORS, NEW t \in Nat
  PROVE  Unleased(row, s, avail, error, t) \in Row
  BY DEF Unleased, Row

\* Returning expired leases to the queue keeps a table of rows.
LEMMA ExpireLeasesIsTable ==
  ASSUME NEW rows \in [Jobs -> Row], NEW t \in Nat
  PROVE  ExpireLeases(rows, t) \in [Jobs -> Row]
<1> SUFFICES ASSUME NEW j \in Jobs
             PROVE  (IF rows[j].state = "LEASED" /\ rows[j].expires <= t
                     THEN Unleased(rows[j], "QUEUED", rows[j].avail,
                                   rows[j].error, t)
                     ELSE rows[j]) \in Row
  BY DEF ExpireLeases
<1>1. rows[j] \in Row
  OBVIOUS
<1>2. rows[j].avail \in Nat /\ rows[j].error \in ERRORS
  BY <1>1 DEF Row
<1>3. Unleased(rows[j], "QUEUED", rows[j].avail, rows[j].error, t) \in Row
  BY <1>1, <1>2, UnleasedIsRow DEF STATES, WAITING
<1> QED
  BY <1>1, <1>3

\* An identity without a row has a row's fields.
LEMMA AbsentIsRow ==
  ASSUME NEW j \in Jobs
  PROVE  AbsentRow(j) \in Row
  BY JobRowsAssumption DEF AbsentRow, Row, STATES, ERRORS

\* A stored annotation turns a row into a completed row.
LEMMA CompletedIsRow ==
  ASSUME NEW row \in Row, NEW j \in Jobs, NEW t \in Nat
  PROVE  /\ Completed(row, j, t) \in Row
         /\ Completed(row, j, t).state = "COMPLETED"
         /\ Completed(row, j, t).owner = NoWorker
         /\ Completed(row, j, t).attempts = row.attempts
         /\ Completed(row, j, t).avail = t
<1> DEFINE done == Unleased(row, "COMPLETED", t, "NONE", t)
<1>1. done \in Row
  BY UnleasedIsRow DEF STATES, ERRORS
<1>2. done.state = "COMPLETED" /\ done.owner = NoWorker
       /\ done.attempts = row.attempts /\ done.avail = t
  BY DEF Unleased, Row
<1> HIDE DEF done
<1>3. \A p \in PRIORITIES :
        /\ [done EXCEPT !.priority = p] \in Row
        /\ [done EXCEPT !.priority = p].state = "COMPLETED"
        /\ [done EXCEPT !.priority = p].owner = NoWorker
        /\ [done EXCEPT !.priority = p].attempts = row.attempts
        /\ [done EXCEPT !.priority = p].avail = t
  BY <1>1, <1>2 DEF Row
<1>4. Completed(row, j, t) =
        [done EXCEPT !.priority = IF LaneOf[j] = "CONTRACT_BACKFILL"
                                  THEN "BACKGROUND" ELSE "NORMAL"]
  BY DEF Completed, done
<1> QED
  BY <1>3, <1>4 DEF PRIORITIES

\* Reconciliation turns a row into a row.
LEMMA ReconciledIsRow ==
  ASSUME NEW old \in Row, NEW use, NEW t \in Nat, NEW j \in Jobs
  PROVE  Reconciled(old, j, use, t) \in Row
<1> DEFINE first == IF Satisfied(old, j, use)
                    THEN Unleased(old, "COMPLETED", old.avail, old.error, t)
                    ELSE old
<1>1. old.avail \in Nat /\ old.error \in ERRORS
  BY DEF Row
<1>2. Unleased(old, "COMPLETED", old.avail, old.error, t) \in Row
  BY <1>1, UnleasedIsRow DEF STATES
<1>3. first \in Row
  BY <1>2
<1>4. first.avail \in Nat
  BY <1>3 DEF Row
<1> HIDE DEF first
<1>5. Unleased(first, "DEAD_LETTER", first.avail, "OBSOLETE", t) \in Row
  BY <1>3, <1>4, UnleasedIsRow DEF STATES, ERRORS
<1> USE DEF first
<1> QED
  BY <1>3, <1>5 DEF Reconciled

\* Deactivating overrides keeps a table of overrides.
LEMMA DeactivatedIsTable ==
  ASSUME overrides \in [Requests -> Override \cup {NoOverride}], NEW S
  PROVE  Deactivated(S) \in [Requests -> Override \cup {NoOverride}]
<1> SUFFICES ASSUME NEW r \in Requests
             PROVE  (IF overrides[r].active /\ overrides[r].job \in S
                     THEN [overrides[r] EXCEPT !.active = FALSE]
                     ELSE overrides[r]) \in Override \cup {NoOverride}
  BY DEF Deactivated
<1>1. overrides[r] \in Override \cup {NoOverride}
  OBVIOUS
<1>2. CASE overrides[r] = NoOverride
  BY <1>2 DEF NoOverride
<1>3. CASE overrides[r] \in Override
  <2>1. [overrides[r] EXCEPT !.active = FALSE] \in Override
    BY <1>3 DEF Override
  <2> QED
    BY <1>3, <2>1
<1> QED
  BY <1>1, <1>2, <1>3


TInv == TypeOK /\ LaneHoldsJob

\* The initial state is well typed.
LEMMA InitTyped == Init => TInv
<1> SUFFICES ASSUME Init PROVE TInv
  OBVIOUS
<1> USE JobRowsAssumption, JobQueueAssumption
<1>1. ASSUME NEW j \in Jobs PROVE LegacyRows(j) \subseteq Row
  <2>1. AbsentRow(j) \in Row
    BY AbsentIsRow
  <2>2. [AbsentRow(j) EXCEPT !.state = "DEAD_LETTER", !.error = "TERMINAL",
                             !.attempts = 1] \in Row
    BY <2>1 DEF Row, STATES, ERRORS
  <2>3. [AbsentRow(j) EXCEPT !.state = "BACKING_OFF", !.error = "RETRY",
                             !.attempts = 1, !.avail = LEGACY_RETRY] \in Row
    BY <2>1 DEF Row, STATES, WAITING, ERRORS
  <2> QED
    BY <2>2, <2>3 DEF LegacyRows
<1>2. \A j \in Jobs : jobs[j] \in Row
  BY <1>1, AbsentIsRow DEF Init
<1>3. jobs \in [Jobs -> Row]
  BY <1>2 DEF Init
<1>4. failure \in [Jobs -> [kind : KINDS, granted : Nat \cup {NoGrant}]]
  <2> SUFFICES ASSUME NEW j \in Jobs
               PROVE  (CASE jobs[j].state = "DEAD_LETTER" -> "terminal"
                         [] jobs[j].state = "BACKING_OFF" -> "delayed"
                         [] OTHER -> "none") \in KINDS
    BY DEF Init
  <2> QED
    BY DEF KINDS
<1>5. worker \in [Workers -> [pc : PCS, job : Jobs \cup {NoJob}, claim : Nat,
                              outcome : OUTCOMES]]
  BY DEF Init, Idle, PCS, OUTCOMES
<1>6. LaneHoldsJob
  BY DEF Init, Idle, LaneHoldsJob
<1>7. phase \in PHASES
  BY DEF Init, PHASES
<1> QED
  BY <1>3, <1>4, <1>5, <1>6, <1>7 DEF Init, TInv, TypeOK

\* Every lane that settles its job through the owner check leaves it typed.
LEMMA TransitionTyped ==
  ASSUME TInv, NEW w \in Workers, worker[w].pc = "settle", NEW row \in Row,
         Transition(w, row)
  PROVE  TInv'
<1>0. worker[w].job \in Jobs
  BY DEF TInv, LaneHoldsJob
<1>1. jobs' \in [Jobs -> Row]
  BY DEF Transition, TInv, TypeOK
<1>2. settled' \subseteq Jobs
  BY <1>0 DEF Transition, TInv, TypeOK
<1>3. worker' \in [Workers -> [pc : PCS, job : Jobs \cup {NoJob}, claim : Nat,
                               outcome : OUTCOMES]]
  BY DEF Transition, TInv, TypeOK, Idle, PCS, OUTCOMES
<1>4. LaneHoldsJob'
  BY DEF Transition, TInv, TypeOK, LaneHoldsJob, Idle
<1> QED
  BY <1>1, <1>2, <1>3, <1>4
     DEF Transition, TInv, TypeOK, process, evidence


\* Every step of the sync pass keeps the state well typed.
LEMMA SyncTyped ==
  ASSUME TInv, SyncStep
  PROVE  TInv'
<1> USE JobRowsAssumption, JobQueueAssumption DEF TInv
<1>0. /\ \A j \in Jobs : jobs[j] \in Row
      /\ \A j \in Jobs : jobs[j].avail \in Nat /\ jobs[j].error \in ERRORS
      /\ instant \in Nat
  BY DEF TypeOK, Row
<1>i. Idle \in [pc : PCS, job : Jobs \cup {NoJob}, claim : Nat,
                outcome : OUTCOMES]
  BY DEF Idle, PCS, OUTCOMES
<1>q. \A row \in Row : Unleased(row, "QUEUED", instant, "NONE", instant) \in Row
  BY <1>0, UnleasedIsRow DEF STATES, WAITING, ERRORS
<1>1. CASE BeginSync
  <2>1. worker' \in [Workers -> [pc : PCS, job : Jobs \cup {NoJob}, claim : Nat,
                                 outcome : OUTCOMES]]
    BY <1>1, <1>i DEF BeginSync
  <2>2. LaneHoldsJob'
    BY <1>1 DEF BeginSync, LaneHoldsJob, Idle
  <2> QED
    BY <1>1, <2>1, <2>2 DEF BeginSync, TypeOK, PHASES, evidence
<1>2. CASE Authorize
  <2>1. jobs' \in [Jobs -> Row]
    BY <1>2, <1>0, <1>q DEF Authorize
  <2>2. ASSUME NEW j \in Jobs
        PROVE  Granted(j) \in [kind : KINDS, granted : Nat \cup {NoGrant}]
    BY <1>0 DEF Granted, TypeOK
  <2>3. failure' \in [Jobs -> [kind : KINDS, granted : Nat \cup {NoGrant}]]
    BY <1>2, <2>2 DEF Authorize
  <2>4. LaneHoldsJob'
    BY <1>2 DEF Authorize, LaneHoldsJob
  <2> QED
    BY <1>2, <2>1, <2>3, <2>4 DEF Authorize, TypeOK, PHASES
<1>3. CASE Discover
  <2>1. LaneHoldsJob'
    BY <1>3 DEF Discover, LaneHoldsJob
  <2> QED
    BY <1>3, <2>1 DEF Discover, Discoverable, TypeOK, PHASES, evidence, history
<1>4. CASE EndEnqueue
  BY <1>4 DEF EndEnqueue, TypeOK, PHASES, evidence, history, LaneHoldsJob
<1>5. CASE Reconcile
  <2>1. jobs' \in [Jobs -> Row]
    BY <1>5, <1>0, ReconciledIsRow DEF Reconcile
  <2>2. LaneHoldsJob'
    BY <1>5 DEF Reconcile, LaneHoldsJob
  <2> QED
    BY <1>5, <2>1, <2>2 DEF Reconcile, TypeOK, PHASES, evidence, history
<1>6. CASE ReopenProtected
  <2>1. jobs' \in [Jobs -> Row]
    BY <1>6, <1>0, <1>q DEF ReopenProtected
  <2>2. LaneHoldsJob'
    BY <1>6 DEF ReopenProtected, LaneHoldsJob
  <2> QED
    BY <1>6, <2>1, <2>2 DEF ReopenProtected, TypeOK, PHASES, evidence, history
<1>7. ASSUME NEW j \in Jobs, Enqueue(j) PROVE TInv'
  <2>1. [AbsentRow(j) EXCEPT !.state = "QUEUED", !.avail = instant,
                             !.updated = instant] \in Row
    <3>1. AbsentRow(j) \in Row
      BY AbsentIsRow
    <3> QED
      BY <3>1, <1>0 DEF Row, STATES, WAITING
  <2>i. [jobs[j] EXCEPT !.priority = PriorityOf[j]] \in Row
    BY <1>0 DEF Row
  <2>2. EnqueueRow(j) \in Row
    BY <2>1, <2>i, <1>0, <1>q DEF EnqueueRow
  <2>3. jobs' \in [Jobs -> Row]
    BY <1>7, <2>2 DEF Enqueue, TypeOK
  <2>4. LaneHoldsJob'
    BY <1>7 DEF Enqueue, LaneHoldsJob
  <2> QED
    BY <1>7, <2>3, <2>4 DEF Enqueue, TypeOK, evidence, history
<1> QED
  BY <1>1, <1>2, <1>3, <1>4, <1>5, <1>6, <1>7 DEF SyncStep


\* A claim, the provider's answer and the settlement keep the state well typed.
LEMMA LaneTyped ==
  ASSUME TInv, NEW w \in Workers, LaneStep(w)
  PROVE  TInv'
<1> USE JobRowsAssumption, JobQueueAssumption DEF TInv
<1> DEFINE WorkerRec == [pc : PCS, job : Jobs \cup {NoJob}, claim : Nat,
                         outcome : OUTCOMES]
<1>0. /\ jobs \in [Jobs -> Row] /\ now \in Nat
      /\ worker \in [Workers -> WorkerRec]
      /\ \A j \in Jobs : jobs[j].attempts \in Nat
  BY DEF TypeOK, Row
<1>r. ClaimRows \in [Jobs -> Row]
  BY <1>0, ExpireLeasesIsTable DEF ClaimRows
<1>d. Done \in WorkerRec /\ Failed \in WorkerRec
  BY DEF Done, Failed, Idle, PCS, OUTCOMES
<1>u. ASSUME NEW j \in Jobs, NEW s \in STATES, NEW d \in Nat,
             NEW e \in ERRORS
      PROVE  Unleased(jobs[j], s, now + d, e, now) \in Row
  BY <1>0, UnleasedIsRow
<1>h. worker[w].pc \in {"claimed", "calling", "settle"} => worker[w].job \in Jobs
  BY DEF LaneHoldsJob
<1>1. ASSUME NEW j \in Jobs, Claim(w, j) PROVE TInv'
  <2>1. jobs' \in [Jobs -> Row]
    <3>1. ClaimRows[j] \in Row
      BY <1>r
    <3>2. [ClaimRows[j] EXCEPT !.state = "LEASED", !.owner = w,
              !.expires = now + LEASE, !.attempts = @ + 1, !.updated = now]
            \in Row
      <4>1. ClaimRows[j].attempts + 1 \in Nat /\ now + LEASE \in Nat
        BY <3>1, <1>0 DEF Row
      <4> QED
        BY <3>1, <4>1, <1>0 DEF Row, STATES
    <3> QED
      BY <1>1, <1>r, <3>1, <3>2 DEF Claim, Row, STATES
  <2>2. overrides' \in [Requests -> Override \cup {NoOverride}]
    BY <1>1, DeactivatedIsTable DEF Claim, TypeOK
  <2>3. [pc |-> "claimed", job |-> j, claim |-> jobs[j].attempts + 1,
         outcome |-> "none"] \in WorkerRec
    BY <1>0 DEF PCS, OUTCOMES
  <2>4. worker' \in [Workers -> WorkerRec]
    BY <1>1, <1>0, <2>3 DEF Claim
  <2>5. LaneHoldsJob'
    BY <1>1, <1>0 DEF Claim, LaneHoldsJob
  <2> QED
    BY <1>1, <2>1, <2>2, <2>4, <2>5 DEF Claim, TypeOK, process, evidence
<1>2. CASE ClaimNothing(w)
  <2>1. LaneHoldsJob'
    BY <1>2, <1>0 DEF ClaimNothing, LaneHoldsJob, Done, Idle
  <2> QED
    BY <1>2, <1>0, <1>r, <1>d, <2>1
       DEF ClaimNothing, TypeOK, process, evidence, history
<1>3. CASE LaneFull(w)
  <2>1. LaneHoldsJob'
    BY <1>3, <1>0 DEF LaneFull, LaneHoldsJob, Done, Idle
  <2> QED
    BY <1>3, <1>0, <1>d, <2>1 DEF LaneFull, TypeOK, process, evidence, history
<1>o. ASSUME NEW o \in OUTCOMES, Outcome(w, o), worker[w].job \in Jobs
      PROVE  worker' \in [Workers -> WorkerRec] /\ LaneHoldsJob'
  <2>1. [worker[w] EXCEPT !.pc = "settle", !.outcome = o] \in WorkerRec
    <3>1. worker[w] \in WorkerRec
      BY <1>0
    <3> QED
      BY <3>1, <1>o DEF PCS
  <2>2. worker' = [worker EXCEPT ![w] =
                     [worker[w] EXCEPT !.pc = "settle", !.outcome = o]]
    BY <1>o, <1>0 DEF Outcome
  <2>3. worker' \in [Workers -> WorkerRec]
    BY <2>1, <2>2, <1>0
  <2>4. ASSUME NEW v \in Workers PROVE worker'[v].job = worker[v].job
    BY <2>2, <1>0
  <2>5. ASSUME NEW v \in Workers, v # w PROVE worker'[v] = worker[v]
    BY <2>2, <2>5, <1>0
  <2> QED
    BY <1>o, <2>3, <2>4, <2>5 DEF LaneHoldsJob
<1>4. CASE Execute(w)
  <2>1. worker' \in [Workers -> WorkerRec] /\ LaneHoldsJob'
    <3>1. CASE \E o \in {"SKIPPED", "PENDING"} : Outcome(w, o)
      BY <3>1, <1>o, <1>4, <1>h DEF Execute, OUTCOMES
    <3>2. CASE worker' = [worker EXCEPT ![w].pc = "calling"]
      BY <3>2, <1>4, <1>0, <1>h DEF Execute, LaneHoldsJob, PCS
    <3> QED
      BY <3>1, <3>2, <1>4 DEF Execute
  <2> QED
    BY <1>4, <2>1 DEF Execute, TypeOK, process, evidence, history
<1>5. ASSUME NEW o \in OUTCOMES, Deferred(w, o) PROVE TInv'
  <2>1. worker' \in [Workers -> WorkerRec] /\ LaneHoldsJob'
    BY <1>5, <1>o, <1>h DEF Deferred
  <2> QED
    BY <1>5, <2>1 DEF Deferred, TypeOK, process, evidence, history
<1>6. CASE StoreProduct(w)
  <2>1. worker' \in [Workers -> WorkerRec] /\ LaneHoldsJob'
    BY <1>6, <1>o, <1>h DEF StoreProduct, OUTCOMES
  <2>2. usable' \in [Jobs -> BOOLEAN]
    BY <1>6 DEF StoreProduct, TypeOK
  <2>3. jobs' \in [Jobs -> Row]
    <3>1. \A j \in Jobs : Completed(jobs[j], j, now) \in Row
      BY <1>0, CompletedIsRow
    <3> QED
      BY <1>6, <1>0, <1>h, <3>1 DEF StoreProduct
  <2> QED
    BY <1>6, <2>1, <2>2, <2>3 DEF StoreProduct, TypeOK, process, history
<1>10. CASE DuplicateProduct(w)
  <2>1. LaneHoldsJob'
    BY <1>10, <1>0 DEF DuplicateProduct, LaneHoldsJob, Failed, Idle
  <2> QED
    BY <1>10, <1>0, <1>d, <2>1
       DEF DuplicateProduct, TypeOK, process, evidence, history
<1>7. CASE RecordFailure(w)
  <2>1. worker' \in [Workers -> WorkerRec] /\ LaneHoldsJob'
    BY <1>7, <1>o, <1>h DEF RecordFailure, OUTCOMES
  <2>2. failure' \in [Jobs -> [kind : KINDS, granted : Nat \cup {NoGrant}]]
    BY <1>7 DEF RecordFailure, TypeOK, KINDS
  <2> QED
    BY <1>7, <2>1, <2>2 DEF RecordFailure, TypeOK, process, history
<1>8. CASE Prohibit(w)
  <2>1. worker' \in [Workers -> WorkerRec] /\ LaneHoldsJob'
    BY <1>8, <1>o, <1>h DEF Prohibit, OUTCOMES
  <2>2. ASSUME NEW j \in Jobs, NEW c PROVE ProhibitRow(j, c) \in Row
    <3>1. jobs[j] \in Row /\ jobs[j].avail \in Nat
      BY <1>0 DEF Row
    <3>2. Unleased(jobs[j], "DEAD_LETTER", jobs[j].avail, "PROHIBITED", now)
            \in Row
      BY <3>1, <1>0, UnleasedIsRow DEF STATES, ERRORS
    <3> QED
      BY <3>1, <3>2 DEF ProhibitRow
  <2>3. jobs' \in [Jobs -> Row]
    BY <1>8, <2>2 DEF Prohibit
  <2>4. overrides' \in [Requests -> Override \cup {NoOverride}]
    BY <1>8, DeactivatedIsTable DEF Prohibit, TypeOK
  <2>5. marked' \subseteq Contents
    BY <1>8, <1>h DEF Prohibit, TypeOK, Contents
  <2> QED
    BY <1>8, <2>1, <2>3, <2>4, <2>5 DEF Prohibit, TypeOK, process, history
<1>9. CASE SettleJob(w)
  <2>1. worker[w].pc = "settle" /\ worker[w].job \in Jobs
    BY <1>9, <1>h DEF SettleJob, CompleteJob, RetireJob, ReleasePending,
       DeferForMaintenance, ReleaseDeferred, ReleaseFailed, LoseLease, Settling
  <2>2. jobs[worker[w].job] \in Row
    BY <2>1, <1>0
  <2>u. ASSUME NEW s \in STATES, NEW a \in Nat, NEW e \in ERRORS
        PROVE  Unleased(jobs[worker[w].job], s, a, e, now) \in Row
    BY <2>2, <1>0, UnleasedIsRow
  <2>3. CASE CompleteJob(w)
    BY <2>1, <2>3, <2>u, <1>0, TransitionTyped DEF CompleteJob, STATES, ERRORS
  <2>4. CASE RetireJob(w)
    BY <2>1, <2>4, <2>u, <1>0, TransitionTyped DEF RetireJob, STATES, ERRORS
  <2>5. CASE ReleasePending(w)
    BY <2>1, <2>5, <2>u, <1>0, TransitionTyped
       DEF ReleasePending, STATES, WAITING, ERRORS
  <2>6. CASE DeferForMaintenance(w)
    <3>1. PICK d \in Delays :
            Transition(w, [Unleased(jobs[worker[w].job], "QUEUED", now + d,
                               "RETRY", now) EXCEPT !.attempts = @ - 1])
      BY <2>6 DEF DeferForMaintenance
    <3>2. now + d \in Nat
      BY <1>0
    <3>3. Unleased(jobs[worker[w].job], "QUEUED", now + d, "RETRY", now) \in Row
      BY <2>u, <3>2 DEF STATES, WAITING, ERRORS
    <3>4. Unleased(jobs[worker[w].job], "QUEUED", now + d, "RETRY", now).attempts
            = jobs[worker[w].job].attempts
      BY <2>2 DEF Unleased, Row
    <3>5. jobs[worker[w].job].attempts - 1 \in Nat
      BY <2>1, <2>6, <1>0 DEF DeferForMaintenance
    <3>6. [Unleased(jobs[worker[w].job], "QUEUED", now + d, "RETRY", now)
             EXCEPT !.attempts = @ - 1] \in Row
      BY <3>3, <3>4, <3>5 DEF Row
    <3> QED
      BY <2>1, <3>1, <3>6, TransitionTyped
  <2>7. CASE ReleaseDeferred(w)
    <3>1. PICK d \in Delays :
            Transition(w, Unleased(jobs[worker[w].job], "QUEUED", now + d,
                                   "RETRY", now))
      BY <2>7 DEF ReleaseDeferred
    <3>2. now + d \in Nat
      BY <1>0
    <3> QED
      BY <2>1, <3>1, <3>2, <2>u, TransitionTyped DEF STATES, WAITING, ERRORS
  <2>8. CASE ReleaseFailed(w)
    BY <2>1, <2>8, <2>u, <1>0, TransitionTyped
       DEF ReleaseFailed, STATES, WAITING, ERRORS
  <2>9. CASE LoseLease(w)
    <3>1. LaneHoldsJob'
      BY <2>9, <1>0 DEF LoseLease, LaneHoldsJob, Failed, Idle
    <3> QED
      BY <2>9, <1>0, <1>d, <3>1 DEF LoseLease, TypeOK, process, evidence, history
  <2> QED
    BY <1>9, <2>3, <2>4, <2>5, <2>6, <2>7, <2>8, <2>9 DEF SettleJob
<1> QED
  BY <1>1, <1>2, <1>3, <1>4, <1>5, <1>6, <1>7, <1>8, <1>9, <1>10
     DEF LaneStep, ProviderAnswer


\* Operators, installs, the collector, time and crashes keep the state typed.
LEMMA EnvironmentTyped ==
  ASSUME TInv,
         \/ StartLanes \/ Operator \/ InstallContract \/ Tick \/ Crash
         \/ \E j \in Churning : Supersede(j)
         \/ \E w \in Workers : LaneError(w)
  PROVE  TInv'
<1> USE JobRowsAssumption, JobQueueAssumption DEF TInv
<1> DEFINE WorkerRec == [pc : PCS, job : Jobs \cup {NoJob}, claim : Nat,
                         outcome : OUTCOMES]
<1>0. /\ jobs \in [Jobs -> Row] /\ now \in Nat
      /\ worker \in [Workers -> WorkerRec]
      /\ overrides \in [Requests -> Override \cup {NoOverride}]
      /\ \A j \in Jobs : jobs[j].avail \in Nat
  BY DEF TypeOK, Row
<1>d. Idle \in WorkerRec /\ Failed \in WorkerRec
  BY DEF Failed, Idle, PCS, OUTCOMES
<1>1. CASE StartLanes
  BY <1>1 DEF StartLanes, TypeOK, PHASES, evidence, history, LaneHoldsJob
<1>2. CASE Tick
  BY <1>2 DEF Tick, TypeOK, process, evidence, history, LaneHoldsJob
<1>3. CASE Crash
  <2>1. LaneHoldsJob'
    BY <1>3 DEF Crash, LaneHoldsJob, Idle
  <2> QED
    BY <1>3, <1>d, <2>1 DEF Crash, TypeOK, PHASES, evidence
<1>4. ASSUME NEW w \in Workers, LaneError(w) PROVE TInv'
  <2>1. LaneHoldsJob'
    BY <1>4, <1>0 DEF LaneError, LaneHoldsJob, Failed, Idle
  <2> QED
    BY <1>4, <1>0, <1>d, <2>1 DEF LaneError, TypeOK, evidence, history
<1>5. ASSUME NEW j \in Churning, Supersede(j) PROVE TInv'
  <2>1. superseded' \in [Jobs -> BOOLEAN]
    BY <1>5 DEF Supersede, TypeOK
  <2>2. LaneHoldsJob'
    BY <1>5 DEF Supersede, LaneHoldsJob
  <2> QED
    BY <1>5, <2>1, <2>2 DEF Supersede, TypeOK, process, history
<1>6. CASE InstallContract
  <2>1. jobs' \in [Jobs -> Row]
    <3>1. \A j \in Jobs : Bridged(j, usable') \in Row
      BY <1>0, CompletedIsRow DEF Bridged
    <3> QED
      BY <1>6, <1>0, <3>1, ReconciledIsRow DEF InstallContract
  <2>2. usable' \in [Jobs -> BOOLEAN]
    BY <1>6 DEF InstallContract, TypeOK
  <2>3. LaneHoldsJob'
    BY <1>6 DEF InstallContract, LaneHoldsJob
  <2> QED
    BY <1>6, <2>1, <2>2, <2>3 DEF InstallContract, TypeOK, process, history
<1>7. ASSUME NEW r \in Requests, NEW j \in Jobs, NEW mode \in Modes,
             NEW d \in Delays, ApplyOverride(r, j, mode, d)
      PROVE  TInv'
  <2> DEFINE first == ActiveFor(j)
             original == IF first = {} THEN jobs[j].avail
                         ELSE overrides[CHOOSE f \in first : TRUE].original
             effective == EffectiveTime(mode, original, now + d)
             record(active) == [job |-> j, mode |-> mode, at |-> now,
                                original |-> original, effective |-> effective,
                                active |-> active]
  <2>1. original \in Nat
    <3>1. CASE first = {}
      BY <3>1, <1>0
    <3>2. CASE first # {}
      <4> DEFINE f == CHOOSE f \in first : TRUE
      <4>1. f \in Requests
        BY <3>2 DEF ActiveFor
      <4>2. overrides[f].original \in Nat
        BY <4>1, <1>0 DEF Override, NoOverride
      <4> QED
        BY <3>2, <4>2
    <3> QED
      BY <3>1, <3>2
  <2> HIDE DEF original
  <2>2. effective \in Nat
    <3>1. now + d \in Nat
      BY <1>0
    <3>2. mode \in MODES
      OBVIOUS
    <3> QED
      BY <2>1, <3>1, <3>2, <1>0 DEF EffectiveTime, MODES
  <2> HIDE DEF effective
  <2>3. \A b \in BOOLEAN : record(b) \in Override
    BY <2>1, <2>2, <1>0 DEF Override
  <2>4. Deactivated({j}) \in [Requests -> Override \cup {NoOverride}]
    BY <1>0, DeactivatedIsTable
  <2> HIDE DEF record
  <2>5. \/ /\ overrides' = [overrides EXCEPT ![r] = record(FALSE)]
           /\ UNCHANGED <<jobs, settled>>
        \/ /\ overrides' = [Deactivated({j}) EXCEPT ![r] = record(TRUE)]
           /\ jobs' = [jobs EXCEPT ![j].avail = effective, ![j].updated = now]
           /\ settled' = settled \ {j}
    BY <1>7 DEF ApplyOverride, record, original, effective
  <2>6. overrides' \in [Requests -> Override \cup {NoOverride}]
    BY <2>3, <2>4, <2>5, <1>0
  <2>7. jobs' \in [Jobs -> Row]
    <3>1. [jobs[j] EXCEPT !.avail = effective, !.updated = now] \in Row
      <4>1. jobs[j] \in Row
        BY <1>0
      <4> QED
        BY <4>1, <2>2, <1>0 DEF Row
    <3>2. CASE jobs' = [jobs EXCEPT ![j].avail = effective, ![j].updated = now]
      <4>1. jobs' = [jobs EXCEPT ![j] =
                       [jobs[j] EXCEPT !.avail = effective, !.updated = now]]
        BY <3>2, <1>0
      <4> QED
        BY <4>1, <3>1, <1>0
    <3> QED
      BY <3>2, <2>5, <1>0
  <2>8. settled' \subseteq Jobs
    BY <2>5 DEF TypeOK
  <2>9. LaneHoldsJob'
    BY <1>7 DEF ApplyOverride, LaneHoldsJob
  <2> QED
    BY <1>7, <2>6, <2>7, <2>8, <2>9 DEF ApplyOverride, TypeOK, process, evidence
<1> QED
  BY <1>1, <1>2, <1>3, <1>4, <1>5, <1>6, <1>7 DEF Operator

\* The type invariant holds in every state of every behaviour, for every
\* choice of jobs, lanes, requests, delays and bounds.
THEOREM TypeCorrect == Spec => []TypeOK
<1>1. TInv /\ UNCHANGED vars => TInv'
  BY DEF TInv, TypeOK, LaneHoldsJob, vars
<1>2. TInv /\ [Next]_vars => TInv'
  BY <1>1, SyncTyped, LaneTyped, EnvironmentTyped DEF Next
<1>3. TInv => TypeOK
  BY DEF TInv
<1> QED
  BY <1>2, <1>3, InitTyped, PTL DEF Spec

-----------------------------------------------------------------------------
(*****************************************************************************)
(* Leases, fencing and retirement.  All rest on what one step may do to a    *)
(* row: apart from a claim, a step leaves the lease of a row alone or takes  *)
(* it away, it counts no attempt, it never stops a row for a model failure,  *)
(* and only the three reopening steps of the sync pass put a settled row     *)
(* back in the queue.                                                        *)
(*****************************************************************************)
\* Stopped by a terminal model failure, which only recovery looks past.
Stopped(row) == row.state = "DEAD_LETTER" /\ row.error \notin RETIRED

SETTLED == {"COMPLETED", "DEAD_LETTER"}

Reopening == Authorize \/ ReopenProtected \/ \E i \in Jobs : Enqueue(i)

Calm(old, new) ==
  /\ \/ new.state # "LEASED" /\ new.owner = NoWorker
     \/ /\ new.state = old.state /\ new.owner = old.owner
        /\ new.attempts = old.attempts
  /\ new.attempts = old.attempts \/ new.attempts < old.attempts
  /\ Stopped(new) => new = old
  /\ old.state \in SETTLED => new.state \in SETTLED \/ Reopening

\* The fields of a row that gave up its lease.
LEMMA UnleasedFields ==
  ASSUME NEW row \in Row, NEW s, NEW avail, NEW error, NEW t
  PROVE  LET u == Unleased(row, s, avail, error, t) IN
           /\ u.state = s /\ u.owner = NoWorker /\ u.error = error
           /\ u.avail = avail /\ u.attempts = row.attempts
  BY DEF Unleased, Row

\* Giving up a lease is calm unless it stops the row or reopens a settled one.
LEMMA UnleasedIsCalm ==
  ASSUME NEW row \in Row, NEW s \in STATES \ {"LEASED"}, NEW avail, NEW error,
         NEW t, s = "DEAD_LETTER" => error \in RETIRED,
         row.state \in SETTLED => s \in SETTLED \/ Reopening
  PROVE  Calm(row, Unleased(row, s, avail, error, t))
  BY UnleasedFields DEF Calm, Stopped

\* Reconciliation is calm.
LEMMA ReconciledIsCalm ==
  ASSUME NEW old \in Row, NEW use, NEW t \in Nat, NEW j \in Jobs
  PROVE  Calm(old, Reconciled(old, j, use, t))
<1> DEFINE first == IF Satisfied(old, j, use)
                    THEN Unleased(old, "COMPLETED", old.avail, old.error, t)
                    ELSE old
<1>1. first \in Row
  <2>1. old.avail \in Nat /\ old.error \in ERRORS
    BY DEF Row
  <2> QED
    BY <2>1, UnleasedIsRow DEF STATES
<1>2. first.attempts = old.attempts
       /\ (first = old \/ (first.state = "COMPLETED" /\ first.owner = NoWorker))
  BY UnleasedFields
<1> HIDE DEF first
<1>3. CASE Obsolete(first, j, use)
  <2>1. Reconciled(old, j, use, t) = Unleased(first, "DEAD_LETTER", first.avail,
                                              "OBSOLETE", t)
    BY <1>3 DEF Reconciled, first
  <2> QED
    BY <1>1, <1>2, <2>1, UnleasedFields DEF Calm, Stopped, RETIRED, SETTLED
<1>4. CASE ~Obsolete(first, j, use)
  <2>1. Reconciled(old, j, use, t) = first
    BY <1>4 DEF Reconciled, first
  <2> QED
    BY <1>2, <2>1 DEF Calm, Stopped, SETTLED
<1> QED
  BY <1>3, <1>4

\* Two calm changes of a row are one.
LEMMA CalmComposes ==
  ASSUME NEW a \in Row, NEW b \in Row, NEW c \in Row, Calm(a, b), Calm(b, c)
  PROVE  Calm(a, c)
<1>1. a.attempts \in Nat /\ b.attempts \in Nat /\ c.attempts \in Nat
  BY DEF Row
<1>2. c.attempts = a.attempts \/ c.attempts < a.attempts
  BY <1>1 DEF Calm
<1> QED
  BY <1>2 DEF Calm

\* Settling through the owner check is calm for every row.
LEMMA TransitionIsCalm ==
  ASSUME TInv, NEW w \in Workers, worker[w].pc = "settle", NEW row \in Row,
         row.state # "LEASED", row.owner = NoWorker, ~Stopped(row),
         \/ row.attempts = jobs[worker[w].job].attempts
         \/ row.attempts < jobs[worker[w].job].attempts,
         Transition(w, row)
  PROVE  \A j \in Jobs : Calm(jobs[j], jobs'[j])
<1> SUFFICES ASSUME NEW j \in Jobs PROVE Calm(jobs[j], jobs'[j])
  OBVIOUS
<1>1. jobs \in [Jobs -> Row] /\ worker[w].job \in Jobs
  BY DEF TInv, TypeOK, LaneHoldsJob
<1>2. CASE j = worker[w].job
  <2>1. jobs'[j] = row /\ jobs[j].state = "LEASED"
    BY <1>1, <1>2 DEF Transition, Owned
  <2> QED
    BY <1>2, <2>1 DEF Calm, SETTLED
<1>3. CASE j # worker[w].job
  BY <1>1, <1>3 DEF Transition, Calm
<1> QED
  BY <1>2, <1>3


\* Every way a lane settles its job is calm.
LEMMA SettleIsCalm ==
  ASSUME TInv, NEW w \in Workers, SettleJob(w)
  PROVE  \A j \in Jobs : Calm(jobs[j], jobs'[j])
<1> USE JobRowsAssumption, JobQueueAssumption
<1>1. worker[w].pc = "settle"
  BY DEF SettleJob, CompleteJob, RetireJob, ReleasePending,
     DeferForMaintenance, ReleaseDeferred, ReleaseFailed, LoseLease, Settling
<1> DEFINE row == jobs[worker[w].job]
<1>2. /\ row \in Row /\ now \in Nat
      /\ row.attempts \in Nat
  BY <1>1 DEF TInv, TypeOK, LaneHoldsJob, Row
<1>p. row = jobs[worker[w].job]
  OBVIOUS
<1> HIDE DEF row
<1>u. ASSUME NEW s \in STATES \ {"LEASED"}, NEW a \in Nat, NEW e \in ERRORS,
             s = "DEAD_LETTER" => e \in RETIRED, Transition(w, Unleased(row, s, a, e, now))
      PROVE  \A j \in Jobs : Calm(jobs[j], jobs'[j])
  <2>1. Unleased(row, s, a, e, now) \in Row
    BY <1>2, UnleasedIsRow
  <2>2. /\ Unleased(row, s, a, e, now).state # "LEASED"
        /\ Unleased(row, s, a, e, now).owner = NoWorker
        /\ ~Stopped(Unleased(row, s, a, e, now))
        /\ Unleased(row, s, a, e, now).attempts = row.attempts
    BY <1>2, <1>u, UnleasedFields DEF Stopped
  <2> QED
    BY <1>1, <1>p, <1>u, <2>1, <2>2, TransitionIsCalm
<1>3. CASE CompleteJob(w)
  BY <1>3, <1>u, <1>2 DEF CompleteJob, STATES, ERRORS, row
<1>4. CASE RetireJob(w)
  BY <1>4, <1>u, <1>2 DEF RetireJob, STATES, ERRORS, RETIRED, row
<1>5. CASE ReleasePending(w)
  BY <1>5, <1>u, <1>2 DEF ReleasePending, STATES, WAITING, ERRORS, row
<1>6. CASE ReleaseDeferred(w)
  BY <1>6, <1>u, <1>2 DEF ReleaseDeferred, STATES, WAITING, ERRORS, row
<1>7. CASE ReleaseFailed(w)
  BY <1>7, <1>u, <1>2 DEF ReleaseFailed, STATES, WAITING, ERRORS, row
<1>8. CASE DeferForMaintenance(w)
  <2>1. PICK d \in Delays :
          Transition(w, [Unleased(row, "QUEUED", now + d, "RETRY", now)
                           EXCEPT !.attempts = @ - 1])
    BY <1>8 DEF DeferForMaintenance, row
  <2> DEFINE u == Unleased(row, "QUEUED", now + d, "RETRY", now)
  <2>2. u \in Row
    BY <1>2, UnleasedIsRow DEF STATES, WAITING, ERRORS
  <2>3. u.state = "QUEUED" /\ u.owner = NoWorker /\ u.attempts = row.attempts
    BY <1>2, UnleasedFields
  <2>4. row.attempts - 1 \in Nat
    BY <1>2, <1>8 DEF DeferForMaintenance, row
  <2> HIDE DEF u
  <2>5. /\ [u EXCEPT !.attempts = @ - 1] \in Row
        /\ [u EXCEPT !.attempts = @ - 1].state # "LEASED"
        /\ [u EXCEPT !.attempts = @ - 1].owner = NoWorker
        /\ ~Stopped([u EXCEPT !.attempts = @ - 1])
        /\ [u EXCEPT !.attempts = @ - 1].attempts < row.attempts
    BY <1>2, <2>2, <2>3, <2>4 DEF Row, Stopped
  <2> QED
    BY <1>1, <1>p, <2>1, <2>5, TransitionIsCalm DEF u
<1>9. CASE LoseLease(w)
  BY <1>9 DEF LoseLease, Calm
<1> QED
  BY <1>3, <1>4, <1>5, <1>6, <1>7, <1>8, <1>9 DEF SettleJob

\* Every step of the sync pass is calm.
LEMMA SyncIsCalm ==
  ASSUME TInv, SyncStep
  PROVE  \A j \in Jobs : Calm(jobs[j], jobs'[j])
<1> SUFFICES ASSUME NEW j \in Jobs PROVE Calm(jobs[j], jobs'[j])
  OBVIOUS
<1> USE JobRowsAssumption
<1>0. jobs \in [Jobs -> Row] /\ jobs[j] \in Row /\ instant \in Nat
  BY DEF TInv, TypeOK
<1>q. Reopening =>
        Calm(jobs[j], Unleased(jobs[j], "QUEUED", instant, "NONE", instant))
  BY <1>0, UnleasedIsCalm DEF STATES, WAITING
<1>1. CASE UNCHANGED jobs
  BY <1>1 DEF Calm
<1>2. CASE Authorize
  <2>1. Reopening
    BY <1>2 DEF Reopening
  <2>2. jobs'[j] = jobs[j] \/
        jobs'[j] = Unleased(jobs[j], "QUEUED", instant, "NONE", instant)
    BY <1>2, <1>0 DEF Authorize
  <2> QED
    BY <2>1, <2>2, <1>q DEF Calm
<1>3. CASE Reconcile
  BY <1>3, <1>0, ReconciledIsCalm DEF Reconcile
<1>4. CASE ReopenProtected
  <2>1. Reopening
    BY <1>4 DEF Reopening
  <2>2. jobs'[j] = jobs[j] \/
        jobs'[j] = Unleased(jobs[j], "QUEUED", instant, "NONE", instant)
    BY <1>4, <1>0 DEF ReopenProtected
  <2> QED
    BY <2>1, <2>2, <1>q DEF Calm
<1>5. ASSUME NEW i \in Jobs, Enqueue(i) PROVE Calm(jobs[j], jobs'[j])
  <2>1. CASE i # j
    BY <1>5, <2>1, <1>0 DEF Enqueue, Calm
  <2>2. CASE i = j
    <3>1. jobs'[j] = EnqueueRow(j)
      BY <1>5, <2>2, <1>0 DEF Enqueue
    <3>2. CASE jobs[j].state = "ABSENT"
      <4>1. jobs'[j] = [AbsentRow(j) EXCEPT !.state = "QUEUED",
                          !.avail = instant, !.updated = instant]
        BY <3>1, <3>2, Zenon DEF EnqueueRow, WAITING
      <4>2. /\ jobs'[j].state = "QUEUED" /\ jobs'[j].owner = NoWorker
            /\ jobs'[j].attempts = 0 /\ jobs[j].attempts \in Nat
        BY <1>0, <4>1 DEF AbsentRow, Row
      <4> QED
        BY <4>2, <3>2 DEF Calm, Stopped, SETTLED
    <3>3. CASE jobs[j].state = "COMPLETED" /\ IsAnnotation(j)
      BY <3>1, <3>3, <1>5, <1>q DEF EnqueueRow, Reopening, WAITING
    <3>5. CASE jobs[j].state \in WAITING
      <4>1. jobs'[j] = [jobs[j] EXCEPT !.priority = PriorityOf[j]]
        BY <3>1, <3>5 DEF EnqueueRow, WAITING
      <4>2. /\ jobs'[j].state = jobs[j].state /\ jobs'[j].owner = jobs[j].owner
            /\ jobs'[j].attempts = jobs[j].attempts
        BY <4>1, <1>0 DEF Row
      <4> QED
        BY <4>2, <3>5 DEF Calm, Stopped, WAITING, SETTLED
    <3>4. CASE /\ jobs[j].state \notin WAITING \cup {"ABSENT"}
               /\ ~(jobs[j].state = "COMPLETED" /\ IsAnnotation(j))
      BY <3>1, <3>4 DEF EnqueueRow, Calm
    <3> QED
      BY <3>2, <3>3, <3>4, <3>5
  <2> QED
    BY <2>1, <2>2
<1> QED
  BY <1>1, <1>2, <1>3, <1>4, <1>5
     DEF SyncStep, BeginSync, Discover, EndEnqueue

\* Apart from a claim, every step is calm for every row.
LEMMA StepIsCalm ==
  ASSUME TInv, [Next]_vars, \A w \in Workers, j \in Jobs : ~Claim(w, j)
  PROVE  \A j \in Jobs : Calm(jobs[j], jobs'[j])
<1> SUFFICES ASSUME NEW j \in Jobs PROVE Calm(jobs[j], jobs'[j])
  OBVIOUS
<1> USE JobRowsAssumption
<1>0. jobs \in [Jobs -> Row] /\ jobs[j] \in Row /\ now \in Nat
  BY DEF TInv, TypeOK
<1>1. CASE UNCHANGED jobs
  BY <1>1 DEF Calm
<1>2. CASE SyncStep
  BY <1>2, SyncIsCalm
<1>3. ASSUME NEW w \in Workers, ClaimNothing(w) PROVE Calm(jobs[j], jobs'[j])
  <2>1. CASE jobs[j].state = "LEASED" /\ jobs[j].expires <= now
    <3>1. jobs'[j] = Unleased(jobs[j], "QUEUED", jobs[j].avail, jobs[j].error, now)
      BY <1>3, <2>1 DEF ClaimNothing, ClaimRows, ExpireLeases
    <3> QED
      BY <3>1, <2>1, <1>0, UnleasedIsCalm DEF STATES, WAITING, SETTLED
  <2>2. CASE ~(jobs[j].state = "LEASED" /\ jobs[j].expires <= now)
    BY <1>3, <2>2 DEF ClaimNothing, ClaimRows, ExpireLeases, Calm
  <2> QED
    BY <2>1, <2>2
<1>4. ASSUME NEW w \in Workers, SettleJob(w) PROVE Calm(jobs[j], jobs'[j])
  BY <1>4, SettleIsCalm
<1>5. ASSUME NEW w \in Workers, Prohibit(w) PROVE Calm(jobs[j], jobs'[j])
  <2>1. ASSUME NEW c PROVE Calm(jobs[j], ProhibitRow(j, c))
    <3>1. CASE Content[j] = c /\ jobs[j].state \in WAITING
      BY <3>1, <1>0, UnleasedIsCalm DEF ProhibitRow, STATES, WAITING, RETIRED, SETTLED
    <3>2. CASE ~(Content[j] = c /\ jobs[j].state \in WAITING)
      BY <3>2 DEF ProhibitRow, Calm
    <3> QED
      BY <3>1, <3>2
  <2> QED
    BY <1>5, <2>1 DEF Prohibit
<1>6. CASE InstallContract
  <2>1. Bridged(j, usable') \in Row /\ Calm(jobs[j], Bridged(j, usable'))
    <3>1. CASE Bridged(j, usable') = jobs[j]
      BY <3>1, <1>0 DEF Calm
    <3>2. CASE Bridged(j, usable') = Completed(jobs[j], j, now)
      BY <3>2, <1>0, CompletedIsRow DEF Calm, Stopped, SETTLED
    <3> QED
      BY <3>1, <3>2 DEF Bridged
  <2>2. jobs'[j] = Reconciled(Bridged(j, usable'), j, usable', now)
    BY <1>6 DEF InstallContract
  <2>3. jobs'[j] \in Row /\ Calm(Bridged(j, usable'), jobs'[j])
    BY <2>1, <2>2, <1>0, ReconciledIsCalm, ReconciledIsRow
  <2> QED
    BY <2>1, <2>3, <1>0, CalmComposes
<1>7. ASSUME NEW r \in Requests, NEW i \in Jobs, NEW mode \in Modes,
             NEW d \in Delays, ApplyOverride(r, i, mode, d)
      PROVE  Calm(jobs[j], jobs'[j])
  <2>1. CASE UNCHANGED jobs
    BY <2>1 DEF Calm
  <2>2. CASE \E t : jobs' = [jobs EXCEPT ![i].avail = t, ![i].updated = now]
    <3>1. PICK t : jobs' = [jobs EXCEPT ![i].avail = t, ![i].updated = now]
      BY <2>2
    <3>2. CASE i # j
      BY <3>1, <3>2, <1>0 DEF Calm
    <3>3. CASE i = j
      <4>1. jobs'[j] = [jobs[j] EXCEPT !.avail = t, !.updated = now]
        BY <3>1, <3>3, <1>0
      <4>2. jobs[j].state \in WAITING
        BY <1>7, <3>3 DEF ApplyOverride
      <4>3. /\ jobs'[j].state = jobs[j].state /\ jobs'[j].owner = jobs[j].owner
            /\ jobs'[j].attempts = jobs[j].attempts
        BY <4>1, <1>0 DEF Row
      <4> QED
        BY <4>2, <4>3 DEF Calm, Stopped, WAITING, SETTLED
    <3> QED
      BY <3>2, <3>3
  <2> QED
    BY <1>7, <2>1, <2>2 DEF ApplyOverride
<1>8. CASE Operator
  BY <1>8, <1>7 DEF Operator
<1>9. ASSUME NEW w \in Workers, LaneStep(w) PROVE Calm(jobs[j], jobs'[j])
  <2>1. CASE LaneFull(w) \/ Execute(w) \/ DuplicateProduct(w)
              \/ RecordFailure(w) \/ \E o \in OUTCOMES : Deferred(w, o)
    BY <2>1, <1>1 DEF LaneFull, Execute, DuplicateProduct, RecordFailure, Deferred
  <2>2. CASE StoreProduct(w)
    <3>1. jobs'[j] = jobs[j] \/ jobs'[j] = Completed(jobs[j], j, now)
      BY <2>2, <1>0 DEF StoreProduct
    <3> QED
      BY <3>1, <1>0, CompletedIsRow DEF Calm, Stopped, SETTLED
  <2> QED
    BY <1>9, <2>1, <2>2, <1>3, <1>4, <1>5 DEF LaneStep, ProviderAnswer
<1>10. CASE \/ StartLanes \/ Tick \/ Crash
            \/ \E w \in Workers : LaneError(w)
            \/ \E i \in Churning : Supersede(i)
  BY <1>10, <1>1 DEF StartLanes, Tick, Crash, LaneError, Supersede
<1>11. CASE UNCHANGED vars
  BY <1>11, <1>1 DEF vars
<1> QED
  BY <1>2, <1>6, <1>8, <1>9, <1>10, <1>11 DEF Next


\* A claim leases one waiting row to one lane; every other row is calm.
LEMMA ClaimRowFacts ==
  ASSUME TInv, NEW w \in Workers, NEW c \in Jobs, Claim(w, c)
  PROVE  /\ jobs'[c].state = "LEASED" /\ jobs'[c].owner = w
         /\ jobs'[c].attempts = jobs[c].attempts + 1
         /\ jobs[c].state \notin SETTLED
         /\ \A j \in Jobs \ {c} : Calm(jobs[j], jobs'[j])
<1> USE JobRowsAssumption
<1>0. /\ jobs \in [Jobs -> Row] /\ now \in Nat
      /\ \A j \in Jobs : jobs[j].attempts \in Nat
  BY DEF TInv, TypeOK, Row
<1>1. ClaimRows \in [Jobs -> Row]
  BY <1>0, ExpireLeasesIsTable DEF ClaimRows
<1>2. ASSUME NEW j \in Jobs
      PROVE  \/ ClaimRows[j] = jobs[j]
             \/ /\ jobs[j].state = "LEASED"
                /\ ClaimRows[j] = Unleased(jobs[j], "QUEUED", jobs[j].avail,
                                           jobs[j].error, now)
  BY DEF ClaimRows, ExpireLeases
<1>3. ASSUME NEW j \in Jobs
      PROVE  /\ Calm(jobs[j], ClaimRows[j])
             /\ ClaimRows[j].attempts = jobs[j].attempts
  <2>1. jobs[j] \in Row
    BY <1>0
  <2>2. CASE ClaimRows[j] = jobs[j]
    BY <2>2 DEF Calm
  <2>3. CASE jobs[j].state = "LEASED" /\ ClaimRows[j] = Unleased(jobs[j],
                 "QUEUED", jobs[j].avail, jobs[j].error, now)
    <3>1. Calm(jobs[j], ClaimRows[j])
      BY <2>1, <2>3, UnleasedIsCalm DEF SETTLED, STATES, WAITING
    <3>2. ClaimRows[j].attempts = jobs[j].attempts
      BY <2>1, <2>3, UnleasedFields
    <3> QED
      BY <3>1, <3>2
  <2> QED
    BY <1>2, <2>2, <2>3
<1>4. c \in Offered(w)
  BY DEF Claim, IsFirst
<1>5. ClaimRows[c].state \in WAITING
  BY <1>4 DEF Offered, Claimable
<1>6. jobs[c].state \notin SETTLED
  BY <1>2, <1>5 DEF SETTLED, WAITING
<1>7. jobs' = [ClaimRows EXCEPT ![c] =
                 [ClaimRows[c] EXCEPT !.state = "LEASED", !.owner = w,
                    !.expires = now + LEASE, !.attempts = @ + 1,
                    !.updated = now]]
  BY <1>1 DEF Claim
<1>8. ClaimRows[c] \in Row
  BY <1>1
<1>9. jobs'[c] = [ClaimRows[c] EXCEPT !.state = "LEASED", !.owner = w,
                    !.expires = now + LEASE, !.attempts = @ + 1,
                    !.updated = now]
  BY <1>1, <1>7
<1>10. /\ jobs'[c].state = "LEASED" /\ jobs'[c].owner = w
       /\ jobs'[c].attempts = ClaimRows[c].attempts + 1
  BY <1>8, <1>9 DEF Row
<1>11. \A j \in Jobs \ {c} : Calm(jobs[j], jobs'[j])
  BY <1>1, <1>3, <1>7
<1> QED
  BY <1>3, <1>6, <1>10, <1>11

\* Apart from a claim, a lane keeps the job and the claim it remembers or
\* forgets both.
LEMMA LaneMemory ==
  ASSUME TInv, [Next]_vars, NEW v \in Workers,
         \A j \in Jobs : ~Claim(v, j)
  PROVE  \/ worker'[v].job = NoJob
         \/ worker'[v].job = worker[v].job /\ worker'[v].claim = worker[v].claim
<1> DEFINE WorkerRec == [pc : PCS, job : Jobs \cup {NoJob}, claim : Nat,
                         outcome : OUTCOMES]
<1> DEFINE Goal == \/ worker'[v].job = NoJob
                   \/ /\ worker'[v].job = worker[v].job
                      /\ worker'[v].claim = worker[v].claim
<1>0. worker \in [Workers -> WorkerRec]
  BY DEF TInv, TypeOK
<1>1. CASE UNCHANGED worker
  BY <1>1
<1>2. CASE worker' = [w \in Workers |-> Idle]
  BY <1>2 DEF Idle
<1>3. ASSUME NEW w \in Workers,
             worker' \in {[worker EXCEPT ![w] = Idle],
                          [worker EXCEPT ![w] = Done],
                          [worker EXCEPT ![w] = Failed]}
      PROVE  Goal
  BY <1>0, <1>3 DEF Idle, Done, Failed
<1>4. ASSUME NEW w \in Workers, NEW p, NEW o,
             \/ worker' = [worker EXCEPT ![w].pc = p]
             \/ worker' = [worker EXCEPT ![w].pc = p, ![w].outcome = o]
      PROVE  Goal
  BY <1>0, <1>4
<1>5. ASSUME NEW w \in Workers, NEW j \in Jobs, Claim(w, j) PROVE Goal
  BY <1>0, <1>5 DEF Claim
<1>6. CASE SyncStep
  BY <1>6, <1>1, <1>2 DEF SyncStep, BeginSync, Authorize, Discover, EndEnqueue,
     Reconcile, ReopenProtected, Enqueue
<1>7. ASSUME NEW w \in Workers, LaneStep(w) PROVE Goal
  <2>1. CASE ClaimNothing(w) \/ LaneFull(w)
    BY <2>1, <1>3 DEF ClaimNothing, LaneFull
  <2>4. CASE DuplicateProduct(w)
    BY <2>4, <1>3 DEF DuplicateProduct
  <2>2. CASE Execute(w) \/ (ProviderAnswer(w) /\ ~DuplicateProduct(w))
    BY <2>2, <1>4 DEF Execute, ProviderAnswer, Deferred, StoreProduct,
       RecordFailure, Prohibit, Outcome
  <2>3. CASE SettleJob(w)
    BY <2>3, <1>3 DEF SettleJob, CompleteJob, RetireJob, ReleasePending,
       DeferForMaintenance, ReleaseDeferred, ReleaseFailed, LoseLease, Transition
  <2> QED
    BY <1>7, <1>5, <2>1, <2>2, <2>3, <2>4 DEF LaneStep
<1>8. CASE \E w \in Workers : LaneError(w)
  BY <1>8, <1>3 DEF LaneError
<1>9. CASE StartLanes \/ Tick \/ InstallContract \/ Operator
            \/ \E j \in Churning : Supersede(j)
  <2>1. UNCHANGED worker
    <3>1. CASE Operator
      <4>1. PICK r \in Requests, j \in Jobs, mode \in Modes, d \in Delays :
              ApplyOverride(r, j, mode, d)
        BY <3>1 DEF Operator
      <4> QED
        BY <4>1 DEF ApplyOverride
    <3>2. CASE \E j \in Churning : Supersede(j)
      BY <3>2, Zenon DEF Supersede
    <3> QED
      BY <1>9, <3>1, <3>2, Zenon DEF StartLanes, Tick, InstallContract
  <2> QED
    BY <2>1, <1>1
<1>10. CASE Crash
  BY <1>10, <1>2 DEF Crash
<1>11. CASE UNCHANGED vars
  BY <1>11, <1>1 DEF vars
<1> QED
  BY <1>6, <1>7, <1>8, <1>9, <1>10, <1>11 DEF Next

\* One step of the specification keeps the type invariant.
LEMMA StepTyped == TInv /\ [Next]_vars => TInv'
<1>1. TInv /\ UNCHANGED vars => TInv'
  BY DEF TInv, TypeOK, LaneHoldsJob, vars
<1> QED
  BY <1>1, SyncTyped, LaneTyped, EnvironmentTyped DEF Next

\* A calm row that is still leased was leased to the same lane by the same claim.
LEMMA CalmLease ==
  ASSUME NEW old, NEW new, Calm(old, new), new.state = "LEASED"
  PROVE  /\ old.state = "LEASED" /\ new.owner = old.owner
         /\ new.attempts = old.attempts
  BY DEF Calm

\* The lease columns stay consistent in every step.
LEMMA LeaseShapeStep ==
  ASSUME TInv, LeaseShape, [Next]_vars
  PROVE  LeaseShape'
<1> USE JobRowsAssumption
<1> DEFINE Shaped(row) == /\ (row.state = "LEASED") <=> (row.owner # NoWorker)
                          /\ row.state = "LEASED" => row.attempts > 0
<1>1. \A j \in Jobs : Shaped(jobs[j]) /\ jobs[j].attempts \in Nat
  BY DEF LeaseShape, TInv, TypeOK, Row
<1>2. ASSUME NEW j \in Jobs, Calm(jobs[j], jobs'[j])
      PROVE  Shaped(jobs'[j])
  BY <1>1, <1>2 DEF Calm
<1>3. CASE \A w \in Workers, c \in Jobs : ~Claim(w, c)
  <2>1. \A j \in Jobs : Calm(jobs[j], jobs'[j])
    BY <1>3, StepIsCalm
  <2> QED
    BY <1>2, <2>1 DEF LeaseShape
<1>4. ASSUME NEW w \in Workers, NEW c \in Jobs, Claim(w, c)
      PROVE  LeaseShape'
  <2>1. /\ jobs'[c].state = "LEASED" /\ jobs'[c].owner = w
        /\ jobs'[c].attempts = jobs[c].attempts + 1
        /\ \A j \in Jobs \ {c} : Calm(jobs[j], jobs'[j])
    BY <1>4, ClaimRowFacts
  <2>2. Shaped(jobs'[c])
    BY <1>1, <2>1
  <2> QED
    BY <1>2, <2>1, <2>2 DEF LeaseShape
<1> QED
  BY <1>3, <1>4

\* The fence stays exact in every step: a claim by another lane changes the
\* owner, every other way out of a lease clears it.
LEMMA FenceStep ==
  ASSUME TInv, TInv', FenceMatchesClaim, [Next]_vars
  PROVE  FenceMatchesClaim'
<1> SUFFICES ASSUME NEW v \in Workers, worker'[v].job # NoJob, Owned(v)'
             PROVE  jobs'[worker'[v].job].attempts = worker'[v].claim
  BY DEF FenceMatchesClaim
<1> DEFINE k == worker'[v].job
<1>1. k \in Jobs
  BY DEF TInv, TypeOK
<1>2. jobs'[k].state = "LEASED" /\ jobs'[k].owner = v
  BY DEF Owned
<1>3. ASSUME Calm(jobs[k], jobs'[k]), worker[v].job = k,
             worker'[v].claim = worker[v].claim
      PROVE  jobs'[k].attempts = worker'[v].claim
  <2>1. /\ jobs[k].state = "LEASED" /\ jobs[k].owner = v
        /\ jobs'[k].attempts = jobs[k].attempts
    BY <1>2, <1>3, CalmLease
  <2>2. Owned(v) /\ worker[v].job # NoJob
    BY <1>3, <2>1 DEF Owned
  <2>3. jobs[k].attempts = worker[v].claim
    BY <1>3, <2>2 DEF FenceMatchesClaim
  <2> QED
    BY <1>3, <2>1, <2>3
<1>4. CASE \A w \in Workers, c \in Jobs : ~Claim(w, c)
  <2>1. Calm(jobs[k], jobs'[k])
    BY <1>1, <1>4, StepIsCalm
  <2>2. worker[v].job = k /\ worker'[v].claim = worker[v].claim
    BY <1>4, LaneMemory
  <2> QED
    BY <1>3, <2>1, <2>2
<1>5. ASSUME NEW w \in Workers, NEW c \in Jobs, Claim(w, c)
      PROVE  jobs'[k].attempts = worker'[v].claim
  <2>1. /\ jobs'[c].owner = w
        /\ jobs'[c].attempts = jobs[c].attempts + 1
        /\ \A j \in Jobs \ {c} : Calm(jobs[j], jobs'[j])
    BY <1>5, ClaimRowFacts
  <2>2. worker' = [worker EXCEPT ![w] = [pc |-> "claimed", job |-> c,
                                         claim |-> jobs[c].attempts + 1,
                                         outcome |-> "none"]]
    BY <1>5 DEF Claim
  <2>3. DOMAIN worker = Workers /\ worker = [u \in Workers |-> worker[u]]
    BY DEF TInv, TypeOK
  <2>4. CASE v = w
    <3>1. k = c /\ worker'[v].claim = jobs[c].attempts + 1
      BY <2>2, <2>3, <2>4
    <3> QED
      BY <2>1, <3>1
  <2>5. CASE v # w
    <3>1. worker'[v] = worker[v]
      BY <2>2, <2>3, <2>5
    <3>2. k # c
      BY <1>2, <2>1, <2>5
    <3> QED
      BY <1>1, <1>3, <2>1, <3>1, <3>2
  <2> QED
    BY <2>4, <2>5
<1> QED
  BY <1>4, <1>5

\* No path that takes a lease away (expiry, settling, reconciliation, recovery,
\* retirement, a crash) leaves half of it behind, for any number of jobs and
\* lanes.
THEOREM LeasesWellFormed == Spec => []LeaseShape
<1>1. Init => LeaseShape
  <2> SUFFICES ASSUME Init, NEW j \in Jobs
               PROVE  jobs[j].state # "LEASED" /\ jobs[j].owner = NoWorker
    BY DEF LeaseShape
  <2>1. jobs[j] \in {AbsentRow(j)} \cup LegacyRows(j)
    BY DEF Init
  <2>2. /\ AbsentRow(j).state # "LEASED" /\ AbsentRow(j).owner = NoWorker
        /\ \A row \in LegacyRows(j) : row.state # "LEASED" /\ row.owner = NoWorker
    BY DEF LegacyRows, AbsentRow
  <2> QED
    BY <2>1, <2>2
<1>2. TInv /\ LeaseShape /\ [Next]_vars => LeaseShape'
  BY LeaseShapeStep
<1> QED
  BY <1>1, <1>2, InitTyped, StepTyped, PTL DEF Spec

\* The lane that passes the owner check of _transition_leased_job executed the
\* latest claim of the row: the owner check is a sound fence although it does
\* not compare the claim's number.
THEOREM FencingIsExact == Spec => []FenceMatchesClaim
<1>1. Init => FenceMatchesClaim
  <2> SUFFICES ASSUME Init, NEW w \in Workers PROVE worker[w].job = NoJob
    BY DEF FenceMatchesClaim
  <2>1. worker[w] = Idle
    BY DEF Init
  <2> QED
    BY <2>1 DEF Idle
<1>2. TInv /\ TInv' /\ FenceMatchesClaim /\ [Next]_vars => FenceMatchesClaim'
  BY FenceStep
<1> QED
  BY <1>1, <1>2, InitTyped, StepTyped, PTL DEF Spec

-----------------------------------------------------------------------------
(*****************************************************************************)
(* Prohibited content stays out.  The three reopening steps read different   *)
(* things: Authorize the failure and the row, Enqueue and ReopenProtected    *)
(* what Discover found some steps ago.  They are safe because a row stopped  *)
(* by an earlier release keeps its ungranted failure, and because no lane    *)
(* can mark content between Discover and ReopenProtected.                    *)
(*****************************************************************************)
ClockRuns == now > 0 /\ (phase = "authorize" => instant > 0)

\* Only a round's lanes execute jobs.
LanesInRound ==
  \A w \in Workers :
    worker[w].pc \in {"claimed", "calling", "settle"} => phase = "lanes"

\* What the pass in progress discovered is not about prohibited content.
FreshFound ==
  /\ found # {} => phase \in {"enqueue", "reconcile", "reopen"}
  /\ todo # {} => phase = "enqueue"
  /\ \A j \in found \cup todo : Content[j] \notin marked

\* A row stopped by a model failure is as the earlier release left it.
StoppedUntouched ==
  \A j \in Jobs : Stopped(jobs[j]) =>
    ActiveFor(j) = {} /\ failure[j].granted = NoGrant /\ jobs[j].updated = 0

OutInv == ClockRuns /\ LanesInRound /\ FreshFound /\ StoppedUntouched

Busy(w) == worker[w].pc \in {"claimed", "calling", "settle"}

\* A step that leaves the annotator's cycle where it is, lets only the lanes
\* of a round get busy and marks content only during a round.
Framed ==
  /\ UNCHANGED <<phase, instant, found, todo>>
  /\ now' = now \/ now' = now + 1
  /\ \A w \in Workers : Busy(w)' => Busy(w) \/ phase = "lanes"
  /\ marked' = marked \/ phase = "lanes"

\* Everything but the sync pass, the start of a round and a crash is framed.
LEMMA FramedSteps ==
  ASSUME TInv, LanesInRound,
         \/ UNCHANGED vars \/ Operator \/ InstallContract \/ Tick
         \/ \E w \in Workers : LaneStep(w) \/ LaneError(w)
         \/ \E j \in Churning : Supersede(j)
  PROVE  Framed
<1> DEFINE WorkerRec == [pc : PCS, job : Jobs \cup {NoJob}, claim : Nat,
                         outcome : OUTCOMES]
<1>0. worker \in [Workers -> WorkerRec]
  BY DEF TInv, TypeOK
<1>1. CASE /\ UNCHANGED <<phase, instant, found, todo, worker, marked>>
           /\ now' = now \/ now' = now + 1
  BY <1>1 DEF Framed, Busy
<1>2. ASSUME NEW w \in Workers, UNCHANGED <<phase, instant, found, todo, now>>,
             NEW rec, worker' = [worker EXCEPT ![w] = rec],
             Busy(w) \/ phase = "lanes" \/ rec = Done \/ rec = Failed,
             marked' = marked \/ phase = "lanes"
      PROVE  Framed
  BY <1>0, <1>2 DEF Framed, Busy, Done, Failed, Idle
<1>3. ASSUME NEW w \in Workers, NEW j \in Jobs, Claim(w, j) PROVE Framed
  BY <1>3, <1>2, Zenon DEF Claim, process, evidence
<1>4. ASSUME NEW w \in Workers, ClaimNothing(w) \/ LaneFull(w) PROVE Framed
  BY <1>4, <1>2, Zenon DEF ClaimNothing, LaneFull, process, evidence
<1>5. ASSUME NEW w \in Workers, NEW o, Outcome(w, o), Busy(w),
             UNCHANGED <<phase, instant, found, todo, now>>
      PROVE  Framed
  <2>1. worker' = [worker EXCEPT ![w] =
                     [worker[w] EXCEPT !.pc = "settle", !.outcome = o]]
    BY <1>0, <1>5 DEF Outcome
  <2>2. phase = "lanes"
    BY <1>5 DEF LanesInRound, Busy
  <2> QED
    BY <1>2, <1>5, <2>1, <2>2
<1>6. ASSUME NEW w \in Workers, Execute(w) PROVE Framed
  <2>1. Busy(w) /\ UNCHANGED <<phase, instant, found, todo, now, marked>>
    BY <1>6 DEF Execute, Busy, process, evidence
  <2>2. CASE worker' = [worker EXCEPT ![w].pc = "calling"]
    <3>1. worker' = [worker EXCEPT ![w] = [worker[w] EXCEPT !.pc = "calling"]]
      BY <1>0, <2>2
    <3> QED
      BY <1>2, <2>1, <3>1
  <2>3. CASE \E o \in {"SKIPPED", "PENDING"} : Outcome(w, o)
    BY <1>5, <2>1, <2>3
  <2> QED
    BY <1>6, <2>2, <2>3 DEF Execute
<1>7. ASSUME NEW w \in Workers, ProviderAnswer(w) PROVE Framed
  <2>1. CASE DuplicateProduct(w)
    BY <2>1, <1>2, Zenon DEF DuplicateProduct, process, evidence
  <2>2. CASE \/ StoreProduct(w) \/ RecordFailure(w) \/ Prohibit(w)
             \/ \E o \in OUTCOMES : Deferred(w, o)
    <3>1. Busy(w) /\ UNCHANGED <<phase, instant, found, todo, now>>
      BY <2>2 DEF Busy, StoreProduct, RecordFailure, Prohibit, Deferred, process
    <3>2. \E o \in OUTCOMES : Outcome(w, o)
      BY <2>2 DEF StoreProduct, RecordFailure, Prohibit, Deferred, OUTCOMES
    <3> QED
      BY <1>5, <3>1, <3>2
  <2> QED
    BY <1>7, <2>1, <2>2 DEF ProviderAnswer
<1>8. ASSUME NEW w \in Workers, SettleJob(w) PROVE Framed
  <2>1. CASE LoseLease(w)
    BY <2>1, <1>2, Zenon DEF LoseLease, process, evidence
  <2>2. CASE ~LoseLease(w)
    <3>1. worker[w].pc = "settle" /\ (\E row : Transition(w, row))
      BY <1>8, <2>2, Zenon DEF SettleJob, CompleteJob, RetireJob,
         ReleasePending, DeferForMaintenance, ReleaseDeferred, ReleaseFailed,
         Settling
    <3>2. worker' = [worker EXCEPT ![w] = Idle]
      BY <3>1 DEF Transition
    <3>3. UNCHANGED <<phase, instant, found, todo, now, marked>>
      BY <3>1 DEF Transition, process, evidence
    <3> QED
      BY <1>2, <3>1, <3>2, <3>3 DEF Busy
  <2> QED
    BY <2>1, <2>2
<1>9. ASSUME NEW w \in Workers, LaneError(w) PROVE Framed
  BY <1>9, <1>2, Zenon DEF LaneError, evidence
<1>10. CASE Operator
  <2>1. PICK r \in Requests, j \in Jobs, mode \in Modes, d \in Delays :
          ApplyOverride(r, j, mode, d)
    BY <1>10 DEF Operator
  <2> QED
    BY <2>1, <1>1, Zenon DEF ApplyOverride, process, evidence
<1>11. CASE InstallContract
  BY <1>11, <1>1, Zenon DEF InstallContract, process
<1>12. CASE Tick
  BY <1>12, <1>1, Zenon DEF Tick, process, evidence
<1>13. CASE \E j \in Churning : Supersede(j)
  BY <1>13, <1>1, Zenon DEF Supersede, process
<1>14. CASE UNCHANGED vars
  BY <1>14, <1>1, Zenon DEF vars
<1> QED
  BY <1>3, <1>4, <1>6, <1>7, <1>8, <1>9, <1>10, <1>11, <1>12, <1>13, <1>14
     DEF LaneStep

\* Every step keeps the annotator's cycle, its lanes and what it found in order.
LEMMA CycleStep ==
  ASSUME TInv, ClockRuns, LanesInRound, FreshFound, [Next]_vars
  PROVE  ClockRuns' /\ LanesInRound' /\ FreshFound'
<1>0. now \in Nat /\ instant \in Nat
  BY DEF TInv, TypeOK
<1>1. CASE Framed
  <2>1. ClockRuns'
    BY <1>0, <1>1 DEF ClockRuns, Framed
  <2>2. LanesInRound'
    BY <1>1 DEF LanesInRound, Framed, Busy
  <2>3. FreshFound'
    BY <1>1 DEF FreshFound, Framed
  <2> QED
    BY <2>1, <2>2, <2>3
<1>2. CASE BeginSync
  <2>1. found = {} /\ todo = {}
    BY <1>2 DEF BeginSync, FreshFound
  <2>2. LanesInRound'
    BY <1>2 DEF BeginSync, LanesInRound, Idle
  <2> QED
    BY <1>0, <1>2, <2>1, <2>2 DEF BeginSync, ClockRuns, FreshFound, evidence
<1>3. CASE Authorize
  BY <1>3 DEF Authorize, ClockRuns, LanesInRound, FreshFound
<1>4. CASE Discover
  <2>1. \A j \in Discoverable(instant) : Content[j] \notin marked
    BY DEF Discoverable, Pending
  <2> QED
    BY <1>4, <2>1 DEF Discover, ClockRuns, LanesInRound, FreshFound, evidence
<1>5. ASSUME NEW j \in Jobs, Enqueue(j)
      PROVE  ClockRuns' /\ LanesInRound' /\ FreshFound'
  BY <1>5 DEF Enqueue, ClockRuns, LanesInRound, FreshFound, evidence
<1>6. CASE EndEnqueue
  BY <1>6 DEF EndEnqueue, ClockRuns, LanesInRound, FreshFound, evidence
<1>7. CASE Reconcile
  BY <1>7 DEF Reconcile, ClockRuns, LanesInRound, FreshFound, evidence
<1>8. CASE ReopenProtected
  BY <1>8 DEF ReopenProtected, ClockRuns, LanesInRound, FreshFound, evidence
<1>9. CASE StartLanes
  BY <1>0, <1>9 DEF StartLanes, ClockRuns, LanesInRound, FreshFound, evidence
<1>10. CASE Crash
  BY <1>10 DEF Crash, ClockRuns, LanesInRound, FreshFound, evidence, Idle
<1> QED
  BY <1>1, <1>2, <1>3, <1>4, <1>5, <1>6, <1>7, <1>8, <1>9, <1>10, FramedSteps
     DEF Next, SyncStep

\* An operator's schedule becomes active on waiting jobs only.
LEMMA OverrideStep ==
  ASSUME TInv, [Next]_vars, NEW j \in Jobs, ActiveFor(j) = {},
         jobs[j].state \notin WAITING
  PROVE  ActiveFor(j)' = {}
<1>0. overrides \in [Requests -> Override \cup {NoOverride}]
  BY DEF TInv, TypeOK
<1>1. CASE UNCHANGED overrides
  BY <1>1 DEF ActiveFor
<1>d. ASSUME NEW S, NEW r \in Requests, Deactivated(S)[r].active
      PROVE  Deactivated(S)[r] = overrides[r]
  <2>1. CASE overrides[r].active /\ overrides[r].job \in S
    <3>1. Deactivated(S)[r] = [overrides[r] EXCEPT !.active = FALSE]
      BY <2>1 DEF Deactivated
    <3>2. overrides[r] \in Override \/ overrides[r] = NoOverride
      BY <1>0
    <3>3. ~[overrides[r] EXCEPT !.active = FALSE].active
      BY <3>2 DEF Override, NoOverride
    <3> QED
      BY <1>d, <3>1, <3>3
  <2>2. CASE ~(overrides[r].active /\ overrides[r].job \in S)
    BY <2>2 DEF Deactivated
  <2> QED
    BY <2>1, <2>2
<1>2. ASSUME NEW S, overrides' = Deactivated(S) PROVE ActiveFor(j)' = {}
  <2>1. \A r \in Requests : overrides'[r].active => overrides'[r] = overrides[r]
    BY <1>2, <1>d
  <2> QED
    BY <2>1 DEF ActiveFor
<1>3. ASSUME NEW r \in Requests, NEW i \in Jobs, NEW mode \in Modes,
             NEW d \in Delays, ApplyOverride(r, i, mode, d)
      PROVE  ActiveFor(j)' = {}
  <2>1. i # j
    BY <1>3 DEF ApplyOverride
  <2>2. PICK rec :
          /\ rec.job = i
          /\ \/ overrides' = [overrides EXCEPT ![r] = rec]
             \/ overrides' = [Deactivated({i}) EXCEPT ![r] = rec]
    <3> DEFINE first == ActiveFor(i)
               original == IF first = {} THEN jobs[i].avail
                           ELSE overrides[CHOOSE f \in first : TRUE].original
               effective == EffectiveTime(mode, original, now + d)
               record(b) == [job |-> i, mode |-> mode, at |-> now,
                             original |-> original, effective |-> effective,
                             active |-> b]
    <3>1. \/ overrides' = [overrides EXCEPT ![r] = record(FALSE)]
          \/ overrides' = [Deactivated({i}) EXCEPT ![r] = record(TRUE)]
      BY <1>3 DEF ApplyOverride
    <3>2. record(FALSE).job = i /\ record(TRUE).job = i
      OBVIOUS
    <3> HIDE DEF record
    <3> QED
      BY <3>1, <3>2
  <2>3. DOMAIN Deactivated({i}) = Requests /\ DOMAIN overrides = Requests
    BY <1>0 DEF Deactivated
  <2>4. overrides'[r] = rec
    BY <2>2, <2>3
  <2>5. ASSUME NEW q \in Requests, q # r, overrides'[q].active
        PROVE  overrides'[q] = overrides[q]
    <3>1. overrides'[q] = overrides[q] \/ overrides'[q] = Deactivated({i})[q]
      BY <2>2, <2>3, <2>5
    <3> QED
      BY <3>1, <2>5, <1>d
  <2> QED
    BY <2>1, <2>2, <2>4, <2>5 DEF ActiveFor
<1>4. CASE SyncStep
  BY <1>4, <1>1 DEF SyncStep, BeginSync, Authorize, Discover, Enqueue,
     EndEnqueue, Reconcile, ReopenProtected
<1>5. ASSUME NEW w \in Workers, LaneStep(w) PROVE ActiveFor(j)' = {}
  <2>1. ASSUME NEW i \in Jobs, Claim(w, i) PROVE ActiveFor(j)' = {}
    BY <2>1, <1>2 DEF Claim
  <2>2. CASE ClaimNothing(w) \/ LaneFull(w) \/ Execute(w)
    BY <2>2, <1>1 DEF ClaimNothing, LaneFull, Execute
  <2>3. CASE ProviderAnswer(w)
    BY <2>3, <1>1, <1>2 DEF ProviderAnswer, StoreProduct, DuplicateProduct,
       RecordFailure, Prohibit, Deferred
  <2>4. CASE SettleJob(w)
    BY <2>4, <1>1 DEF SettleJob, CompleteJob, RetireJob, ReleasePending,
       DeferForMaintenance, ReleaseDeferred, ReleaseFailed, LoseLease, Transition
  <2> QED
    BY <1>5, <2>1, <2>2, <2>3, <2>4 DEF LaneStep
<1>6. CASE \/ StartLanes \/ InstallContract \/ Tick \/ Crash \/ UNCHANGED vars
           \/ \E w \in Workers : LaneError(w)
           \/ \E i \in Churning : Supersede(i)
  BY <1>6, <1>1 DEF StartLanes, InstallContract, Tick, Crash, LaneError,
     Supersede, vars
<1> QED
  BY <1>3, <1>4, <1>5, <1>6 DEF Next, Operator

\* A failure is granted its recovery only by Authorize.
LEMMA GrantStep ==
  ASSUME TInv, [Next]_vars, NEW j \in Jobs, failure[j].granted = NoGrant,
         ~(Authorize /\ Grants(j))
  PROVE  failure'[j].granted = NoGrant
<1>0. failure \in [Jobs -> [kind : KINDS, granted : Nat \cup {NoGrant}]]
  BY DEF TInv, TypeOK
<1>1. CASE UNCHANGED failure
  BY <1>1
<1>2. CASE Authorize
  BY <1>2 DEF Authorize, Granted
<1>3. ASSUME NEW w \in Workers, RecordFailure(w) PROVE failure'[j].granted = NoGrant
  BY <1>0, <1>3 DEF RecordFailure
<1>4. CASE SyncStep
  BY <1>4, <1>1, <1>2 DEF SyncStep, BeginSync, Discover, Enqueue, EndEnqueue,
     Reconcile, ReopenProtected, evidence
<1>5. ASSUME NEW w \in Workers, LaneStep(w) PROVE failure'[j].granted = NoGrant
  <2>1. CASE \/ \E i \in Jobs : Claim(w, i)
             \/ ClaimNothing(w) \/ LaneFull(w) \/ Execute(w)
    BY <2>1, <1>1 DEF Claim, ClaimNothing, LaneFull, Execute, evidence
  <2>2. CASE ProviderAnswer(w)
    BY <2>2, <1>1, <1>3 DEF ProviderAnswer, StoreProduct, DuplicateProduct,
       Prohibit, Deferred, evidence
  <2>3. CASE SettleJob(w)
    BY <2>3, <1>1 DEF SettleJob, CompleteJob, RetireJob, ReleasePending,
       DeferForMaintenance, ReleaseDeferred, ReleaseFailed, LoseLease,
       Transition, evidence
  <2> QED
    BY <1>5, <2>1, <2>2, <2>3 DEF LaneStep
<1>6. CASE Operator
  <2>1. PICK r \in Requests, i \in Jobs, mode \in Modes, d \in Delays :
          ApplyOverride(r, i, mode, d)
    BY <1>6 DEF Operator
  <2> QED
    BY <2>1, <1>1, Zenon DEF ApplyOverride, evidence
<1>7. CASE \/ StartLanes \/ InstallContract \/ Tick \/ Crash \/ UNCHANGED vars
           \/ \E w \in Workers : LaneError(w)
           \/ \E i \in Churning : Supersede(i)
  BY <1>7, <1>1 DEF StartLanes, InstallContract, Tick, Crash, LaneError,
     Supersede, vars, evidence
<1> QED
  BY <1>4, <1>5, <1>6, <1>7 DEF Next

\* A row stopped by an earlier release is requeued in the step that grants
\* its recovery: nothing has touched it since and no schedule stands.
LEMMA GrantRequeues ==
  ASSUME TInv, OutInv, NEW j \in Jobs, Stopped(jobs[j]), Authorize, Grants(j)
  PROVE  ~Stopped(jobs'[j])
<1>1. /\ ActiveFor(j) = {} /\ jobs[j].updated = 0 /\ instant > 0
      /\ instant \in Nat /\ jobs[j] \in Row
  BY DEF OutInv, StoppedUntouched, ClockRuns, Authorize, TInv, TypeOK
<1>2. Granted(j).granted = instant
  BY DEF Granted, TInv, TypeOK
<1>3. Requeues(j)
  BY <1>1, <1>2 DEF Requeues, Stopped, NoGrant
<1>4. jobs'[j] = Unleased(jobs[j], "QUEUED", instant, "NONE", instant)
  BY <1>3 DEF Authorize
<1> QED
  BY <1>1, <1>4, UnleasedFields DEF Stopped

\* No step stops a row, and none touches a stopped one without reopening it.
LEMMA StoppedStep ==
  ASSUME TInv, OutInv, [Next]_vars
  PROVE  StoppedUntouched'
<1> SUFFICES ASSUME NEW j \in Jobs, Stopped(jobs'[j])
             PROVE  /\ ActiveFor(j)' = {} /\ failure'[j].granted = NoGrant
                    /\ jobs'[j].updated = 0
  BY DEF StoppedUntouched
<1>1. Calm(jobs[j], jobs'[j])
  <2>1. CASE \A w \in Workers, c \in Jobs : ~Claim(w, c)
    BY <2>1, StepIsCalm
  <2>2. ASSUME NEW w \in Workers, NEW c \in Jobs, Claim(w, c)
        PROVE  Calm(jobs[j], jobs'[j])
    BY <2>2, ClaimRowFacts DEF Stopped
  <2> QED
    BY <2>1, <2>2
<1>2. jobs'[j] = jobs[j] /\ Stopped(jobs[j])
  BY <1>1 DEF Calm
<1>3. /\ ActiveFor(j) = {} /\ failure[j].granted = NoGrant
      /\ jobs[j].updated = 0
  BY <1>2 DEF OutInv, StoppedUntouched
<1>4. ActiveFor(j)' = {}
  BY <1>2, <1>3, OverrideStep DEF Stopped, WAITING
<1>5. ~(Authorize /\ Grants(j))
  BY <1>2, GrantRequeues
<1>6. failure'[j].granted = NoGrant
  BY <1>3, <1>5, GrantStep
<1> QED
  BY <1>2, <1>3, <1>4, <1>6

\* The reopening steps leave settled work about prohibited content alone.
LEMMA ReopeningSpares ==
  ASSUME TInv, OutInv, NEW j \in Jobs, jobs[j].state \in SETTLED,
         Content[j] \in marked, Reopening
  PROVE  jobs'[j].state \in SETTLED
<1>0. jobs \in [Jobs -> Row]
  BY DEF TInv, TypeOK
<1>1. CASE Authorize
  <2>1. ~Requeues(j)
    <3>1. CASE Stopped(jobs[j])
      <4>1. failure[j].granted = NoGrant
        BY <3>1 DEF OutInv, StoppedUntouched
      <4>2. ~Grants(j)
        BY DEF Grants
      <4> QED
        BY <4>1, <4>2 DEF Requeues, Granted
    <3>2. CASE ~Stopped(jobs[j])
      BY <3>2 DEF Stopped, Requeues, SETTLED, WAITING
    <3> QED
      BY <3>1, <3>2
  <2> QED
    BY <1>1, <2>1 DEF Authorize
<1>2. CASE ReopenProtected
  <2>1. j \notin found
    BY DEF OutInv, FreshFound
  <2> QED
    BY <1>2, <2>1 DEF ReopenProtected
<1>3. ASSUME NEW i \in Jobs, Enqueue(i) PROVE jobs'[j].state \in SETTLED
  <2>1. i # j
    BY <1>3 DEF Enqueue, OutInv, FreshFound
  <2> QED
    BY <1>0, <1>3, <2>1 DEF Enqueue
<1> QED
  BY <1>1, <1>2, <1>3 DEF Reopening

\* Finished work about prohibited content never comes back, whatever the sync
\* passes, the lanes, the operator, a new contract or a crash do.
THEOREM ProhibitedNeverReturns == Spec => ProhibitedStaysOut
<1>1. Init => OutInv
  <2> SUFFICES ASSUME Init PROVE OutInv
    OBVIOUS
  <2>1. StoppedUntouched
    <3> SUFFICES ASSUME NEW j \in Jobs, Stopped(jobs[j])
                 PROVE  /\ ActiveFor(j) = {} /\ failure[j].granted = NoGrant
                        /\ jobs[j].updated = 0
      BY DEF StoppedUntouched
    <3>1. jobs[j] \in {AbsentRow(j)} \cup LegacyRows(j)
      BY DEF Init
    <3>2. jobs[j].updated = 0
      <4> DEFINE row == AbsentRow(j)
      <4>1. row.updated = 0 /\ row \in Row
        BY AbsentIsRow DEF AbsentRow
      <4> HIDE DEF row
      <4>2. jobs[j] \in {row,
              [row EXCEPT !.state = "DEAD_LETTER", !.error = "TERMINAL",
                          !.attempts = 1],
              [row EXCEPT !.state = "BACKING_OFF", !.error = "RETRY",
                          !.attempts = 1, !.avail = LEGACY_RETRY]}
        BY <3>1 DEF LegacyRows, row
      <4> QED
        BY <4>1, <4>2 DEF Row
    <3> QED
      BY <3>2 DEF Init, ActiveFor, NoOverride
  <2>2. LanesInRound
    BY DEF Init, LanesInRound, Idle
  <2> QED
    BY <2>1, <2>2 DEF Init, OutInv, ClockRuns, FreshFound
<1>2. TInv /\ OutInv /\ [Next]_vars => OutInv'
  BY CycleStep, StoppedStep DEF OutInv
<1>3. TInv /\ OutInv /\ [Next]_vars =>
        (\A j \in Jobs :
           /\ Content[j] \in marked
           /\ jobs[j].state \in {"COMPLETED", "DEAD_LETTER"}
           => jobs'[j].state \in {"COMPLETED", "DEAD_LETTER"})
  <2> SUFFICES ASSUME TInv, OutInv, [Next]_vars, NEW j \in Jobs,
                      Content[j] \in marked, jobs[j].state \in SETTLED
               PROVE  jobs'[j].state \in SETTLED
    BY DEF SETTLED
  <2>1. CASE \A w \in Workers, c \in Jobs : ~Claim(w, c)
    BY <2>1, StepIsCalm, ReopeningSpares DEF Calm
  <2>2. ASSUME NEW w \in Workers, NEW c \in Jobs, Claim(w, c)
        PROVE  jobs'[j].state \in SETTLED
    <3>1. j # c
      BY <2>2, ClaimRowFacts
    <3> QED
      BY <2>2, <3>1, ClaimRowFacts, ReopeningSpares DEF Calm
  <2> QED
    BY <2>1, <2>2
<1> QED
  BY <1>1, <1>2, <1>3, InitTyped, StepTyped, PTL DEF Spec, ProhibitedStaysOut

-----------------------------------------------------------------------------
(*****************************************************************************)
(* The order of claims.  Attempts are counted by claims alone, so a claim    *)
(* is the only step these two properties speak of.  What a lane put back in  *)
(* its round became available after the round's cutoff, and the clock never  *)
(* runs back to it.                                                          *)
(*****************************************************************************)
\* An attempt is counted by a claim of that very job.
LEMMA AttemptsCountClaims ==
  ASSUME TInv, TInv', [Next]_vars, NEW j \in Jobs,
         jobs[j].attempts < jobs'[j].attempts
  PROVE  \E w \in Workers : Claim(w, j) /\ jobs'[j].owner = w
<1>1. jobs[j].attempts \in Nat /\ jobs'[j].attempts \in Nat
  BY DEF TInv, TypeOK, Row
<1>2. ~Calm(jobs[j], jobs'[j])
  BY <1>1 DEF Calm
<1>3. PICK w \in Workers, c \in Jobs : Claim(w, c)
  BY <1>2, StepIsCalm
<1>4. c = j
  BY <1>2, <1>3, ClaimRowFacts
<1> QED
  BY <1>3, <1>4, ClaimRowFacts

\* The recorded time of an IDLE_CAPACITY override, or that there is none.
LEMMA IdleSinceTypes ==
  ASSUME TInv, NEW j \in Jobs
  PROVE  IdleSince[j] \in Nat \/ IdleSince[j] = -1
<1>1. CASE \E r \in ActiveFor(j) : overrides[r].mode = "IDLE_CAPACITY"
  <2> DEFINE r == CHOOSE r \in ActiveFor(j) : overrides[r].mode = "IDLE_CAPACITY"
  <2>1. r \in ActiveFor(j) /\ overrides[r].mode = "IDLE_CAPACITY"
    BY <1>1
  <2>2. r \in Requests
    BY <2>1 DEF ActiveFor
  <2>3. overrides[r] \in Override \cup {NoOverride}
    BY <2>2 DEF TInv, TypeOK
  <2>4. overrides[r].at \in Nat
    BY <2>3 DEF Override, NoOverride
  <2>5. IdleSince[j] = overrides[r].at
    BY <1>1 DEF IdleSince
  <2> QED
    BY <2>4, <2>5
<1>2. CASE ~\E r \in ActiveFor(j) : overrides[r].mode = "IDLE_CAPACITY"
  BY <1>2 DEF IdleSince
<1> QED
  BY <1>1, <1>2

\* Backfill precedes LIVE work only as idle capacity that has waited.
LEMMA KeysPutLiveFirst ==
  ASSUME NEW j \in Jobs, NEW k \in Jobs, NEW row, NEW other, NEW since, NEW t \in Nat,
         NEW idle \in Int, LaneOf[j] # "LIVE", LaneOf[k] = "LIVE",
         Precedes(ClaimKey(j, row, idle, t), ClaimKey(k, other, since, t))
  PROVE  idle >= 0 /\ idle <= t - IDLE_WAIT
<1> DEFINE kj == ClaimKey(j, row, idle, t)
           kk == ClaimKey(k, other, since, t)
<1>1. kj[1] = Flag(idle >= 0 /\ idle <= t - IDLE_WAIT) /\ kj[2] = 1
  BY DEF ClaimKey, Flag
<1>2. kk[1] = Flag(since >= 0 /\ since <= t - IDLE_WAIT) /\ kk[2] = 0
  BY DEF ClaimKey, Flag
<1> HIDE DEF kj, kk
<1>3. PICK i \in 1..10 : kj[i] < kk[i] /\ \A h \in 1..(i - 1) : kj[h] = kk[h]
  BY DEF Precedes, kj, kk
<1>4. i = 1
  <2>1. CASE i = 2
    BY <1>1, <1>2, <1>3, <2>1
  <2>2. CASE i > 2
    <3>1. 2 \in 1..(i - 1)
      BY <2>2
    <3> QED
      BY <1>1, <1>2, <1>3, <3>1
  <2> QED
    BY <2>1, <2>2
<1>5. kj[1] < kk[1]
  BY <1>3, <1>4
<1> QED
  BY <1>1, <1>2, <1>5 DEF Flag

\* A claim serves contract backfill ahead of LIVE work it could have claimed
\* only when the operator's idle capacity override has waited its time.
LEMMA LiveFirstStep ==
  ASSUME TInv, TInv', [Next]_vars, NEW j \in Jobs,
         jobs[j].attempts < jobs'[j].attempts, LaneOf[j] = "CONTRACT_BACKFILL",
         \E k \in Offered(jobs'[j].owner) : LaneOf[k] = "LIVE"
  PROVE  IdleSince[j] # -1 /\ now - IdleSince[j] >= IDLE_WAIT
<1> USE JobRowsAssumption
<1>1. PICK w \in Workers : Claim(w, j) /\ jobs'[j].owner = w
  BY AttemptsCountClaims
<1>2. PICK k \in Offered(w) : LaneOf[k] = "LIVE"
  BY <1>1
<1>3. k \in Jobs /\ k # j
  BY <1>2 DEF Offered, Claimable
<1>4. Precedes(ClaimKey(j, ClaimRows[j], IdleSince[j], now),
               ClaimKey(k, ClaimRows[k], IdleSince[k], now))
  BY <1>1, <1>2, <1>3 DEF Claim, IsFirst
<1>5. now \in Nat /\ (IdleSince[j] \in Nat \/ IdleSince[j] = -1)
  BY IdleSinceTypes DEF TInv, TypeOK
<1>6. IdleSince[j] >= 0 /\ IdleSince[j] <= now - IDLE_WAIT
  BY <1>2, <1>3, <1>4, <1>5, KeysPutLiveFirst
<1> QED
  BY <1>5, <1>6

\* Contract backfill never overtakes LIVE work, whatever the keys' later parts
\* say, except as idle capacity that has waited IDLE_WAIT.
THEOREM LiveComesFirst == Spec => LiveFirst
<1>1. TInv /\ TInv' /\ [Next]_vars =>
        [\A j \in Jobs :
           /\ jobs[j].attempts < jobs'[j].attempts
           /\ LaneOf[j] = "CONTRACT_BACKFILL"
           /\ \E k \in Offered(jobs'[j].owner) : LaneOf[k] = "LIVE"
           => /\ IdleSince[j] # -1
              /\ now - IdleSince[j] >= IDLE_WAIT]_vars
  BY LiveFirstStep
<1> QED
  BY <1>1, InitTyped, StepTyped, PTL DEF Spec, LiveFirst

\* Reconciliation keeps the time a row is available from.
LEMMA ReconciledKeepsAvail ==
  ASSUME NEW old \in Row, NEW use, NEW t \in Nat, NEW j \in Jobs
  PROVE  Reconciled(old, j, use, t).avail = old.avail
<1> DEFINE first == IF Satisfied(old, j, use)
                    THEN Unleased(old, "COMPLETED", old.avail, old.error, t)
                    ELSE old
<1>1. old.avail \in Nat /\ old.error \in ERRORS
  BY DEF Row
<1>2. first \in Row /\ first.avail = old.avail
  <2>1. Unleased(old, "COMPLETED", old.avail, old.error, t) \in Row
    BY <1>1, UnleasedIsRow DEF STATES
  <2>2. Unleased(old, "COMPLETED", old.avail, old.error, t).avail = old.avail
    BY UnleasedFields
  <2> QED
    BY <2>1, <2>2
<1> HIDE DEF first
<1>3. Unleased(first, "DEAD_LETTER", first.avail, "OBSOLETE", t).avail = first.avail
  BY <1>2, UnleasedFields
<1>4. Reconciled(old, j, use, t) = first
        \/ Reconciled(old, j, use, t) = Unleased(first, "DEAD_LETTER", first.avail, "OBSOLETE", t)
  BY DEF Reconciled, first
<1> QED
  BY <1>2, <1>3, <1>4

\* The row keeps its time, or is available from now or later.
KeptOrLater(j) == jobs'[j].avail = jobs[j].avail \/ now <= jobs'[j].avail

\* A settlement makes its row available from now or later.
LEMMA SettleIsLater ==
  ASSUME TInv, NEW w \in Workers, SettleJob(w)
  PROVE  /\ \A j \in Jobs : KeptOrLater(j)
         /\ settled' = settled \/ /\ settled' = settled \cup {worker[w].job}
                                  /\ now <= jobs'[worker[w].job].avail
<1> USE JobQueueAssumption
<1>1. worker[w].pc = "settle"
  BY DEF SettleJob, CompleteJob, RetireJob, ReleasePending,
     DeferForMaintenance, ReleaseDeferred, ReleaseFailed, LoseLease, Settling
<1>2. /\ jobs \in [Jobs -> Row] /\ worker[w].job \in Jobs /\ now \in Nat
      /\ jobs[worker[w].job] \in Row
  BY <1>1 DEF TInv, TypeOK, LaneHoldsJob
<1>t. ASSUME NEW row, Transition(w, row), now <= row.avail
      PROVE  /\ \A j \in Jobs : KeptOrLater(j)
             /\ settled' = settled \cup {worker[w].job}
             /\ now <= jobs'[worker[w].job].avail
  BY <1>2, <1>t DEF Transition, KeptOrLater
<1>u. ASSUME NEW s, NEW a \in Nat, NEW e, now <= a
      PROVE  now <= Unleased(jobs[worker[w].job], s, a, e, now).avail
  BY <1>2, <1>u, UnleasedFields
<1>3. CASE CompleteJob(w) \/ RetireJob(w) \/ ReleaseFailed(w)
  BY <1>2, <1>3, <1>t, <1>u DEF CompleteJob, RetireJob, ReleaseFailed
<1>4. CASE ReleasePending(w)
  <2>1. now + PENDING_DELAY \in Nat /\ now <= now + PENDING_DELAY
    BY <1>2
  <2> QED
    BY <1>4, <1>t, <1>u, <2>1 DEF ReleasePending
<1>5. CASE ReleaseDeferred(w)
  <2>1. PICK d \in Delays :
          Transition(w, Unleased(jobs[worker[w].job], "QUEUED", now + d, "RETRY", now))
    BY <1>5 DEF ReleaseDeferred
  <2>2. now + d \in Nat /\ now <= now + d
    BY <1>2
  <2> QED
    BY <1>t, <1>u, <2>1, <2>2
<1>6. CASE DeferForMaintenance(w)
  <2>1. PICK d \in Delays :
          Transition(w, [Unleased(jobs[worker[w].job], "QUEUED", now + d, "RETRY", now)
                           EXCEPT !.attempts = @ - 1])
    BY <1>6 DEF DeferForMaintenance
  <2> DEFINE u == Unleased(jobs[worker[w].job], "QUEUED", now + d, "RETRY", now)
  <2>2. now + d \in Nat /\ now <= now + d
    BY <1>2
  <2>3. u \in Row /\ u.avail = now + d
    <3>1. u \in Row
      BY <1>2, <2>2, UnleasedIsRow DEF STATES, WAITING, ERRORS
    <3>2. u.avail = now + d
      BY <1>2, UnleasedFields
    <3> QED
      BY <3>1, <3>2
  <2> HIDE DEF u
  <2>4. [u EXCEPT !.attempts = @ - 1].avail = u.avail
    BY <2>3 DEF Row
  <2>5. now <= [u EXCEPT !.attempts = @ - 1].avail
    BY <2>2, <2>3, <2>4
  <2> QED
    BY <1>t, <2>1, <2>5 DEF u
<1>7. CASE LoseLease(w)
  BY <1>7 DEF LoseLease, KeptOrLater, history
<1> QED
  BY <1>3, <1>4, <1>5, <1>6, <1>7 DEF SettleJob

\* A claim, an empty one included, moves no row's time.
LEMMA ClaimKeepsAvail ==
  ASSUME TInv, NEW w \in Workers, NEW j \in Jobs,
         (\E c \in Jobs : Claim(w, c)) \/ ClaimNothing(w)
  PROVE  jobs'[j].avail = jobs[j].avail
<1>1. jobs[j] \in Row /\ ClaimRows \in [Jobs -> Row]
  BY ExpireLeasesIsTable DEF TInv, TypeOK, ClaimRows
<1>2. ClaimRows[j].avail = jobs[j].avail
  BY <1>1, UnleasedFields DEF ClaimRows, ExpireLeases
<1>3. CASE ClaimNothing(w)
  BY <1>2, <1>3 DEF ClaimNothing
<1>4. ASSUME NEW c \in Jobs, Claim(w, c)
      PROVE  jobs'[j].avail = jobs[j].avail
  <2>1. jobs' = [ClaimRows EXCEPT ![c] =
                   [ClaimRows[c] EXCEPT !.state = "LEASED", !.owner = w,
                      !.expires = now + LEASE, !.attempts = @ + 1, !.updated = now]]
    BY <1>1, <1>4 DEF Claim
  <2>2. ClaimRows[c] \in Row
    BY <1>1
  <2>3. [ClaimRows[c] EXCEPT !.state = "LEASED", !.owner = w, !.expires = now + LEASE,
           !.attempts = @ + 1, !.updated = now].avail = ClaimRows[c].avail
    BY <2>2 DEF Row
  <2> QED
    BY <1>1, <1>2, <2>1, <2>3
<1> QED
  BY <1>3, <1>4

\* A lane moves a row's time only to now or later, and remembers as settled
\* only the rows it moved so.
LEMMA LaneIsLater ==
  ASSUME TInv, NEW w \in Workers, LaneStep(w) \/ LaneError(w)
  PROVE  /\ \A j \in Jobs : KeptOrLater(j)
         /\ \A j \in settled' : j \in settled \/ now <= jobs'[j].avail
<1>0. jobs \in [Jobs -> Row] /\ now \in Nat
  BY DEF TInv, TypeOK
<1>1. CASE UNCHANGED jobs /\ UNCHANGED settled
  BY <1>1 DEF KeptOrLater
<1>2. CASE (\E c \in Jobs : Claim(w, c)) \/ ClaimNothing(w)
  BY <1>2, ClaimKeepsAvail DEF KeptOrLater, Claim, ClaimNothing, history
<1>3. CASE SettleJob(w)
  BY <1>3, SettleIsLater
<1>4. CASE StoreProduct(w)
  <2>1. \A j \in Jobs : jobs'[j] = jobs[j] \/ jobs'[j] = Completed(jobs[j], j, now)
    BY <1>0, <1>4 DEF StoreProduct
  <2>2. \A j \in Jobs : Completed(jobs[j], j, now).avail = now
    BY <1>0, CompletedIsRow
  <2> QED
    BY <1>0, <1>4, <2>1, <2>2 DEF KeptOrLater, StoreProduct, history
<1>5. CASE Prohibit(w)
  <2>1. \A j \in Jobs, c \in Contents \cup {Content[worker[w].job]} :
          ProhibitRow(j, c).avail = jobs[j].avail
    BY <1>0, UnleasedFields DEF ProhibitRow
  <2> QED
    BY <1>5, <2>1 DEF Prohibit, KeptOrLater, history
<1>6. CASE LaneFull(w) \/ Execute(w) \/ DuplicateProduct(w) \/ RecordFailure(w)
           \/ LaneError(w) \/ \E o \in OUTCOMES : Deferred(w, o)
  BY <1>1, <1>6 DEF LaneFull, Execute, DuplicateProduct, RecordFailure, LaneError,
     Deferred, history
<1> QED
  BY <1>2, <1>3, <1>4, <1>5, <1>6 DEF LaneStep, ProviderAnswer

\* The installation of a contract moves a row's time only to now.
LEMMA InstallIsLater ==
  ASSUME TInv, InstallContract, NEW j \in Jobs
  PROVE  KeptOrLater(j)
<1>0. jobs \in [Jobs -> Row] /\ jobs[j] \in Row /\ now \in Nat
  BY DEF TInv, TypeOK
<1>1. /\ Bridged(j, usable') \in Row
      /\ Bridged(j, usable').avail = jobs[j].avail \/ Bridged(j, usable').avail = now
  BY <1>0, CompletedIsRow DEF Bridged
<1>2. jobs'[j] = Reconciled(Bridged(j, usable'), j, usable', now)
  BY DEF InstallContract
<1>3. jobs'[j].avail = Bridged(j, usable').avail
  BY <1>0, <1>1, <1>2, ReconciledKeepsAvail
<1> QED
  BY <1>0, <1>1, <1>3 DEF KeptOrLater

\* The rows settled in a round wait for a time after its cutoff.
RoundOrder ==
  /\ phase = "lanes" => cutoff < now
  /\ phase # "lanes" => settled = {}
  /\ \A j \in settled : cutoff < jobs[j].avail

LEMMA RoundOrderStep ==
  ASSUME TInv, TInv', LanesInRound, RoundOrder, [Next]_vars
  PROVE  RoundOrder'
<1>0. /\ jobs \in [Jobs -> Row] /\ jobs' \in [Jobs -> Row] /\ now \in Nat /\ cutoff \in Nat
      /\ settled \subseteq Jobs /\ settled' \subseteq Jobs
      /\ \A j \in Jobs : jobs[j].avail \in Nat /\ jobs'[j].avail \in Nat
  BY DEF TInv, TypeOK, Row
<1>1. ASSUME UNCHANGED <<phase, cutoff>>, now' = now \/ now' = now + 1,
             \/ UNCHANGED jobs \/ \A j \in settled' : KeptOrLater(j),
             \A j \in settled' : j \in settled \/ (phase = "lanes" /\ now <= jobs'[j].avail)
      PROVE  RoundOrder'
  <2>1. phase' = "lanes" => cutoff' < now'
    BY <1>0, <1>1 DEF RoundOrder
  <2>2. phase' # "lanes" => settled' = {}
    BY <1>1 DEF RoundOrder
  <2>3. ASSUME NEW j \in settled' PROVE cutoff' < jobs'[j].avail
    <3>1. phase = "lanes" /\ cutoff < now
      BY <1>1, <2>2, <2>3 DEF RoundOrder
    <3>2. CASE now <= jobs'[j].avail
      BY <1>0, <1>1, <3>1, <3>2
    <3>3. CASE jobs'[j].avail = jobs[j].avail /\ j \in settled
      BY <1>1, <3>3 DEF RoundOrder
    <3> QED
      BY <1>1, <3>2, <3>3 DEF KeptOrLater
  <2> QED
    BY <2>1, <2>2, <2>3 DEF RoundOrder
<1>2. CASE BeginSync \/ Crash
  BY <1>2 DEF BeginSync, Crash, RoundOrder
<1>3. CASE \/ Authorize \/ Discover \/ EndEnqueue \/ Reconcile \/ ReopenProtected
           \/ \E j \in Jobs : Enqueue(j)
  <2>1. phase # "lanes" /\ phase' # "lanes" /\ settled' = settled
    BY <1>3 DEF Authorize, Discover, EndEnqueue, Reconcile, ReopenProtected, Enqueue, history
  <2> QED
    BY <2>1 DEF RoundOrder
<1>4. CASE StartLanes
  BY <1>0, <1>4 DEF StartLanes, RoundOrder, history
<1>5. ASSUME NEW w \in Workers, LaneStep(w) \/ LaneError(w)
      PROVE  RoundOrder'
  <2>1. /\ \A j \in Jobs : KeptOrLater(j)
        /\ \A j \in settled' : j \in settled \/ now <= jobs'[j].avail
    BY <1>5, LaneIsLater
  <2>2. UNCHANGED <<phase, cutoff, now>>
    BY <1>5 DEF LaneStep, LaneError, ProviderAnswer, SettleJob, Claim, ClaimNothing,
       LaneFull, Execute, StoreProduct, DuplicateProduct, RecordFailure, Prohibit,
       Deferred, CompleteJob, RetireJob, ReleasePending, DeferForMaintenance,
       ReleaseDeferred, ReleaseFailed, LoseLease, Transition, process
  <2>3. settled' # settled => phase = "lanes"
    <3>1. settled' # settled => SettleJob(w)
      BY <1>5 DEF LaneStep, LaneError, ProviderAnswer, Claim, ClaimNothing,
         LaneFull, Execute, StoreProduct, DuplicateProduct, RecordFailure, Prohibit,
         Deferred, history
    <3>2. SettleJob(w) => worker[w].pc = "settle"
      BY DEF SettleJob, CompleteJob, RetireJob, ReleasePending,
         DeferForMaintenance, ReleaseDeferred, ReleaseFailed, LoseLease, Settling
    <3> QED
      BY <3>1, <3>2 DEF LanesInRound
  <2> QED
    BY <1>0, <1>1, <2>1, <2>2, <2>3
<1>6. CASE InstallContract
  BY <1>0, <1>1, <1>6, InstallIsLater DEF InstallContract, process, history
<1>7. CASE Operator
  <2>1. PICK r \in Requests, i \in Jobs, mode \in Modes, d \in Delays :
          ApplyOverride(r, i, mode, d)
    BY <1>7 DEF Operator
  <2>2. UNCHANGED <<phase, cutoff, now>>
    BY <2>1 DEF ApplyOverride, process
  <2>3. \/ UNCHANGED <<jobs, settled>>
        \/ /\ settled' = settled \ {i}
           /\ \E t : jobs' = [jobs EXCEPT ![i].avail = t, ![i].updated = now]
    BY <2>1 DEF ApplyOverride
  <2>4. \A j \in settled' : j \in settled /\ KeptOrLater(j)
    BY <1>0, <2>3 DEF KeptOrLater
  <2> QED
    BY <1>1, <2>2, <2>4
<1>8. CASE Tick \/ UNCHANGED vars
  BY <1>1, <1>8 DEF Tick, vars, process, history
<1>9. CASE \E j \in Churning : Supersede(j)
  BY <1>1, <1>9 DEF Supersede, process, history
<1> QED
  BY <1>2, <1>3, <1>4, <1>5, <1>6, <1>7, <1>8, <1>9 DEF Next, SyncStep

\* The annotator's cycle is in order in every state.
LEMMA CycleAlways == Spec => [](TInv /\ ClockRuns /\ LanesInRound /\ FreshFound)
<1>1. Init => ClockRuns /\ LanesInRound /\ FreshFound
  BY DEF Init, ClockRuns, LanesInRound, FreshFound, Idle
<1>2. TInv /\ ClockRuns /\ LanesInRound /\ FreshFound /\ [Next]_vars
        => ClockRuns' /\ LanesInRound' /\ FreshFound'
  BY CycleStep
<1> QED
  BY <1>1, <1>2, InitTyped, StepTyped, PTL DEF Spec

LEMMA RoundOrderAlways == Spec => []RoundOrder
<1>1. Init => RoundOrder
  BY DEF Init, RoundOrder
<1>2. TInv /\ TInv' /\ LanesInRound /\ RoundOrder /\ [Next]_vars => RoundOrder'
  BY RoundOrderStep
<1> QED
  BY <1>1, <1>2, CycleAlways, PTL DEF Spec

\* A job its lane put back in the queue is claimed again no earlier than in the
\* next round, whatever wait the release asked for, unless an operator moved it.
THEOREM ClaimedOncePerRound == Spec => OncePerRound
<1>1. TInv /\ TInv' /\ RoundOrder /\ [Next]_vars =>
        [\A j \in Jobs : jobs[j].attempts < jobs'[j].attempts => j \notin settled]_vars
  <2> SUFFICES ASSUME TInv, TInv', RoundOrder, [Next]_vars, NEW j \in Jobs,
                      jobs[j].attempts < jobs'[j].attempts
               PROVE  j \notin settled
    OBVIOUS
  <2>1. PICK w \in Workers : Claim(w, j)
    BY AttemptsCountClaims
  <2>2. ClaimRows[j].avail <= cutoff
    BY <2>1 DEF Claim, IsFirst, Offered, Claimable
  <2>3. jobs[j] \in Row /\ ClaimRows[j].avail = jobs[j].avail
    BY UnleasedFields DEF ClaimRows, ExpireLeases, TInv, TypeOK
  <2>4. jobs[j].avail \in Nat /\ cutoff \in Nat
    BY <2>3 DEF TInv, TypeOK, Row
  <2> QED
    BY <2>2, <2>3, <2>4 DEF RoundOrder
<1> QED
  BY <1>1, CycleAlways, RoundOrderAlways, PTL DEF Spec, OncePerRound

\* What a lane claims is neither work of its own round nor ahead of LIVE work.
THEOREM ClaimsInOrder == Spec => ClaimOrder
BY ClaimedOncePerRound, LiveComesFirst DEF ClaimOrder
-----------------------------------------------------------------------------
(*****************************************************************************)
(* Operator overrides.  A schedule is active for one waiting job: claims     *)
(* consume it, prohibition withdraws it, a second override replaces it.      *)
(*****************************************************************************)
\* Retired as prohibited content.
Barred(row) == row.state = "DEAD_LETTER" /\ row.error = "PROHIBITED"

\* Reconciliation retires no row as prohibited.
LEMMA ReconciledNotBarred ==
  ASSUME NEW old \in Row, NEW use, NEW t \in Nat, NEW j \in Jobs,
         Barred(Reconciled(old, j, use, t))
  PROVE  Barred(old)
<1> DEFINE first == IF Satisfied(old, j, use)
                    THEN Unleased(old, "COMPLETED", old.avail, old.error, t)
                    ELSE old
<1>1. old.avail \in Nat /\ old.error \in ERRORS
  BY DEF Row
<1>2. first \in Row
  BY <1>1, UnleasedIsRow DEF STATES
<1>3. first = old \/ first.state = "COMPLETED"
  BY UnleasedFields
<1> HIDE DEF first
<1>4. Unleased(first, "DEAD_LETTER", first.avail, "OBSOLETE", t).error = "OBSOLETE"
  BY <1>2, UnleasedFields
<1>5. Reconciled(old, j, use, t) = first
        \/ Reconciled(old, j, use, t) = Unleased(first, "DEAD_LETTER", first.avail, "OBSOLETE", t)
  BY DEF Reconciled, first
<1> QED
  BY <1>3, <1>4, <1>5 DEF Barred

\* A row that is not leased is retired as prohibited by nothing but the marking
\* of its content.
LEMMA BarredStep ==
  ASSUME TInv, [Next]_vars, NEW j \in Jobs, Barred(jobs'[j]), ~Barred(jobs[j]),
         jobs[j].state # "LEASED"
  PROVE  \E w \in Workers : Prohibit(w)
<1> USE DEF Barred
<1>0. jobs \in [Jobs -> Row] /\ jobs[j] \in Row /\ now \in Nat /\ instant \in Nat
  BY DEF TInv, TypeOK
<1>1. ASSUME NEW s, NEW a, NEW e, NEW t, s # "DEAD_LETTER",
             jobs'[j] = Unleased(jobs[j], s, a, e, t)
      PROVE  FALSE
  BY <1>0, <1>1, UnleasedFields
<1>2. jobs'[j] # jobs[j]
  OBVIOUS
<1>3. CASE SyncStep
  <2>1. CASE Authorize \/ ReopenProtected
    BY <1>0, <1>1, <1>2, <2>1 DEF Authorize, ReopenProtected
  <2>2. CASE Reconcile
    BY <1>0, <2>2, ReconciledNotBarred DEF Reconcile
  <2>3. ASSUME NEW i \in Jobs, Enqueue(i) PROVE FALSE
    <3>1. i = j /\ jobs'[j] = EnqueueRow(j)
      BY <1>0, <1>2, <2>3 DEF Enqueue
    <3>2. CASE jobs[j].state = "ABSENT"
      <4>1. jobs'[j] = [AbsentRow(j) EXCEPT !.state = "QUEUED", !.avail = instant,
                                            !.updated = instant]
        BY <3>1, <3>2 DEF EnqueueRow
      <4> QED
        BY <4>1 DEF AbsentRow
    <3>3. CASE jobs[j].state \in WAITING
      <4>1. jobs'[j] = [jobs[j] EXCEPT !.priority = PriorityOf[j]]
        BY <3>1, <3>3 DEF EnqueueRow, WAITING
      <4> QED
        BY <1>0, <3>3, <4>1 DEF Row, WAITING
    <3>4. CASE jobs[j].state \notin WAITING \cup {"ABSENT"}
      BY <1>1, <1>2, <3>1, <3>4 DEF EnqueueRow
    <3> QED
      BY <3>2, <3>3, <3>4
  <2> QED
    BY <1>2, <1>3, <2>1, <2>2, <2>3 DEF SyncStep, BeginSync, Discover, EndEnqueue
<1>4. ASSUME NEW w \in Workers, NEW c \in Jobs, Claim(w, c) PROVE FALSE
  <2>1. jobs'[c].state = "LEASED"
    BY <1>4, ClaimRowFacts
  <2>2. ClaimRows \in [Jobs -> Row] /\ ClaimRows[j] = jobs[j]
    BY <1>0, ExpireLeasesIsTable DEF ClaimRows, ExpireLeases
  <2>3. j # c => jobs'[j] = ClaimRows[j]
    BY <1>4, <2>2 DEF Claim
  <2> QED
    BY <1>2, <2>1, <2>2, <2>3
<1>5. ASSUME NEW w \in Workers, ClaimNothing(w) PROVE FALSE
  BY <1>2, <1>5 DEF ClaimNothing, ClaimRows, ExpireLeases
<1>6. ASSUME NEW w \in Workers, SettleJob(w) PROVE FALSE
  <2>1. jobs[worker[w].job].state = "LEASED" /\ jobs' # jobs =>
          \E row : jobs' = [jobs EXCEPT ![worker[w].job] = row]
    BY <1>6 DEF SettleJob, CompleteJob, RetireJob, ReleasePending,
       DeferForMaintenance, ReleaseDeferred, ReleaseFailed, LoseLease, Transition, Owned
  <2>2. jobs[worker[w].job].state = "LEASED" \/ jobs' = jobs
    BY <1>6 DEF SettleJob, CompleteJob, RetireJob, ReleasePending,
       DeferForMaintenance, ReleaseDeferred, ReleaseFailed, LoseLease, Transition, Owned
  <2> QED
    BY <1>0, <1>2, <2>1, <2>2
<1>7. ASSUME NEW w \in Workers, StoreProduct(w) PROVE FALSE
  <2>1. jobs'[j] = Completed(jobs[j], j, now)
    BY <1>0, <1>2, <1>7 DEF StoreProduct
  <2> QED
    BY <1>0, <2>1, CompletedIsRow
<1>8. CASE InstallContract
  <2>1. jobs'[j] = Reconciled(Bridged(j, usable'), j, usable', now)
    BY <1>8 DEF InstallContract
  <2>2. Bridged(j, usable') \in Row
    BY <1>0, CompletedIsRow DEF Bridged
  <2>3. Bridged(j, usable') = jobs[j] \/ Bridged(j, usable').state = "COMPLETED"
    BY <1>0, CompletedIsRow DEF Bridged
  <2> QED
    BY <1>0, <2>1, <2>2, <2>3, ReconciledNotBarred
<1>9. CASE Operator
  <2>1. PICK r \in Requests, i \in Jobs, mode \in Modes, d \in Delays :
          ApplyOverride(r, i, mode, d)
    BY <1>9 DEF Operator
  <2>2. PICK t : jobs' = [jobs EXCEPT ![i].avail = t, ![i].updated = now]
    BY <1>2, <2>1 DEF ApplyOverride
  <2>3. jobs'[j].state = jobs[j].state /\ jobs'[j].error = jobs[j].error
    BY <1>0, <2>2 DEF Row
  <2> QED
    BY <2>3
<1>10. ASSUME UNCHANGED jobs PROVE FALSE
  BY <1>10
<1>11. ASSUME NEW w \in Workers, LaneStep(w) PROVE Prohibit(w)
  <2>1. CASE LaneFull(w) \/ Execute(w) \/ DuplicateProduct(w)
              \/ RecordFailure(w) \/ \E o \in OUTCOMES : Deferred(w, o)
    BY <2>1, <1>10 DEF LaneFull, Execute, DuplicateProduct, RecordFailure, Deferred
  <2> QED
    BY <1>4, <1>5, <1>6, <1>7, <1>11, <2>1 DEF LaneStep, ProviderAnswer
<1>12. CASE \/ StartLanes \/ Tick \/ Crash \/ UNCHANGED vars
            \/ \E w \in Workers : LaneError(w)
            \/ \E i \in Churning : Supersede(i)
  BY <1>10, <1>12 DEF StartLanes, Tick, Crash, LaneError, Supersede, vars
<1> QED
  BY <1>3, <1>8, <1>9, <1>11, <1>12 DEF Next

\* What deactivation leaves active it has not touched, and is not about S.
LEMMA DeactivatedActive ==
  ASSUME TInv, NEW S, NEW r \in Requests, Deactivated(S)[r].active
  PROVE  Deactivated(S)[r] = overrides[r] /\ overrides[r].job \notin S
<1>1. CASE overrides[r].active /\ overrides[r].job \in S
  <2>1. Deactivated(S)[r] = [overrides[r] EXCEPT !.active = FALSE]
    BY <1>1 DEF Deactivated
  <2>2. overrides[r] \in Override \/ overrides[r] = NoOverride
    BY DEF TInv, TypeOK
  <2>3. ~[overrides[r] EXCEPT !.active = FALSE].active
    BY <2>2 DEF Override, NoOverride
  <2> QED
    BY <2>1, <2>3
<1>2. CASE ~(overrides[r].active /\ overrides[r].job \in S)
  BY <1>2 DEF Deactivated
<1> QED
  BY <1>1, <1>2

\* An override of a job replaces the active one, or records that there is none.
LEMMA ApplyOverrideEffect ==
  ASSUME TInv, NEW r \in Requests, NEW i \in Jobs, NEW mode \in Modes,
         NEW d \in Delays, ApplyOverride(r, i, mode, d)
  PROVE  /\ jobs[i].state \in WAITING /\ ~overrides[r].active
         /\ \A q \in Requests \ {r} : overrides'[q].active => overrides'[q] = overrides[q]
         /\ \/ UNCHANGED jobs /\ ~overrides'[r].active
            \/ /\ overrides'[r].job = i
               /\ \A q \in Requests \ {r} : overrides'[q].active => overrides[q].job # i
               /\ \E t : jobs' = [jobs EXCEPT ![i].avail = t, ![i].updated = now]
<1>0. overrides \in [Requests -> Override \cup {NoOverride}]
  BY DEF TInv, TypeOK
<1> DEFINE first == ActiveFor(i)
           original == IF first = {} THEN jobs[i].avail
                       ELSE overrides[CHOOSE f \in first : TRUE].original
           effective == EffectiveTime(mode, original, now + d)
           record(b) == [job |-> i, mode |-> mode, at |-> now, original |-> original,
                         effective |-> effective, active |-> b]
<1>1. \/ overrides' = [overrides EXCEPT ![r] = record(FALSE)] /\ UNCHANGED jobs
      \/ /\ overrides' = [Deactivated({i}) EXCEPT ![r] = record(TRUE)]
         /\ jobs' = [jobs EXCEPT ![i].avail = effective, ![i].updated = now]
  BY DEF ApplyOverride
<1>2. record(TRUE).job = i /\ ~record(FALSE).active
  OBVIOUS
<1>3. jobs[i].state \in WAITING /\ ~overrides[r].active
  BY DEF ApplyOverride, NoOverride
<1> HIDE DEF record, effective
<1>4. CASE overrides' = [overrides EXCEPT ![r] = record(FALSE)] /\ UNCHANGED jobs
  <2>1. overrides'[r] = record(FALSE) /\ \A q \in Requests \ {r} : overrides'[q] = overrides[q]
    BY <1>0, <1>4
  <2> QED
    BY <1>2, <1>3, <1>4, <2>1, Zenon
<1>5. CASE /\ overrides' = [Deactivated({i}) EXCEPT ![r] = record(TRUE)]
           /\ jobs' = [jobs EXCEPT ![i].avail = effective, ![i].updated = now]
  <2>1. /\ overrides'[r] = record(TRUE)
        /\ \A q \in Requests \ {r} : overrides'[q] = Deactivated({i})[q]
    BY <1>5 DEF Deactivated
  <2>2. \A q \in Requests \ {r} : overrides'[q].active =>
          overrides'[q] = overrides[q] /\ overrides[q].job # i
    BY <2>1, DeactivatedActive
  <2> QED
    BY <1>2, <1>3, <1>5, <2>1, <2>2, Zenon
<1> QED
  BY <1>1, <1>4, <1>5

\* Apart from an operator's command, no step activates an override, a claim
\* consumes those of its job and a marking those of all it retires.
LEMMA ActiveStep ==
  ASSUME TInv, [Next]_vars, ~Operator, NEW r \in Requests, overrides'[r].active
  PROVE  /\ overrides'[r] = overrides[r]
         /\ \A w \in Workers, c \in Jobs : Claim(w, c) => overrides[r].job # c
         /\ \A w \in Workers : Prohibit(w) =>
              ~(overrides[r].job \in Jobs /\ Barred(jobs'[overrides[r].job]))
<1>1. ASSUME NEW w \in Workers, NEW c \in Jobs, Claim(w, c)
      PROVE  overrides'[r] = overrides[r] /\ overrides[r].job # c
  BY <1>1, DeactivatedActive DEF Claim
<1>2. ASSUME NEW w \in Workers, Prohibit(w)
      PROVE  /\ overrides'[r] = overrides[r]
             /\ ~(overrides[r].job \in Jobs /\ Barred(jobs'[overrides[r].job]))
  <2> DEFINE S == {j \in Jobs : jobs'[j].state = "DEAD_LETTER" /\ jobs'[j].error = "PROHIBITED"}
  <2>1. overrides' = Deactivated(S)
    BY <1>2 DEF Prohibit
  <2>2. overrides'[r] = overrides[r] /\ overrides[r].job \notin S
    BY <2>1, DeactivatedActive
  <2> QED
    BY <2>2 DEF Barred
<1>3. ASSUME \A w \in Workers : ~Prohibit(w), \A w \in Workers, c \in Jobs : ~Claim(w, c)
      PROVE  overrides' = overrides
  <2>1. CASE SyncStep
    BY <2>1 DEF SyncStep, BeginSync, Authorize, Discover, Enqueue,
       EndEnqueue, Reconcile, ReopenProtected
  <2>2. ASSUME NEW w \in Workers, LaneStep(w) PROVE overrides' = overrides
    <3>1. CASE ClaimNothing(w) \/ LaneFull(w) \/ Execute(w)
      BY <3>1 DEF ClaimNothing, LaneFull, Execute
    <3>2. CASE ProviderAnswer(w)
      BY <3>2, <1>3 DEF ProviderAnswer, StoreProduct, DuplicateProduct,
         RecordFailure, Deferred
    <3>3. CASE SettleJob(w)
      BY <3>3 DEF SettleJob, CompleteJob, RetireJob, ReleasePending,
         DeferForMaintenance, ReleaseDeferred, ReleaseFailed, LoseLease, Transition
    <3> QED
      BY <1>3, <2>2, <3>1, <3>2, <3>3 DEF LaneStep
  <2>3. CASE \/ StartLanes \/ InstallContract \/ Tick \/ Crash \/ UNCHANGED vars
             \/ \E w \in Workers : LaneError(w)
             \/ \E i \in Churning : Supersede(i)
    BY <2>3 DEF StartLanes, InstallContract, Tick, Crash, LaneError, Supersede, vars
  <2> QED
    BY <2>1, <2>2, <2>3 DEF Next
<1> QED
  BY <1>1, <1>2, <1>3

LEMMA OverrideDisciplineStep ==
  ASSUME TInv, TInv', OverrideDiscipline, [Next]_vars
  PROVE  OverrideDiscipline'
<1>j. ASSUME NEW q \in Requests, overrides[q].active
      PROVE  /\ overrides[q].job \in Jobs
             /\ jobs[overrides[q].job].state # "LEASED" /\ ~Barred(jobs[overrides[q].job])
  <2>1. overrides[q] \in Override \cup {NoOverride} /\ ~NoOverride.active
    BY DEF TInv, TypeOK, NoOverride
  <2>2. overrides[q] \in Override
    BY <1>j, <2>1
  <2> QED
    BY <1>j, <2>2 DEF OverrideDiscipline, Override, Barred
<1>1. CASE ~Operator
  <2>1. ASSUME NEW q \in Requests, overrides'[q].active
        PROVE  overrides'[q] = overrides[q] /\ overrides[q].active
    BY <1>1, <2>1, ActiveStep
  <2>2. ASSUME NEW q \in Requests, overrides'[q].active
        PROVE  jobs'[overrides'[q].job].state # "LEASED" /\ ~Barred(jobs'[overrides'[q].job])
    <3> DEFINE j == overrides[q].job
    <3>1. /\ overrides'[q].job = j /\ j \in Jobs
          /\ jobs[j].state # "LEASED" /\ ~Barred(jobs[j])
      BY <2>1, <2>2, <1>j
    <3> HIDE DEF j
    <3>2. jobs'[j].state # "LEASED"
      <4>1. CASE \A w \in Workers, c \in Jobs : ~Claim(w, c)
        BY <3>1, <4>1, StepIsCalm DEF Calm
      <4>2. ASSUME NEW w \in Workers, NEW c \in Jobs, Claim(w, c)
            PROVE  jobs'[j].state # "LEASED"
        <5>1. j # c
          BY <1>1, <2>2, <4>2, ActiveStep DEF j
        <5> QED
          BY <3>1, <4>2, <5>1, ClaimRowFacts DEF Calm
      <4> QED
        BY <4>1, <4>2
    <3>3. ~Barred(jobs'[j])
      <4>1. \A w \in Workers : Prohibit(w) => ~Barred(jobs'[j])
        BY <1>1, <2>2, <3>1, ActiveStep DEF j
      <4> QED
        BY <3>1, <4>1, BarredStep
    <3> QED
      BY <3>1, <3>2, <3>3
  <2>3. \A r, q \in Requests :
          overrides'[r].active /\ overrides'[q].active
            /\ overrides'[r].job = overrides'[q].job => r = q
    <3> SUFFICES ASSUME NEW r \in Requests, NEW q \in Requests, overrides'[r].active,
                        overrides'[q].active, overrides'[r].job = overrides'[q].job
                 PROVE  r = q
      OBVIOUS
    <3> QED
      BY <2>1 DEF OverrideDiscipline
  <2> QED
    BY <2>2, <2>3 DEF OverrideDiscipline, Barred
<1>2. CASE Operator
  <2>1. PICK r \in Requests, i \in Jobs, mode \in Modes, d \in Delays :
          ApplyOverride(r, i, mode, d)
    BY <1>2 DEF Operator
  <2>2. /\ jobs[i].state \in WAITING /\ ~overrides[r].active
        /\ \A q \in Requests \ {r} : overrides'[q].active => overrides'[q] = overrides[q]
        /\ \/ UNCHANGED jobs /\ ~overrides'[r].active
           \/ /\ overrides'[r].job = i
              /\ \A q \in Requests \ {r} : overrides'[q].active => overrides[q].job # i
              /\ \E t : jobs' = [jobs EXCEPT ![i].avail = t, ![i].updated = now]
    BY <2>1, ApplyOverrideEffect
  <2>3. \A j \in Jobs : jobs'[j].state = jobs[j].state /\ jobs'[j].error = jobs[j].error
    <3>1. jobs \in [Jobs -> Row]
      BY DEF TInv, TypeOK
    <3>2. CASE UNCHANGED jobs
      BY <3>2
    <3>3. ASSUME NEW t, jobs' = [jobs EXCEPT ![i].avail = t, ![i].updated = now]
          PROVE  \A j \in Jobs : jobs'[j].state = jobs[j].state /\ jobs'[j].error = jobs[j].error
      BY <3>1, <3>3 DEF Row
    <3> QED
      BY <2>2, <3>2, <3>3
  <2>4. ASSUME NEW q \in Requests, overrides'[q].active
        PROVE  jobs'[overrides'[q].job].state # "LEASED" /\ ~Barred(jobs'[overrides'[q].job])
    <3>1. CASE q = r
      <4>1. overrides'[q].job = i
        BY <2>2, <2>4, <3>1
      <4>2. jobs'[i].state \in WAITING
        BY <2>2, <2>3
      <4> QED
        BY <4>1, <4>2 DEF WAITING, Barred
    <3>2. CASE q # r
      <4>1. overrides'[q] = overrides[q] /\ overrides[q].active
        BY <2>2, <2>4, <3>2
      <4> QED
        BY <1>j, <2>3, <4>1 DEF Barred
    <3> QED
      BY <3>1, <3>2
  <2>5. \A p, q \in Requests :
          overrides'[p].active /\ overrides'[q].active
            /\ overrides'[p].job = overrides'[q].job => p = q
    <3> SUFFICES ASSUME NEW p \in Requests, NEW q \in Requests, overrides'[p].active,
                        overrides'[q].active, overrides'[p].job = overrides'[q].job
                 PROVE  p = q
      OBVIOUS
    <3>1. CASE p = r \/ q = r
      BY <2>2, <3>1
    <3>2. CASE p # r /\ q # r
      <4>1. overrides'[p] = overrides[p] /\ overrides'[q] = overrides[q]
        BY <2>2, <3>2
      <4> QED
        BY <4>1 DEF OverrideDiscipline
    <3> QED
      BY <3>1, <3>2
  <2> QED
    BY <2>4, <2>5 DEF OverrideDiscipline, Barred
<1> QED
  BY <1>1, <1>2

\* At most one override of a job is active, none while the job is leased, and
\* none survives the retirement of prohibited content, whatever commands,
\* claims, stale lanes and sync passes come in between.
THEOREM OverridesAreDisciplined == Spec => []OverrideDiscipline
<1>1. Init => OverrideDiscipline
  BY DEF Init, OverrideDiscipline, NoOverride
<1>2. TInv /\ TInv' /\ OverrideDiscipline /\ [Next]_vars => OverrideDiscipline'
  BY OverrideDisciplineStep
<1> QED
  BY <1>1, <1>2, InitTyped, StepTyped, PTL DEF Spec
-----------------------------------------------------------------------------
(*****************************************************************************)
(* Who may move a row.  The time an operator chose is moved by a new command *)
(* only, and a recovery grant requeues a row until the row is claimed: a     *)
(* grant is never later than the last update of a row claimed since.         *)
(*****************************************************************************)
\* A row that reconciliation leaves waiting it has not touched.
LEMMA ReconciledWaits ==
  ASSUME NEW old \in Row, NEW use, NEW t \in Nat, NEW j \in Jobs,
         Reconciled(old, j, use, t).state \in WAITING
  PROVE  Reconciled(old, j, use, t) = old
<1> DEFINE first == IF Satisfied(old, j, use)
                    THEN Unleased(old, "COMPLETED", old.avail, old.error, t)
                    ELSE old
<1>1. old.avail \in Nat /\ old.error \in ERRORS
  BY DEF Row
<1>2. first \in Row
  BY <1>1, UnleasedIsRow DEF STATES
<1>3. first = old \/ first.state = "COMPLETED"
  BY UnleasedFields
<1> HIDE DEF first
<1>4. Unleased(first, "DEAD_LETTER", first.avail, "OBSOLETE", t).state = "DEAD_LETTER"
  BY <1>2, UnleasedFields
<1>5. Reconciled(old, j, use, t) = first
        \/ Reconciled(old, j, use, t) = Unleased(first, "DEAD_LETTER", first.avail, "OBSOLETE", t)
  BY DEF Reconciled, first
<1> QED
  BY <1>3, <1>4, <1>5 DEF WAITING

\* What a settlement changes is a row its lane leased.
LEMMA SettleTakesLeased ==
  ASSUME TInv, NEW w \in Workers, SettleJob(w), NEW j \in Jobs
  PROVE  jobs'[j] = jobs[j] \/ jobs[j].state = "LEASED"
<1>1. ASSUME NEW row, Transition(w, row)
      PROVE  jobs'[j] = jobs[j] \/ jobs[j].state = "LEASED"
  BY <1>1 DEF Transition, Owned, TInv, TypeOK
<1> QED
  BY <1>1 DEF SettleJob, CompleteJob, RetireJob, ReleasePending,
     DeferForMaintenance, ReleaseDeferred, ReleaseFailed, LoseLease

\* A lane moves the time of no row that waits before and after its step.
LEMMA LaneLeavesWaiting ==
  ASSUME TInv, NEW w \in Workers, LaneStep(w) \/ LaneError(w), NEW j \in Jobs,
         jobs[j].state \in WAITING, jobs'[j].state \in WAITING
  PROVE  jobs'[j].avail = jobs[j].avail
<1>0. jobs \in [Jobs -> Row] /\ now \in Nat
  BY DEF TInv, TypeOK
<1>1. CASE (\E c \in Jobs : Claim(w, c)) \/ ClaimNothing(w)
  BY <1>1, ClaimKeepsAvail
<1>2. CASE SettleJob(w)
  BY <1>2, SettleTakesLeased DEF WAITING
<1>3. CASE StoreProduct(w)
  <2>1. jobs'[j] = jobs[j] \/ jobs'[j] = Completed(jobs[j], j, now)
    BY <1>0, <1>3 DEF StoreProduct
  <2> QED
    BY <1>0, <2>1, CompletedIsRow DEF WAITING
<1>4. CASE Prohibit(w)
  <2>1. ProhibitRow(j, Content[worker[w].job]).avail = jobs[j].avail
    BY <1>0, UnleasedFields DEF ProhibitRow
  <2> QED
    BY <1>4, <2>1 DEF Prohibit
<1>5. CASE LaneFull(w) \/ Execute(w) \/ DuplicateProduct(w) \/ RecordFailure(w)
           \/ LaneError(w) \/ \E o \in OUTCOMES : Deferred(w, o)
  BY <1>5 DEF LaneFull, Execute, DuplicateProduct, RecordFailure, LaneError, Deferred
<1> QED
  BY <1>1, <1>2, <1>3, <1>4, <1>5 DEF LaneStep, ProviderAnswer

\* The sync pass moves no waiting row that has an active override.
LEMMA SyncLeavesOverridden ==
  ASSUME TInv, SyncStep, NEW j \in Jobs, ActiveFor(j) # {},
         jobs[j].state \in WAITING, jobs'[j].state \in WAITING
  PROVE  jobs'[j].avail = jobs[j].avail
<1>0. jobs \in [Jobs -> Row] /\ instant \in Nat /\ jobs[j] \in Row
  BY DEF TInv, TypeOK
<1>1. CASE BeginSync \/ Discover \/ EndEnqueue
  BY <1>1 DEF BeginSync, Discover, EndEnqueue
<1>2. CASE Authorize
  BY <1>2 DEF Authorize, Requeues
<1>3. ASSUME NEW i \in Jobs, Enqueue(i)
      PROVE  jobs'[j].avail = jobs[j].avail
  <2>1. jobs'[j] = jobs[j] \/ jobs'[j] = EnqueueRow(j)
    BY <1>0, <1>3 DEF Enqueue
  <2>2. EnqueueRow(j).avail = jobs[j].avail
    BY <1>0 DEF EnqueueRow, WAITING, Row
  <2> QED
    BY <2>1, <2>2
<1>4. CASE Reconcile
  BY <1>0, <1>4, ReconciledKeepsAvail DEF Reconcile
<1>5. CASE ReopenProtected
  BY <1>5 DEF ReopenProtected, WAITING
<1> QED
  BY <1>1, <1>2, <1>3, <1>4, <1>5 DEF SyncStep

\* Nor does the installation of a contract.
LEMMA InstallLeavesWaiting ==
  ASSUME TInv, InstallContract, NEW j \in Jobs, jobs'[j].state \in WAITING
  PROVE  jobs'[j].avail = jobs[j].avail
<1>0. jobs \in [Jobs -> Row] /\ jobs[j] \in Row /\ now \in Nat
  BY DEF TInv, TypeOK
<1>1. /\ Bridged(j, usable') \in Row
      /\ Bridged(j, usable') = jobs[j] \/ Bridged(j, usable').state = "COMPLETED"
  BY <1>0, CompletedIsRow DEF Bridged
<1>2. jobs'[j] = Reconciled(Bridged(j, usable'), j, usable', now)
  BY DEF InstallContract
<1>3. jobs'[j] = Bridged(j, usable')
  BY <1>0, <1>1, <1>2, ReconciledWaits
<1> QED
  BY <1>1, <1>3 DEF WAITING

\* Only a new command moves a waiting row whose override stays active.
LEMMA OverrideStandsStep ==
  ASSUME TInv, [Next]_vars, NEW r \in Requests,
         overrides[r].active, overrides'[r].active,
         jobs[overrides[r].job].state \in WAITING,
         jobs'[overrides[r].job].state \in WAITING
  PROVE  jobs'[overrides[r].job].avail = jobs[overrides[r].job].avail
<1>1. overrides[r].job \in Jobs
  <2>1. overrides[r] \in Override \cup {NoOverride} /\ ~NoOverride.active
    BY DEF TInv, TypeOK, NoOverride
  <2> QED
    BY <2>1 DEF Override
<1>j. PICK j \in Jobs : j = overrides[r].job
  BY <1>1
<1>0. jobs \in [Jobs -> Row] /\ ActiveFor(j) # {}
  BY <1>j DEF TInv, TypeOK, ActiveFor
<1>w. jobs[j].state \in WAITING /\ jobs'[j].state \in WAITING
  BY <1>j
<1>o. ASSUME Operator PROVE jobs'[j].avail = jobs[j].avail
  <2>1. PICK q \in Requests, i \in Jobs, mode \in Modes, d \in Delays :
          ApplyOverride(q, i, mode, d)
    BY <1>o DEF Operator
  <2>2. /\ ~overrides[q].active
        /\ \/ UNCHANGED jobs
           \/ /\ \A p \in Requests \ {q} : overrides'[p].active => overrides[p].job # i
              /\ \E t : jobs' = [jobs EXCEPT ![i].avail = t, ![i].updated = now]
    BY <2>1, ApplyOverrideEffect
  <2>3. CASE UNCHANGED jobs
    BY <2>3
  <2>4. CASE /\ \A p \in Requests \ {q} : overrides'[p].active => overrides[p].job # i
             /\ \E t : jobs' = [jobs EXCEPT ![i].avail = t, ![i].updated = now]
    <3>1. j # i
      BY <1>j, <2>2, <2>4
    <3> QED
      BY <1>0, <2>4, <3>1
  <2> QED
    BY <2>2, <2>3, <2>4
<1>2. CASE SyncStep
  BY <1>0, <1>2, <1>j, <1>w, SyncLeavesOverridden
<1>3. CASE \E w \in Workers : LaneStep(w) \/ LaneError(w)
  BY <1>3, <1>j, <1>w, LaneLeavesWaiting
<1>4. CASE InstallContract
  BY <1>4, <1>j, <1>w, InstallLeavesWaiting
<1>5. CASE \/ StartLanes \/ Tick \/ Crash \/ UNCHANGED vars
           \/ \E i \in Churning : Supersede(i)
  BY <1>5 DEF StartLanes, Tick, Crash, Supersede, vars
<1> QED
  BY <1>j, <1>o, <1>2, <1>3, <1>4, <1>5 DEF Next

\* A recovery grant is of the past, of the past of the pass in progress while
\* it uses its own time, and no later than the last update of a row claimed
\* since.
SYNCING == {"authorize", "discover", "enqueue", "reconcile", "reopen"}
GrantOrder ==
  /\ instant <= now
  /\ \A j \in Jobs : failure[j].granted <= now
  /\ phase \in SYNCING => \A j \in Jobs : failure[j].granted <= instant
  /\ \A j \in served : failure[j].granted <= jobs[j].updated

\* The row was not updated, or at the time of the step: the clock's, or the
\* pass's own while one is in progress.
Stamped(j) ==
  \/ jobs'[j].updated = jobs[j].updated
  \/ jobs'[j].updated = now
  \/ phase \in SYNCING /\ jobs'[j].updated = instant

\* The time of an update that gives up a lease.
LEMMA UnleasedStamp ==
  ASSUME NEW row \in Row, NEW s, NEW avail, NEW error, NEW t
  PROVE  Unleased(row, s, avail, error, t).updated = t
  BY DEF Unleased, Row

LEMMA CompletedStamp ==
  ASSUME NEW row \in Row, NEW j \in Jobs, NEW t \in Nat
  PROVE  Completed(row, j, t).updated = t
<1> DEFINE done == Unleased(row, "COMPLETED", t, "NONE", t)
<1>1. done \in Row
  BY UnleasedIsRow DEF STATES, ERRORS
<1>2. done.updated = t
  BY UnleasedStamp
<1> HIDE DEF done
<1>3. \A p \in PRIORITIES : [done EXCEPT !.priority = p].updated = t
  BY <1>1, <1>2 DEF Row
<1>4. Completed(row, j, t) =
        [done EXCEPT !.priority = IF LaneOf[j] = "CONTRACT_BACKFILL"
                                  THEN "BACKGROUND" ELSE "NORMAL"]
  BY DEF Completed, done
<1> QED
  BY <1>3, <1>4 DEF PRIORITIES

LEMMA ReconciledStamp ==
  ASSUME NEW old \in Row, NEW use, NEW t \in Nat, NEW j \in Jobs
  PROVE  LET row == Reconciled(old, j, use, t) IN
           row.updated = old.updated \/ row.updated = t
<1> DEFINE first == IF Satisfied(old, j, use)
                    THEN Unleased(old, "COMPLETED", old.avail, old.error, t)
                    ELSE old
<1>1. old.avail \in Nat /\ old.error \in ERRORS
  BY DEF Row
<1>2. first \in Row
  BY <1>1, UnleasedIsRow DEF STATES
<1>3. first.updated = old.updated \/ first.updated = t
  BY UnleasedStamp
<1> HIDE DEF first
<1>4. Unleased(first, "DEAD_LETTER", first.avail, "OBSOLETE", t).updated = t
  BY <1>2, UnleasedStamp
<1>5. Reconciled(old, j, use, t) = first
        \/ Reconciled(old, j, use, t) = Unleased(first, "DEAD_LETTER", first.avail, "OBSOLETE", t)
  BY DEF Reconciled, first
<1> QED
  BY <1>3, <1>4, <1>5

\* The sync pass stamps what it changes with its own time.
LEMMA SyncStamps ==
  ASSUME TInv, SyncStep, NEW j \in Jobs
  PROVE  Stamped(j)
<1>0. jobs \in [Jobs -> Row] /\ instant \in Nat /\ jobs[j] \in Row
  BY DEF TInv, TypeOK
<1>1. CASE BeginSync \/ Discover \/ EndEnqueue
  BY <1>1 DEF BeginSync, Discover, EndEnqueue, Stamped
<1>2. CASE Authorize
  BY <1>0, <1>2, UnleasedStamp DEF Authorize, Stamped, SYNCING
<1>3. ASSUME NEW i \in Jobs, Enqueue(i)
      PROVE  Stamped(j)
  <2>1. jobs'[j] = jobs[j] \/ jobs'[j] = EnqueueRow(j)
    BY <1>0, <1>3 DEF Enqueue
  <2>2. EnqueueRow(j).updated = jobs[j].updated \/ EnqueueRow(j).updated = instant
    <3>1. [AbsentRow(j) EXCEPT !.state = "QUEUED", !.avail = instant,
                               !.updated = instant].updated = instant
      BY AbsentIsRow DEF Row
    <3>2. [jobs[j] EXCEPT !.priority = PriorityOf[j]].updated = jobs[j].updated
      BY <1>0 DEF Row
    <3> QED
      BY <1>0, <3>1, <3>2, UnleasedStamp DEF EnqueueRow
  <2> QED
    BY <1>3, <2>1, <2>2 DEF Enqueue, Stamped, SYNCING
<1>4. CASE Reconcile
  BY <1>0, <1>4, ReconciledStamp DEF Reconcile, Stamped, SYNCING
<1>5. CASE ReopenProtected
  BY <1>0, <1>5, UnleasedStamp DEF ReopenProtected, Stamped, SYNCING
<1> QED
  BY <1>1, <1>2, <1>3, <1>4, <1>5 DEF SyncStep

\* A settlement stamps its row with the clock's time.
LEMMA SettleStamps ==
  ASSUME TInv, NEW w \in Workers, SettleJob(w), NEW j \in Jobs
  PROVE  Stamped(j)
<1> DEFINE old == jobs[worker[w].job]
<1>1. worker[w].pc = "settle"
  BY DEF SettleJob, CompleteJob, RetireJob, ReleasePending,
     DeferForMaintenance, ReleaseDeferred, ReleaseFailed, LoseLease, Settling
<1>2. /\ jobs \in [Jobs -> Row] /\ worker[w].job \in Jobs /\ now \in Nat
      /\ old \in Row
  BY <1>1 DEF TInv, TypeOK, LaneHoldsJob
<1>n. \A d \in Delays : now + d \in Nat
  <2>1. now \in Nat /\ Delays \subseteq Nat
    BY <1>2, JobQueueAssumption
  <2> QED
    BY <2>1
<1>t. ASSUME NEW row, Transition(w, row), row.updated = now
      PROVE  Stamped(j)
  BY <1>2, <1>t DEF Transition, Stamped
<1>u. ASSUME NEW s, NEW a, NEW e
      PROVE  Unleased(old, s, a, e, now).updated = now
  BY <1>2, UnleasedStamp
<1> HIDE DEF old
<1>3. CASE CompleteJob(w) \/ RetireJob(w) \/ ReleaseFailed(w) \/ ReleasePending(w)
  BY <1>3, <1>t, <1>u DEF CompleteJob, RetireJob, ReleaseFailed, ReleasePending, old
<1>4. CASE ReleaseDeferred(w)
  <2>1. PICK d \in Delays : Transition(w, Unleased(old, "QUEUED", now + d, "RETRY", now))
    BY <1>4 DEF ReleaseDeferred, old
  <2> QED
    BY <1>t, <1>u, <2>1
<1>5. CASE DeferForMaintenance(w)
  <2>1. PICK d \in Delays :
          Transition(w, [Unleased(old, "QUEUED", now + d, "RETRY", now)
                           EXCEPT !.attempts = @ - 1])
    BY <1>5 DEF DeferForMaintenance, old
  <2>n. now + d \in Nat
    BY <1>n
  <2> DEFINE u == Unleased(old, "QUEUED", now + d, "RETRY", now)
  <2>2. u \in Row /\ u.updated = now
    <3>2. u \in Row
      BY <1>2, <2>n, UnleasedIsRow DEF STATES, WAITING, ERRORS
    <3> QED
      BY <1>u, <3>2
  <2> HIDE DEF u
  <2>3. [u EXCEPT !.attempts = @ - 1].updated = now
    BY <2>2 DEF Row
  <2> QED
    BY <1>t, <2>1, <2>3 DEF u
<1>6. CASE LoseLease(w)
  BY <1>6 DEF LoseLease, Stamped
<1> QED
  BY <1>3, <1>4, <1>5, <1>6 DEF SettleJob

\* A lane stamps what it changes with the clock's time, and what it claims for sure.
LEMMA LaneStamps ==
  ASSUME TInv, NEW w \in Workers, LaneStep(w) \/ LaneError(w)
  PROVE  /\ \A j \in Jobs : Stamped(j)
         /\ \A j \in served' \ served : jobs'[j].updated = now
<1>0. jobs \in [Jobs -> Row] /\ now \in Nat
  BY DEF TInv, TypeOK
<1>1. ASSUME NEW c \in Jobs, Claim(w, c)
      PROVE  (\A j \in Jobs : Stamped(j)) /\ \A j \in served' \ served : jobs'[j].updated = now
  <2>1. ClaimRows \in [Jobs -> Row]
    BY <1>0, ExpireLeasesIsTable DEF ClaimRows
  <2>2. \A j \in Jobs : ClaimRows[j].updated = jobs[j].updated \/ ClaimRows[j].updated = now
    BY <1>0, UnleasedStamp DEF ClaimRows, ExpireLeases
  <2>3. jobs' = [ClaimRows EXCEPT ![c] =
                   [ClaimRows[c] EXCEPT !.state = "LEASED", !.owner = w,
                      !.expires = now + LEASE, !.attempts = @ + 1, !.updated = now]]
    BY <1>1, <2>1 DEF Claim
  <2>4. jobs'[c].updated = now
    <3>1. ClaimRows[c] \in Row
      BY <2>1
    <3>2. [ClaimRows[c] EXCEPT !.state = "LEASED", !.owner = w, !.expires = now + LEASE,
             !.attempts = @ + 1, !.updated = now].updated = now
      BY <3>1 DEF Row
    <3> QED
      BY <2>1, <2>3, <3>2
  <2>5. \A j \in Jobs \ {c} : jobs'[j] = ClaimRows[j]
    BY <2>1, <2>3
  <2>6. served' = served \cup {c}
    BY <1>1 DEF Claim
  <2> QED
    BY <2>2, <2>4, <2>5, <2>6 DEF Stamped
<1>2. CASE ClaimNothing(w)
  <2>1. \A j \in Jobs : ClaimRows[j].updated = jobs[j].updated \/ ClaimRows[j].updated = now
    BY <1>0, UnleasedStamp DEF ClaimRows, ExpireLeases
  <2> QED
    BY <1>2, <2>1 DEF ClaimNothing, Stamped, history
<1>3. CASE SettleJob(w)
  <2>1. served' = served
    BY <1>3 DEF SettleJob, CompleteJob, RetireJob, ReleasePending, DeferForMaintenance,
       ReleaseDeferred, ReleaseFailed, LoseLease, Transition, history
  <2> QED
    BY <1>3, <2>1, SettleStamps
<1>4. CASE StoreProduct(w)
  <2>1. \A j \in Jobs : jobs'[j] = jobs[j] \/ jobs'[j] = Completed(jobs[j], j, now)
    BY <1>0, <1>4 DEF StoreProduct
  <2>2. \A j \in Jobs : Completed(jobs[j], j, now).updated = now
    BY <1>0, CompletedStamp
  <2> QED
    BY <1>4, <2>1, <2>2 DEF Stamped, StoreProduct, history
<1>5. CASE Prohibit(w)
  <2>1. \A j \in Jobs : \A c : ProhibitRow(j, c).updated = jobs[j].updated
                                  \/ ProhibitRow(j, c).updated = now
    BY <1>0, UnleasedStamp DEF ProhibitRow
  <2> QED
    BY <1>5, <2>1 DEF Prohibit, Stamped, history
<1>6. CASE LaneFull(w) \/ Execute(w) \/ DuplicateProduct(w) \/ RecordFailure(w)
           \/ LaneError(w) \/ \E o \in OUTCOMES : Deferred(w, o)
  BY <1>6 DEF LaneFull, Execute, DuplicateProduct, RecordFailure, LaneError,
     Deferred, Stamped, history
<1> QED
  BY <1>1, <1>2, <1>3, <1>4, <1>5, <1>6 DEF LaneStep, ProviderAnswer

\* An operator's command and the installation of a contract stamp with the
\* clock's time.
LEMMA OutsideStamps ==
  ASSUME TInv, Operator \/ InstallContract, NEW j \in Jobs
  PROVE  Stamped(j)
<1>0. jobs \in [Jobs -> Row] /\ jobs[j] \in Row /\ now \in Nat
  BY DEF TInv, TypeOK
<1>1. CASE InstallContract
  <2>1. /\ Bridged(j, usable') \in Row
        /\ Bridged(j, usable').updated = jobs[j].updated \/ Bridged(j, usable').updated = now
    BY <1>0, CompletedIsRow, CompletedStamp DEF Bridged
  <2>2. jobs'[j] = Reconciled(Bridged(j, usable'), j, usable', now)
    BY <1>1 DEF InstallContract
  <2> QED
    BY <1>0, <2>1, <2>2, ReconciledStamp DEF Stamped
<1>2. ASSUME NEW r \in Requests, NEW i \in Jobs, NEW mode \in Modes, NEW d \in Delays,
             ApplyOverride(r, i, mode, d)
      PROVE  Stamped(j)
  <2>1. UNCHANGED jobs \/ \E t : jobs' = [jobs EXCEPT ![i].avail = t, ![i].updated = now]
    BY <1>2, ApplyOverrideEffect
  <2>2. CASE UNCHANGED jobs
    BY <2>2 DEF Stamped
  <2>3. ASSUME NEW t, jobs' = [jobs EXCEPT ![i].avail = t, ![i].updated = now]
        PROVE  Stamped(j)
    BY <1>0, <2>3 DEF Stamped, Row
  <2> QED
    BY <2>1, <2>2, <2>3
<1> QED
  BY <1>1, <1>2 DEF Operator

\* Every step stamps what it changes; a claim stamps what it serves.
LEMMA StepStamps ==
  ASSUME TInv, [Next]_vars
  PROVE  /\ \A j \in Jobs : Stamped(j)
         /\ \A j \in served' \ served : jobs'[j].updated = now
<1>1. CASE SyncStep
  <2>1. served' \subseteq served
    BY <1>1 DEF SyncStep, BeginSync, Authorize, Discover, EndEnqueue, Reconcile,
       ReopenProtected, Enqueue, history
  <2> QED
    BY <1>1, <2>1, SyncStamps
<1>2. CASE \E w \in Workers : LaneStep(w) \/ LaneError(w)
  BY <1>2, LaneStamps
<1>3. CASE InstallContract
  BY <1>3, OutsideStamps DEF InstallContract, history
<1>o. CASE Operator
  <2>1. PICK r \in Requests, i \in Jobs, mode \in Modes, d \in Delays :
          ApplyOverride(r, i, mode, d)
    BY <1>o DEF Operator
  <2>2. served' = served
    BY <2>1 DEF ApplyOverride
  <2> QED
    BY <1>o, <2>2, OutsideStamps
<1>4. CASE \/ StartLanes \/ Tick \/ Crash \/ UNCHANGED vars
           \/ \E i \in Churning : Supersede(i)
  BY <1>4 DEF StartLanes, Tick, Crash, Supersede, vars, Stamped, history
<1> QED
  BY <1>1, <1>2, <1>3, <1>o, <1>4 DEF Next

\* Only an authorization grants; what is granted again is requeued no more.
LEMMA GrantsStep ==
  ASSUME TInv, [Next]_vars, ~Authorize, NEW j \in Jobs
  PROVE  failure'[j].granted = failure[j].granted \/ failure'[j].granted = NoGrant
<1>1. CASE SyncStep
  BY <1>1 DEF SyncStep, BeginSync, Discover, EndEnqueue, Reconcile, ReopenProtected,
     Enqueue, evidence
<1>2. ASSUME NEW w \in Workers, LaneStep(w) \/ LaneError(w)
      PROVE  failure'[j].granted = failure[j].granted \/ failure'[j].granted = NoGrant
  <2>1. CASE RecordFailure(w)
    <3>1. failure' = [failure EXCEPT ![worker[w].job] = [kind |-> "fresh", granted |-> NoGrant]]
      BY <2>1 DEF RecordFailure
    <3> QED
      BY <3>1 DEF TInv, TypeOK
  <2>2. CASE ~RecordFailure(w)
    <3>1. failure' = failure
      BY <1>2, <2>2 DEF LaneStep, LaneError, ProviderAnswer, SettleJob, Claim, ClaimNothing,
         LaneFull, Execute, StoreProduct, DuplicateProduct, Prohibit, Deferred, CompleteJob,
         RetireJob, ReleasePending, DeferForMaintenance, ReleaseDeferred, ReleaseFailed,
         LoseLease, Transition, evidence
    <3> QED
      BY <3>1
  <2> QED
    BY <2>1, <2>2
<1>3. CASE Operator
  BY <1>3 DEF Operator, ApplyOverride, evidence
<1>4. CASE \/ InstallContract \/ StartLanes \/ Tick \/ Crash \/ UNCHANGED vars
           \/ \E i \in Churning : Supersede(i)
  BY <1>4 DEF InstallContract, StartLanes, Tick, Crash, Supersede, vars, evidence
<1> QED
  BY <1>1, <1>2, <1>3, <1>4 DEF Next

\* A pass grants at its own time, and what it grants was not claimed since.
LEMMA AuthorizeGrants ==
  ASSUME TInv, Authorize, NEW j \in Jobs
  PROVE  /\ Grants(j) => failure'[j].granted = instant
         /\ ~Grants(j) => failure'[j].granted = failure[j].granted
         /\ failure'[j] = Granted(j)
         /\ Grants(j) => j \notin served'
<1>1. failure[j] \in [kind : KINDS, granted : Nat \cup {NoGrant}]
  BY DEF TInv, TypeOK
<1>2. [failure[j] EXCEPT !.granted = instant].granted = instant
  BY <1>1
<1>3. failure'[j] = Granted(j) /\ served' = served \ {i \in Jobs : Grants(i)}
  BY DEF Authorize
<1>4. CASE Grants(j)
  <2>1. Granted(j) = [failure[j] EXCEPT !.granted = instant]
    BY <1>4 DEF Granted
  <2> QED
    BY <1>2, <1>3, <1>4, <2>1
<1>5. CASE ~Grants(j)
  BY <1>3, <1>5 DEF Granted
<1> QED
  BY <1>3, <1>4, <1>5

\* The annotator takes one step of its cycle at a time, or none.
LEMMA CycleTimes ==
  ASSUME TInv, LanesInRound, [Next]_vars, ~BeginSync
  PROVE  /\ now' = now \/ now' = now + 1
         /\ instant' = instant \/ instant' = 0
         /\ phase' \in SYNCING => phase \in SYNCING /\ instant' = instant
<1>1. CASE \/ UNCHANGED vars \/ Operator \/ InstallContract \/ Tick
           \/ \E w \in Workers : LaneStep(w) \/ LaneError(w)
           \/ \E j \in Churning : Supersede(j)
  <2>1. Framed
    BY <1>1, FramedSteps
  <2> QED
    BY <2>1 DEF Framed
<1>2. CASE SyncStep \/ StartLanes \/ Crash
  BY <1>2 DEF SyncStep, StartLanes, Crash, Authorize, Discover, EndEnqueue, Enqueue,
     Reconcile, ReopenProtected, SYNCING
<1> QED
  BY <1>1, <1>2 DEF Next

LEMMA GrantOrderStep ==
  ASSUME TInv, TInv', LanesInRound, GrantOrder, [Next]_vars
  PROVE  GrantOrder'
<1>0. /\ now \in Nat /\ instant \in Nat /\ instant' \in Nat /\ now' \in Nat
      /\ served \subseteq Jobs /\ served' \subseteq Jobs
      /\ \A j \in Jobs : /\ failure[j].granted \in Nat \cup {NoGrant}
                         /\ failure'[j].granted \in Nat \cup {NoGrant}
                         /\ jobs[j].updated \in Nat /\ jobs'[j].updated \in Nat
      /\ NoGrant = -1
  BY DEF TInv, TypeOK, Row, NoGrant
<1>1. CASE BeginSync
  <2>1. /\ phase' = "authorize" /\ instant' = now /\ now' = now
        /\ UNCHANGED <<jobs, failure, served>>
    BY <1>1 DEF BeginSync, evidence
  <2> QED
    BY <1>0, <2>1 DEF GrantOrder
<1>2. CASE Authorize
  <2>1. /\ phase = "authorize" /\ UNCHANGED <<now, instant>> /\ served' \subseteq served
    BY <1>2 DEF Authorize
  <2>2. ASSUME NEW j \in Jobs PROVE failure'[j].granted <= instant
    BY <1>0, <1>2, <2>1, AuthorizeGrants DEF GrantOrder, SYNCING
  <2>3. ASSUME NEW j \in served' PROVE failure'[j].granted <= jobs'[j].updated
    <3>1. j \in Jobs /\ j \in served /\ failure'[j].granted = failure[j].granted
      BY <1>0, <1>2, <2>1, <2>3, AuthorizeGrants
    <3>2. Stamped(j)
      BY <3>1, StepStamps
    <3>3. failure[j].granted <= jobs[j].updated /\ failure[j].granted <= instant
            /\ failure[j].granted <= now
      BY <2>1, <3>1 DEF GrantOrder, SYNCING
    <3> QED
      BY <3>1, <3>2, <3>3 DEF Stamped
  <2> QED
    BY <1>0, <2>1, <2>2, <2>3 DEF GrantOrder
<1>3. CASE ~BeginSync /\ ~Authorize
  <2>1. /\ now' = now \/ now' = now + 1
        /\ instant' = instant \/ instant' = 0
        /\ phase' \in SYNCING => phase \in SYNCING /\ instant' = instant
    BY <1>3, CycleTimes
  <2>2. \A j \in Jobs : failure'[j].granted = failure[j].granted
                          \/ failure'[j].granted = NoGrant
    BY <1>3, GrantsStep
  <2>3. /\ \A j \in Jobs : Stamped(j)
        /\ \A j \in served' \ served : jobs'[j].updated = now
    BY StepStamps
  <2>4. instant' <= now'
    BY <1>0, <2>1 DEF GrantOrder
  <2>5. ASSUME NEW j \in Jobs
        PROVE  /\ failure'[j].granted <= now'
               /\ phase' \in SYNCING => failure'[j].granted <= instant'
    BY <1>0, <2>1, <2>2 DEF GrantOrder
  <2>6. ASSUME NEW j \in served' PROVE failure'[j].granted <= jobs'[j].updated
    <3>0. j \in Jobs
      BY <1>0, <2>6
    <3>1. CASE failure'[j].granted = NoGrant
      BY <1>0, <3>0, <3>1
    <3>2. CASE failure'[j].granted = failure[j].granted /\ j \in served
      <4>1. /\ failure[j].granted <= jobs[j].updated /\ failure[j].granted <= now
            /\ phase \in SYNCING => failure[j].granted <= instant
        BY <3>0, <3>2 DEF GrantOrder
      <4> QED
        BY <2>3, <3>0, <3>2, <4>1 DEF Stamped
    <3>3. CASE failure'[j].granted = failure[j].granted /\ j \notin served
      BY <2>3, <2>6, <3>0, <3>3 DEF GrantOrder
    <3> QED
      BY <2>2, <3>0, <3>1, <3>2, <3>3
  <2> QED
    BY <2>4, <2>5, <2>6 DEF GrantOrder
<1> QED
  BY <1>1, <1>2, <1>3

LEMMA GrantOrderAlways == Spec => []GrantOrder
<1>1. Init => GrantOrder
  BY DEF Init, GrantOrder, NoGrant
<1>2. TInv /\ TInv' /\ LanesInRound /\ GrantOrder /\ [Next]_vars => GrantOrder'
  BY GrantOrderStep
<1> QED
  BY <1>1, <1>2, CycleAlways, PTL DEF Spec

\* While an override stays active its job, as long as it waits, waits for the
\* time the operator chose: no sync pass, recovery, reconciliation, contract or
\* other job's command moves it.
THEOREM OverridesStand == Spec => OverrideStands
<1>1. TInv /\ [Next]_vars =>
        [\A r \in Requests :
           overrides[r].active /\ overrides'[r].active
             /\ jobs[overrides[r].job].state \in WAITING
             /\ jobs'[overrides[r].job].state \in WAITING
           => jobs'[overrides[r].job].avail = jobs[overrides[r].job].avail]_vars
  BY OverrideStandsStep
<1> QED
  BY <1>1, CycleAlways, PTL DEF Spec, OverrideStands

\* A recovery grant requeues a job at most until the job is claimed, however
\* many passes read the grant afterwards.
THEOREM GrantsRecoverOnce == Spec => RecoverOnce
<1>1. TInv /\ GrantOrder /\ [Next]_vars =>
        [phase = "authorize" /\ phase' = "discover" =>
           \A j \in Jobs : jobs'[j] # jobs[j] => j \notin served']_vars
  <2> SUFFICES ASSUME TInv, GrantOrder, [Next]_vars, phase = "authorize",
                      phase' = "discover", NEW j \in Jobs, jobs'[j] # jobs[j],
                      j \in served'
               PROVE  FALSE
    OBVIOUS
  <2>1. Authorize
    <3>1. CASE \/ UNCHANGED vars \/ Operator \/ InstallContract \/ Tick
               \/ \E i \in Churning : Supersede(i)
      BY <3>1 DEF vars, Operator, ApplyOverride, InstallContract, Tick, Supersede, process
    <3>2. ASSUME NEW w \in Workers, LaneStep(w) \/ LaneError(w) PROVE phase' = phase
      BY <3>2 DEF LaneStep, LaneError, ProviderAnswer, SettleJob, Claim, ClaimNothing,
         LaneFull, Execute, StoreProduct, DuplicateProduct, RecordFailure, Prohibit,
         Deferred, CompleteJob, RetireJob, ReleasePending, DeferForMaintenance,
         ReleaseDeferred, ReleaseFailed, LoseLease, Transition, process
    <3>3. CASE SyncStep \/ StartLanes \/ Crash
      BY <3>3 DEF SyncStep, BeginSync, Discover, Enqueue, EndEnqueue, Reconcile,
         ReopenProtected, StartLanes, Crash
    <3> QED
      BY <3>1, <3>2, <3>3 DEF Next
  <2>2. Requeues(j) /\ j \in served
    BY <2>1 DEF Authorize
  <2>3. jobs[j].updated < failure[j].granted
    BY <2>1, <2>2, AuthorizeGrants DEF Requeues
  <2>4. failure[j].granted <= jobs[j].updated
    BY <2>2 DEF GrantOrder
  <2>5. jobs[j].updated \in Nat /\ failure[j].granted \in Int
    BY DEF TInv, TypeOK, Row, NoGrant
  <2> QED
    BY <2>3, <2>4, <2>5
<1> QED
  BY <1>1, CycleAlways, GrantOrderAlways, PTL DEF Spec, RecoverOnce

\* No pass moves a row without a new command or a new grant.
THEOREM MovesAreAlwaysAuthorized == Spec => MovesAreAuthorized
BY OverridesStand, GrantsRecoverOnce DEF MovesAreAuthorized
=============================================================================
