------------------------- MODULE ContractMigration -------------------------
(*****************************************************************************)
(* A change of annotation contract: one pass of sync_pending_jobs after      *)
(* another assigns old annotation rows to a work lane, gives old derived     *)
(* rows the lane of their annotation, walks the historical revisions with    *)
(* a cursor and enqueues those still worth annotating, while lanes claim     *)
(* and settle rows between the passes and the annotator may crash between    *)
(* any two transactions.                                                     *)
(* Source: xauusd_news/news/scheduler/state.py.                              *)
(*                                                                           *)
(* JobQueue models leases, retries and supersession; here every revision     *)
(* stays eligible, a lane settles within its lease, and QUEUED and           *)
(* BACKING_OFF are both WAITING, since no step below tells them apart.  An   *)
(* annotation row is named by its revision.  A row whose revision is lost    *)
(* behaves as a historical row without value and is not modelled apart.      *)
(*****************************************************************************)
EXTENDS Integers, FiniteSets, FiniteSetsExt

CONSTANTS
  Revisions,
  Historical,   \* revisions first seen before activated_at
  Valued,       \* those with _contract_backfill_has_current_value
  DayOf,        \* receipt day of each revision
  Titles,       \* TITLE_TRANSLATION jobs
  Impacts,      \* ACTIVE_IMPACT jobs of annotations of the current contract
  OldImpacts,   \* ACTIVE_IMPACT jobs of annotations of an earlier contract
  Parent,       \* the revision a derived job is about
  Created,      \* (created_at, job_id) order of the rows of the old release
  Received,     \* (collector_first_seen_time, ...) order of revisions
  Legacies,     \* states the rows may be in when the contract starts
  Limit,        \* limit of sync_pending_jobs
  LanePage, DownPage, BackfillPage,
  MaxCrashes    \* bound: crashes

Derived == Titles \cup Impacts \cup OldImpacts
Jobs == Revisions \cup Derived
Days == {DayOf[r] : r \in Revisions}
STATES == {"ABSENT", "WAITING", "LEASED", "COMPLETED", "OBSOLETE"}
WORK_LANES == {"LIVE", "CONTRACT_BACKFILL"}
PROVENANCE == {"NONE", "CURRENT", "UNRESOLVED"}
Latest == Cardinality(Revisions) + 1

ASSUME ContractMigrationAssumption ==
  /\ IsFiniteSet(Revisions) /\ IsFiniteSet(Derived)
  /\ Revisions \cap Derived = {} /\ Titles \cap Impacts = {}
  /\ OldImpacts \cap (Titles \cup Impacts) = {}
  /\ Valued \subseteq Historical /\ Historical \subseteq Revisions
  /\ Parent \in [Derived -> Revisions]
  /\ Created \in [Jobs -> Nat \ {0}]
  /\ \A i, j \in Jobs : i # j => Created[i] # Created[j]
  /\ Received \in [Revisions -> 1 .. Latest - 1]
  /\ \A r, s \in Revisions : r # s => Received[r] # Received[s]
  /\ Legacies \subseteq [Jobs -> STATES]
  /\ {Limit, LanePage, DownPage, BackfillPage} \subseteq Nat \ {0}
  /\ MaxCrashes \in Nat

VARIABLES
  received,   \* news_revisions
  annotated,  \* revisions with a usable annotation of the contract
  produced,   \* derived jobs whose product is stored
  rows,       \* news_ai_jobs_v1
  laneMig,    \* news_annotation_work_lane_migrations_v1
  backfill,   \* news_annotation_contract_backfill_v1
  down,       \* news_downstream_provenance_migrations_v1
  pc,         \* the step of sync_pending_jobs, "round" or "idle"
  todo,       \* rows this pass has read and not yet enqueued
  found,      \* ACTIVE_ANNOTATION rows this pass discovered, by kind
  backlog,    \* brief_backlog of this pass
  held,       \* jobs executed by lanes of this process
  served,     \* jobs claimed in this round
  crashes

evidence == <<received, annotated, produced>>
migrations == <<laneMig, backfill, down>>
process == <<pc, todo, found, backlog, held, served>>
migrationVars == <<evidence, rows, migrations, process, crashes>>
-----------------------------------------------------------------------------
Min2(a, b) == IF a < b THEN a ELSE b
Max2(a, b) == IF a < b THEN b ELSE a

\* The n elements of S that come first in the order.
FirstOf(S, order, n) ==
  {x \in S : Cardinality({y \in S : order[y] < order[x]}) < n}

\* The lane and priority a revision's receipt time gives its annotation row.
Side(r) == IF r \in Historical THEN "CONTRACT_BACKFILL" ELSE "LIVE"
SidePriority(r) == IF r \in Historical THEN "BACKGROUND" ELSE "FAST"

About(j) == IF j \in Derived THEN Parent[j] ELSE j

\* resolve_work_provenance finds the one classified annotation row.
Resolvable(d) ==
  /\ d \notin OldImpacts
  /\ Parent[d] \in annotated
  /\ rows[Parent[d]].state # "ABSENT" /\ rows[Parent[d]].classified

InheritedPriority(lane, priority) ==
  IF lane = "CONTRACT_BACKFILL" THEN "BACKGROUND" ELSE priority

\* Mutant: an existing row is never refreshed.
InsertOnly(j, lane, priority, reopen) ==
  IF rows[j].state = "ABSENT"
  THEN [state |-> "WAITING", lane |-> lane, priority |-> priority,
        classified |-> TRUE, provenance |-> "CURRENT"]
  ELSE rows[j]

\* enqueue_job: insert, or refresh a waiting row; reopen a completed one.
Enqueued(j, lane, priority, reopen) ==
  LET owned == [rows[j] EXCEPT !.state = "WAITING", !.lane = lane,
                  !.priority = priority, !.classified = TRUE,
                  !.provenance = "CURRENT"]
  IN CASE rows[j].state \in {"ABSENT", "WAITING"} -> owned
       [] rows[j].state = "COMPLETED" /\ reopen ->
            [rows[j] EXCEPT !.state = "WAITING"]
       [] OTHER -> rows[j]

LegacyRow(j, state) ==
  [state |-> state, lane |-> "LIVE", priority |-> "NORMAL",
   classified |-> j \in Derived, provenance |-> "NONE"]

(*****************************************************************************)
(* The old release left rows of every state: annotation rows without a       *)
(* lane, derived rows on the default lane and without provenance.            *)
(*****************************************************************************)
MigrationInit ==
  \E legacy \in Legacies :
    /\ rows = [j \in Jobs |-> LegacyRow(j, legacy[j])]
    /\ received = Historical \cup {r \in Revisions : legacy[r] # "ABSENT"}
                    \cup {Parent[d] : d \in {e \in Derived : legacy[e] # "ABSENT"}}
    /\ annotated \in SUBSET {r \in Revisions : legacy[r] \in {"COMPLETED", "LEASED"}}
    /\ {Parent[d] : d \in {e \in Impacts : legacy[e] # "ABSENT"}} \subseteq annotated
    /\ produced = {d \in Derived : legacy[d] = "COMPLETED"}
    /\ laneMig = [state |-> "NONE", cursor |-> 0]
    /\ backfill = [state |-> "NONE", cursor |-> Latest]
    /\ down = [state |-> "NONE", cursor |-> 0]
    /\ pc = "idle" /\ todo = {} /\ backlog = {}
    /\ found = [live |-> {}, protected |-> {}, ordinary |-> {}]
    /\ held = {} /\ served = {} /\ crashes = 0
-----------------------------------------------------------------------------
StartSync ==
  /\ pc = "idle"
  /\ pc' = "install"
  /\ UNCHANGED <<evidence, rows, migrations, todo, found, backlog, held, served, crashes>>

\* _install_annotation_contract_lanes, its first transaction.
InstallLanes ==
  /\ pc = "install"
  /\ laneMig' = [laneMig EXCEPT !.state = IF @ = "NONE" THEN "ACTIVE" ELSE @]
  /\ backfill' = [backfill EXCEPT !.state = IF @ = "NONE" THEN "ACTIVE" ELSE @]
  /\ pc' = "lanes"
  /\ UNCHANGED <<evidence, rows, down, todo, found, backlog, held, served, crashes>>

\* A historical row that still waits for an annotation of no use is retired.
Classified(r) ==
  [rows[r] EXCEPT
     !.lane = Side(r), !.priority = SidePriority(r), !.classified = TRUE,
     !.state = IF r \in Historical \ Valued /\ @ = "WAITING" THEN "OBSOLETE" ELSE @]

LanePageRows ==
  FirstOf({r \in Revisions : /\ rows[r].state # "ABSENT" /\ ~rows[r].classified
                             /\ Created[r] > laneMig.cursor},
          Created, LanePage)

\* _install_annotation_contract_lanes: a page of rows and its cursor commit
\* together.
ClassifyPage ==
  /\ pc = "lanes"
  /\ IF laneMig.state = "COMPLETE"
     THEN UNCHANGED <<rows, laneMig>>
     ELSE LET page == LanePageRows
          IN /\ rows' = [j \in Jobs |-> IF j \in page THEN Classified(j) ELSE rows[j]]
             /\ laneMig' =
                  [state |-> IF Cardinality(page) < LanePage THEN "COMPLETE" ELSE "ACTIVE",
                   cursor |-> Max({laneMig.cursor} \cup {Created[r] : r \in page})]
  /\ pc' = "downinstall"
  /\ UNCHANGED <<evidence, backfill, down, todo, found, backlog, held, served, crashes>>

\* _install_downstream_work_provenance, its first transaction.
InstallDownstream ==
  /\ pc = "downinstall"
  /\ down' = [down EXCEPT !.state = IF @ = "NONE" THEN "ACTIVE" ELSE @]
  /\ pc' = "down"
  /\ UNCHANGED <<evidence, rows, laneMig, backfill, todo, found, backlog, held, served,
                 crashes>>

Stale == {d \in Derived : rows[d].state # "ABSENT" /\ rows[d].provenance = "NONE"}
ParentsComplete == laneMig.state = "COMPLETE"

\* Once every annotation row has its lane, waiting rows are repaired first.
PriorityPage == ParentsComplete /\ \E d \in Stale : rows[d].state = "WAITING"
DownPageRows ==
  IF PriorityPage
  THEN FirstOf({d \in Stale : rows[d].state = "WAITING"}, Created, DownPage)
  ELSE FirstOf({d \in Stale : Created[d] > down.cursor}, Created, DownPage)

\* Mutant: leased rows are repaired as well.
FinalizedAll(page) == {d \in page : Resolvable(d) \/ ParentsComplete}

\* A leased row is left for a later page, and so is a row whose annotation has
\* no lane yet.
Finalized(page) ==
  {d \in page : rows[d].state # "LEASED" /\ (Resolvable(d) \/ ParentsComplete)}

Provenanced(d) ==
  IF Resolvable(d)
  THEN LET lane == rows[Parent[d]].lane
       IN [rows[d] EXCEPT !.lane = lane, !.classified = TRUE, !.provenance = "CURRENT",
                          !.priority = InheritedPriority(lane, @)]
  ELSE [rows[d] EXCEPT !.classified = FALSE, !.provenance = "UNRESOLVED"]

\* Mutant: a short page ends the migration, whatever was skipped.
DoneAtShortPage(page, remaining) ==
  IF PriorityPage THEN [down EXCEPT !.state = "ACTIVE"]
  ELSE IF Cardinality(page) < DownPage THEN [state |-> "COMPLETE", cursor |-> 0]
  ELSE [state |-> "ACTIVE", cursor |-> Max({Created[d] : d \in page})]

\* What the page leaves of the migration's own row.
DownProgress(page, remaining) ==
  IF PriorityPage THEN [down EXCEPT !.state = "ACTIVE"]
  ELSE IF Cardinality(page) < DownPage
  THEN [state |-> IF remaining = {} THEN "COMPLETE" ELSE "WAITING_INPUT", cursor |-> 0]
  ELSE [state |-> "ACTIVE", cursor |-> Max({Created[d] : d \in page})]

\* _install_downstream_work_provenance: a page of derived rows and its cursor.
RepairPage ==
  /\ pc = "down"
  /\ IF down.state = "COMPLETE"
     THEN UNCHANGED <<rows, down>>
     ELSE LET page == DownPageRows
              final == Finalized(page)
          IN /\ rows' = [j \in Jobs |-> IF j \in final THEN Provenanced(j) ELSE rows[j]]
             /\ down' = DownProgress(page, Stale \ final)
  /\ pc' = "discover"
  /\ UNCHANGED <<evidence, laneMig, backfill, todo, found, backlog, held, served, crashes>>
-----------------------------------------------------------------------------
\* pending_annotation_records with discovery_only: not yet annotated, and no
\* row owns the work (an OBSOLETE row does not).
Discoverable ==
  {r \in received \ annotated : rows[r].state \notin {"WAITING", "LEASED"}}

BackfillCapacity ==
  IF Limit > 1 THEN Min2(BackfillPage, Max2(1, Limit \div 2)) ELSE 0
LiveCapacity == Max2(1, Limit - BackfillCapacity)

\* One slot stays with the ordinary backfill while it runs.
ProtectedCapacity(days) ==
  IF days = {} THEN 0
  ELSE BackfillCapacity -
         (IF backfill.state # "COMPLETE" /\ BackfillCapacity > 1 THEN 1 ELSE 0)

OrdinaryCapacity(protected) == BackfillCapacity - Cardinality(protected)

Selections(S, n) == {T \in SUBSET S : Cardinality(T) = Min2(n, Cardinality(S))}

\* priority_receipt_days puts the revisions of those days first; it selects
\* nothing.
DaysFirst(T, S, days) ==
  (\E r \in T : DayOf[r] \notin days) => {r \in S : DayOf[r] \in days} \subseteq T

\* _contract_backfill_page reads below its cursor, newest first.
ScanRows(size) ==
  IF backfill.state = "COMPLETE" \/ size <= 0 THEN {}
  ELSE FirstOf({r \in Discoverable \cap Historical : Received[r] < backfill.cursor},
               [r \in Revisions |-> Latest - Received[r]], size)

\* Mutant: the page is compared with the page bound, not with its own size.
BelowPageBound(scanned, size) == Cardinality(scanned) < BackfillPage

ScanExhausted(scanned, size) == Cardinality(scanned) < size

(*****************************************************************************)
(* The reads of one pass and the commit of the backfill cursor.  The rows    *)
(* read are enqueued afterwards, in transactions of their own.               *)
(*****************************************************************************)
Discover ==
  /\ pc = "discover"
  /\ \E days \in SUBSET Days :
     \E live \in Selections(Discoverable \ Historical, LiveCapacity) :
     \E protected \in Selections(Discoverable \cap Historical, ProtectedCapacity(days)) :
       LET size == OrdinaryCapacity(protected)
           scanned == ScanRows(size)
       IN /\ DaysFirst(protected, Discoverable \cap Historical, days)
          /\ backlog' = days
          /\ found' = [live |-> live, protected |-> protected,
                       ordinary |-> scanned \cap Valued]
          /\ todo' = live \cup protected \cup (scanned \cap Valued)
          /\ backfill' =
               IF backfill.state = "COMPLETE" \/ size <= 0 THEN backfill
               ELSE [cursor |-> Min({backfill.cursor} \cup {Received[r] : r \in scanned}),
                     state |-> IF ScanExhausted(scanned, size) THEN "COMPLETE" ELSE "ACTIVE"]
  /\ pc' = "enqueue"
  /\ UNCHANGED <<evidence, rows, laneMig, down, held, served, crashes>>

\* The live rows are enqueued before the historical ones.
Enqueue ==
  /\ pc = "enqueue"
  /\ \E r \in todo :
       /\ r \in Historical => todo \subseteq Historical
       /\ rows' = [rows EXCEPT ![r] = Enqueued(r, Side(r), SidePriority(r), TRUE)]
       /\ todo' = todo \ {r}
  /\ UNCHANGED <<evidence, migrations, pc, found, backlog, held, served, crashes>>

\* pending_impact_records and pending_title_translation_records; the limits on
\* them are above the derived jobs of an instance.
PendingDerived ==
  {d \in Titles : Parent[d] \in received} \cup {d \in Impacts : Parent[d] \in annotated}

DiscoverDerived ==
  /\ pc = "enqueue" /\ todo = {}
  /\ todo' = PendingDerived \ produced
  /\ pc' = "derived"
  /\ UNCHANGED <<evidence, rows, migrations, found, backlog, held, served, crashes>>

\* enqueue_derived_ai_job, for a job whose annotation row has a lane.
EnqueueDerived ==
  /\ pc = "derived"
  /\ \E d \in todo :
       /\ todo' = todo \ {d}
       /\ rows' = IF ~Resolvable(d) THEN rows
                  ELSE LET lane == rows[Parent[d]].lane
                           priority == InheritedPriority(
                                lane, IF d \in Titles THEN "BACKGROUND" ELSE "NORMAL")
                       IN [rows EXCEPT ![d] = Enqueued(d, lane, priority, FALSE)]
  /\ UNCHANGED <<evidence, migrations, pc, found, backlog, held, served, crashes>>

\* reconcile_completed_jobs: rows whose product is stored are complete, and a
\* completed annotation row without an annotation is obsolete.
Reconciled(j) ==
  CASE rows[j].state \in {"WAITING", "LEASED"} /\ j \in annotated \cup produced ->
         [rows[j] EXCEPT !.state = "COMPLETED"]
    [] rows[j].state = "COMPLETED" /\ j \in Revisions \ annotated ->
         [rows[j] EXCEPT !.state = "OBSOLETE"]
    [] OTHER -> rows[j]

Reconcile ==
  /\ pc = "derived" /\ todo = {}
  /\ rows' = [j \in Jobs |-> Reconciled(j)]
  /\ pc' = "reopen"
  /\ UNCHANGED <<evidence, migrations, todo, found, backlog, held, served, crashes>>

\* Mutant: retired rows stay retired.
NeverReopened(r) == rows[r]

\* _reopen_protected_annotation_jobs
Reopened(r) ==
  IF rows[r].state = "OBSOLETE" THEN [rows[r] EXCEPT !.state = "WAITING"] ELSE rows[r]

ReopenProtected ==
  /\ pc = "reopen"
  /\ rows' = [j \in Jobs |-> IF j \in found.protected THEN Reopened(j) ELSE rows[j]]
  /\ pc' = "round"
  /\ found' = [live |-> {}, protected |-> {}, ordinary |-> {}]
  /\ backlog' = {}
  /\ UNCHANGED <<evidence, migrations, todo, held, served, crashes>>
-----------------------------------------------------------------------------

\* A lease no lane holds is that of a lane lost in a crash.
Orphans == {j \in Jobs : rows[j].state = "LEASED"} \ held
Expired(X) == [j \in Jobs |-> IF j \in X THEN [rows[j] EXCEPT !.state = "WAITING"] ELSE rows[j]]

\* Mutant: a lane is enough, wherever it came from.
HasLane(j) == rows[j].classified

\* The guard of claim_job: the row has a lane, and a derived row has it from
\* its annotation.
Owned(j) == rows[j].classified /\ (j \in Derived => rows[j].provenance = "CURRENT")

\* claim_job returns leases that ran out to the queue and takes one row.
Claim ==
  /\ pc = "round"
  /\ \E X \in SUBSET Orphans : \E j \in Jobs \ served :
       /\ Expired(X)[j].state = "WAITING" /\ Owned(j)
       /\ rows' = [Expired(X) EXCEPT ![j].state = "LEASED"]
       /\ held' = held \cup {j}
       /\ served' = served \cup {j}
  /\ UNCHANGED <<evidence, migrations, pc, todo, found, backlog, crashes>>

\* claim_job finds no row the lane may take; the leases in X were over.
ClaimNothing(X) ==
  /\ pc = "round" /\ X # {}
  /\ rows' = Expired(X)
  /\ UNCHANGED <<evidence, migrations, process, crashes>>

\* The execution of a job stores its product and leaves the leased row alone.
StoreProduct(j) ==
  /\ j \in held
  /\ IF j \in Derived
     THEN /\ j \notin produced /\ produced' = produced \cup {j}
          /\ UNCHANGED annotated
     ELSE /\ j \notin annotated /\ annotated' = annotated \cup {j}
          /\ UNCHANGED produced
  /\ UNCHANGED <<received, rows, migrations, process, crashes>>

Settle(j, state) ==
  /\ j \in held
  /\ rows' = [rows EXCEPT ![j].state = state]
  /\ held' = held \ {j}
  /\ UNCHANGED <<evidence, migrations, pc, todo, found, backlog, served, crashes>>

CompleteJob(j) == j \in annotated \cup produced /\ Settle(j, "COMPLETED")
ReleaseJob(j) == Settle(j, "WAITING")

\* The lanes have joined and the annotator sleeps until its next cycle.
EndRound ==
  /\ pc = "round" /\ held = {}
  /\ pc' = "idle" /\ served' = {}
  /\ UNCHANGED <<evidence, rows, migrations, todo, found, backlog, held, crashes>>

\* The collector stores a revision, which is LIVE from now on.
Receive(r) ==
  /\ r \notin received
  /\ received' = received \cup {r}
  /\ UNCHANGED <<annotated, produced, rows, migrations, process, crashes>>

\* The annotator ends between two transactions and is started again.
RuntimeDies ==
  /\ pc # "idle" /\ crashes < MaxCrashes
  /\ crashes' = crashes + 1
  /\ pc' = "idle" /\ todo' = {} /\ backlog' = {} /\ held' = {} /\ served' = {}
  /\ found' = [live |-> {}, protected |-> {}, ordinary |-> {}]
  /\ UNCHANGED <<evidence, rows, migrations>>
-----------------------------------------------------------------------------
Sync ==
  \/ StartSync \/ InstallLanes \/ ClassifyPage \/ InstallDownstream \/ RepairPage
  \/ Discover \/ Enqueue \/ DiscoverDerived \/ EnqueueDerived \/ Reconcile
  \/ ReopenProtected \/ EndRound

Settlement == \E j \in Jobs : StoreProduct(j) \/ CompleteJob(j) \/ ReleaseJob(j)

MigrationNext ==
  \/ Sync \/ Claim \/ Settlement
  \/ \E X \in SUBSET Orphans : ClaimNothing(X)
  \/ \E r \in Revisions : Receive(r)
  \/ RuntimeDies

MigrationSpec == MigrationInit /\ [][MigrationNext]_migrationVars

(*****************************************************************************)
(* The supervisor restarts the annotator and a pass goes on from step to     *)
(* step; every execution returns; every round calls claim_job, and the       *)
(* time of an orphaned lease is over sooner or later.                        *)
(*****************************************************************************)
FairMigrationSpec ==
  /\ MigrationSpec
  /\ WF_migrationVars(Sync)
  /\ SF_migrationVars(ClaimNothing(Orphans))
  /\ \A j \in Jobs : WF_migrationVars(CompleteJob(j) \/ ReleaseJob(j))
-----------------------------------------------------------------------------
Row == [state : STATES, lane : WORK_LANES, priority : {"FAST", "NORMAL", "BACKGROUND"},
        classified : BOOLEAN, provenance : PROVENANCE]

\* Types of the ledger and of the local state of a pass; what a lane executes is
\* leased, since no lane outlives its lease here.
MigrationTypeOK ==
  /\ received \subseteq Revisions /\ annotated \subseteq received
  /\ produced \subseteq Derived
  /\ rows \in [Jobs -> Row]
  /\ laneMig \in [state : {"NONE", "ACTIVE", "COMPLETE"}, cursor : Nat]
  /\ backfill \in [state : {"NONE", "ACTIVE", "COMPLETE"}, cursor : 1 .. Latest]
  /\ down \in [state : {"NONE", "ACTIVE", "WAITING_INPUT", "COMPLETE"}, cursor : Nat]
  /\ pc \in {"idle", "install", "lanes", "downinstall", "down", "discover", "enqueue",
            "derived", "reopen", "round"}
  /\ todo \subseteq Jobs
  /\ found \in [live : SUBSET Revisions, protected : SUBSET Revisions,
               ordinary : SUBSET Revisions]
  /\ backlog \subseteq Days
  /\ held \subseteq {j \in served : rows[j].state = "LEASED"} /\ served \subseteq Jobs
  /\ crashes \in 0 .. MaxCrashes

(******************************************************************************)
(* Work about a historical revision, annotation or derived, is only ever      *)
(* executed as background backfill, and live work only as LIVE, whichever     *)
(* of the two migrations, discovery or a reopening put the row in its lane    *)
(* (_install_annotation_contract_lanes, resolve_work_provenance, claim_job).  *)
(******************************************************************************)
OwnershipInherited ==
  \A j \in held :
    /\ rows[j].lane = Side(About(j))
    /\ About(j) \in Historical => rows[j].priority = "BACKGROUND"

(*****************************************************************************)
(* A migration that reports COMPLETE has left nothing behind: not rows its   *)
(* cursor passed, rows leased when a page reached them, or rows inserted     *)
(* since.  Later passes never look again.                                    *)
(*****************************************************************************)
CompleteMeansAll ==
  /\ laneMig.state = "COMPLETE" =>
       \A r \in Revisions : rows[r].state # "ABSENT" => rows[r].classified
  /\ down.state = "COMPLETE" => Stale = {}

(*****************************************************************************)
(* Neither a migration page nor discovery changes the lane, priority or      *)
(* provenance of a derived row while it is leased.                           *)
(*****************************************************************************)
LeasedUndisturbed ==
  [][\A d \in Derived :
       rows[d].state = "LEASED" /\ rows'[d].state = "LEASED" => rows'[d] = rows[d]]_migrationVars

(*****************************************************************************)
(* Protected and ordinary discovery together keep to the historical          *)
(* allowance of a pass, so that live work keeps the rest of limit.           *)
(*****************************************************************************)
DiscoveryBudget ==
  Cardinality(found.protected \cup found.ordinary) <= BackfillCapacity

(*****************************************************************************)
(* Once the backfill is COMPLETE and no pass is under way, every historical  *)
(* revision worth annotating is annotated or has a row.                      *)
(*****************************************************************************)
BackfillFindsAll ==
  backfill.state = "COMPLETE" /\ pc \in {"idle", "round"} =>
    \A r \in Valued : r \in annotated \/ rows[r].state # "ABSENT"

(*****************************************************************************)
(* Historical work enters the queue only when it can still affect current    *)
(* behaviour or belongs to an unfinished brief date.                         *)
(*****************************************************************************)
BackfillHasReason ==
  [][\A r \in Historical :
       rows[r].state \in {"ABSENT", "OBSOLETE"} /\ rows'[r].state = "WAITING"
         => r \in Valued \/ DayOf[r] \in backlog]_migrationVars

(*****************************************************************************)
(* All three migrations end, whatever the protected backlog asks for and     *)
(* whoever holds leases.                                                     *)
(*****************************************************************************)
MigrationsComplete ==
  <>(/\ laneMig.state = "COMPLETE" /\ backfill.state = "COMPLETE"
     /\ down.state = "COMPLETE")

(*****************************************************************************)
(* A waiting derived row whose annotation was missing when its page came is  *)
(* not stranded: once the annotation exists the row gets an owner.           *)
(*****************************************************************************)
UnresolvedIsRepaired ==
  \A d \in Derived :
    rows[d].provenance = "UNRESOLVED" /\ rows[d].state = "WAITING" /\ Resolvable(d)
      ~> rows[d].provenance = "CURRENT" \/ rows[d].state = "COMPLETED"
=============================================================================
