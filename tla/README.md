# XAUUSD Forecaster: a TLA+ verification project

This directory models the parts of the XAUUSD Forecaster repository whose
correctness depends on the order in which processes, lanes, providers, operators,
requests and crashes act: the news AI scheduler and what shares its rows, the
publication of its results to the hosted dashboard, the queues of the assistant,
and the upkeep of the local evidence. All paths are relative to `src/` of the
repository.

Contents: 1 inventory, 2 modules, 3 runs and their bounds, 4 fairness, 5 proofs,
6 what is only model-checked, 7 where the code and its documents differ, 8 what
is not modelled, 9 plan.

## 1. Inventory

| Component | State it keeps | Operations | How it interacts | What makes it correct | Modelled |
|---|---|---|---|---|---|
| Scheduler job queue (`xauusd_news/news/scheduler/state.py`) | `news_ai_jobs_v1`, retry overrides, failures (SQLite, WAL) | enqueue, claim with lease, complete / release / defer, reconcile, reopen, override | lanes in threads, one annotator, dashboard API, contract installs | one owner per lease, stale lanes fenced, settled and retired work does not return, LIVE before backfill, a product settles its job | `JobRows`, `JobQueue` |
| Annotator process (`scripts/runtime/run_news_annotator.py`) | nothing durable | sync, round, sync; restart | calls the queue | may stop between any two transactions | `JobQueue`, `LaneRound` |
| Account lanes (`scheduler/runtime.py`) | turn counter, shared exhausted task types | claim, try credentials, settle | lanes share accounts in a batch | no endless probes, impact work keeps its share | `LaneRound` |
| Quota admission and dispatch governor (`scheduler/state.py`, `scheduler/model_gateway.py`) | usage rows; next slot, interval, cooldown, demand | reserve, attempt, record outcome | every provider request | rolling limits, reserve, headroom; spacing, Retry-After, rotation | `ProviderAdmission` |
| Contract backfill and lane migrations (`scheduler/state.py`) | keyset cursors, lane and provenance columns | page, classify, resolve | sync pass, claim guard | every row classified, ownership inherited, resumes | `ContractMigration` |
| Critical annotation state (`news/semantics`) | materialization contract | complete a row when an annotation is stored, install a contract | writes rows outside the lease protocol | breaks neither leases nor retirement | in `JobQueue` |
| Annotation product and evidence ledger (`news/annotation`, `news/retrieval/event_identity.py`, `evidence/ledger.py`) | annotations, titles, assessments with identities, failures, repair checkpoints | ask, repair, resolve an identity, store, log a failure | called by the lanes with a claimed job; requests to the models | evidence is only added, a repair is of the captured answer, identities are grounded | `ArticleWork` |
| Operator retry overrides (`web/app/api/_shared/operator-retry.ts`, `dashboard/sync/resources.py`, `dashboard/operator_bridge.py`) | commands and job mirror in D1, ledger of applied commands | create, lease, apply, finish; mirror | web API, bridge, ledger | applied at most once, audit agrees, mirror converges | `OperatorRetry` implements `OperatorCommand`; `RetryMirror` |
| Retrieval and embeddings (`news/retrieval`) | vectors, backfill lease, route mode, receipts | catch up, choose a route, freeze a context | impact jobs, maintenance script, governor | one catch-up at a time, cooldown kept, context frozen | `Retrieval` |
| News collection (`news/collection`) | poll log, stored articles, status | poll, read, retry | owner thread, decision loop | paced, honest status, readable text is stored | `Intake` |
| Daily brief (`news/brief`) | revisions, finalizations, refresh state, date cache | discover dates, synthesize, finalize, correct | annotator, protected days | a closed day is settled once, from settled evidence | `DailyBrief` |
| News projection (`dashboard/news_resources.py`, `dashboard/sync`, `web/.../news-projection-*.ts`) | frozen snapshots, generations, receipts, state files | freeze, replay, activate, patch, sweep, read | two producers, one worker, readers | readers see whole generations only | `NewsProjection` implements `NewsArchive` |
| Capture of the source relations (`news_projection.py`, `scripts/maintenance/bootstrap_news_projection.py`) | part files, manifest, owner lock, replay artifact | read a page, correct the reader, plan, pin | commands started again and again | an exact copy, planned once, within its disk | `NewsCapture` |
| News evidence projection (`web/.../news-evidence-store.ts`) | transfers, receipts, current items | transfer differences, activate, clean, read | sync process, late requests, readers | what is read is one snapshot | `NewsEvidence` implements `NewsArchive` |
| Dashboard synchronizer (`scripts/runtime/run_dashboard_sync.py`) | schedule file, receipt of a deferred projection | heartbeat, lanes, backoff | control and heavy lane | neither lane starves, a deferred projection is completed | `SyncLanes` |
| Assistant turns (`assistant/chat_worker.py`, `web/.../assistant-chat.ts`, `assistant-events.ts`) | turns with leases, events, messages | send, claim, renew, publish, complete, fail, cancel | owner, D1, workers | one answer per turn, stream and status agree | `AssistantChat`, `AssistantEvents` |
| Assistant agent (`assistant/agent.py`, `tools.py`, `routing.py`, `evidence.py`, `content.py`) | local variables of an attempt, threads of a batch, the turn's events | model request, tool batch, final answer | worker's main thread, a thread for each call, providers, the web application's archive | budgets kept, citations grounded, one model, calls answered | `AssistantTools`, `AssistantAgent` |
| Assistant memory and conversation jobs (`web/.../assistant-memory*.ts`, `assistant-conversations.ts`, `news-questions.ts`) | summaries, pins, titles, index, questions: four leased queues | plan, claim, complete, fail, defer, recall | workers, owner | summaries chain, owner's title stands, recall is honest, a question is answered once | `LeasedJobs`, `AssistantMemory`, `AssistantTitles`, `MemoryIndex`, `NewsQuestions` |
| Assistant capacity router (`assistant/capacity.py`) | reservations in the request table | choose, reserve, confirm, finish | shares the table with the news lanes | keeps below its share | `AssistantCapacity` |
| Database maintenance (`xauusd_news/maintenance.py`) | snapshots, receipts, owner directories, plans | back up, retain, reclaim | collector incarnations | every file accounted for | `BackupRetention` |
| Token calibration, semantic transitions, storylines, operational health, market data, live broadcast, cTrader bridge, web router and views, release control | - | - | - | see section 8 | no |

`PROJECT.json` lists for each component what of it is modelled, and every hazard
at its line with the properties that watch it.

### What is hard here

* **Leases without a token.** `_transition_leased_job` compares the owner, not
  the claim. A lane's lease is 180 s and a provider call may be longer. The
  assistant's queues have tokens, but check them in one request and write in the
  next.
* **Writers outside the lease protocol.** Reconciliation, retirement, the
  completion bridge, contract installs and operators all write job rows; some
  of them touch leased rows, some deliberately do not.
* **Lists read in one transaction and used in another.** Discovery feeds
  enqueueing and the reopening of protected days; the blocked set is read before
  the claim; a compaction is planned from what a request read; a retention plan
  lies on disk until somebody carries it out.
* **Requests that outlive their client.** A post is given up after a timeout, and
  the worker may still execute it after the client's next one.
* **Two stores that must agree**: the ledger and D1, a file and a table, a table
  and a vector index, without a transaction over both.
* **A process that dies between any two commits**, restarted by its supervisor.
* **Boundaries**: the rolling minute against calendar minutes, the quota day,
  the priority reserve, `attempt_count` given back by a maintenance deferral,
  the fifth failure of a brief, the last attempt of a lease.

## 2. Modules

```
JobRows -- JobQueue ---------------- MCJobQueue, MCScheduler    JobQueueProofs
LaneRound -------------------------- MCScheduler (two instances)
ProviderAdmission, Retrieval ------- MCProviderAdmission        AdmissionAndMigrationProofs
ContractMigration ------------------ MCContractMigration, MCWeb AdmissionAndMigrationProofs
OperatorCommand <- OperatorRetry --- MCOperator                 OperatorRetryProofs
RetryMirror, ArticleWork ----------- MCOperator                 OperatorRetryProofs
NewsCapture ------------------------ MCOperator
NewsArchive <- NewsProjection ------ MCNewsProjection           NewsProjectionProofs
NewsArchive <- NewsEvidence -------- MCWeb                      NewsEvidenceProofs
AssistantEvents -- AssistantChat --- MCWeb
            \- AssistantAgent ------ MCAssistant                AssistantAgentProofs
AssistantTools -- AssistantAgent
LeasedJobs -- AssistantMemory ------ MCAssistant                AssistantMemoryProofs
           \- MemoryIndex, NewsQuestions -- MCAssistant         AssistantMemoryProofs
           \- AssistantTitles ------ MCAssistant
AssistantCapacity ------------------ MCAssistant
SyncLanes -------------------------- MCUpkeep
BackupRetention, DailyBrief, Intake  MCUpkeep                   UpkeepProofs
```

(`A <- B`: B is shown to implement A.) An MC module that checks several
components which share no state makes them the scenes of one specification: the
variable `scene` says which one moves, and the others rest in an initial state.
One action of a module is one transaction, one request to D1, one file operation,
or one local step between two of these; everything else may happen in between.
Bounds that are not in the code (clocks, faults, numbers of requests) are
constants named `Max...` or `Last...` and are used in guards only.

### JobRows and JobQueue

A row of `news_ai_jobs_v1` is a record of its state, `available_at`, lease
owner and expiry, `attempt_count`, the class of `last_error` that decides its
future, `updated_at` and `priority`. The columns of immutable evidence (task,
work lane, content hash, original priority) are constants. `JobRows` holds what
is pure: which rows `claim_job` may select (`Claimable`) and its ORDER BY as a
tuple (`ClaimKey`).

| Code | Actions |
|---|---|
| `sync_pending_jobs` | `BeginSync`, `Authorize`, `Discover`, `Enqueue` (one row each), `EndEnqueue`, `Reconcile`, `ReopenProtected`: separate commits, with everything else interleaved |
| `claim_job` | `Claim`, `ClaimNothing`; both expire leases first. A claim deactivates the job's overrides |
| `_execute_job` | `Execute` (content and evidence checks), then one of `StoreProduct`, `DuplicateProduct`, `RecordFailure`, `Prohibit`, `Deferred` |
| `append_annotation` -> `record_annotation_completion` | part of `StoreProduct`: the row of a stored annotation becomes COMPLETED if it is *not* leased |
| `complete_job`, `release_job`, `defer_job_for_maintenance` | `CompleteJob`, `RetireJob`, `ReleasePending`, `DeferForMaintenance`, `ReleaseDeferred`, `ReleaseFailed`; all through the owner check (`Transition`); `LoseLease` when it fails |
| `apply_retry_schedule_override` | `ApplyOverride` |
| `skip_prohibited_content` | `Prohibit` |
| `install_critical_annotation_state_schema` | `InstallContract`: annotations withdrawn, current ones bridged, rows reconciled, in one transaction |
| the collector | `Supersede` |
| supervisor, database errors | `Crash`, `LaneError` |

Abstractions.

* The lease owner is the lane. The code's worker id also holds the process and
  the turn, so the code's check is at least as strict as the modelled one; what
  is proved for lanes holds for the finer identity.
* `sync_pending_jobs` may skip reconciliation when its inputs are unchanged. The
  model always reconciles: reconciliation of unchanged inputs changes nothing.
* The failure detail appended after a prohibition is left out, because every
  reader of failures excludes marked hashes.
* Title products stored next to an annotation are not tracked: the title job
  settles through the pending reader like any other.
* Discovery limits and the unclassified rows of the lane migrations are left to
  `ContractMigration`; here every pending record is discovered.

### LaneRound

The turns of `_run_scheduled_lane`: the impact turn, the snapshot of exhausted
task types, the claim, the credential loop over `_credentials_for_job` with its
rotation by attempt, the attempt log (INSERT OR IGNORE on job, attempt and
credential) and settlement. A row is READY, LEASED, LATER or DONE and any READY
row may be claimed: which one is `JobQueue`'s business, and the properties here
do not depend on it. Execution is one answer from the set of an instance.

### ProviderAdmission

One quota surface (daily requests, rolling minute requests and tokens, the
backfill gate) and the Google dispatch governor, which one transaction reads and
writes together in `reserve_account_request`. The counters tables are sums over
the usage rows. A quota denial is rolled back whole; a denied slot commits its
demand, so `DispatchDeferred` is an action and a quota denial is not. The life of
a request is reserved, attempted, answered (usage row), governor told: two
transactions, with crashes between them. Rounding (`Eased`) is Python's
round-half-even. Not modelled: backup providers with their own scope and a
rolling 24-hour token limit, backfill admission without enough history, and the
counters `success_streak` and `throttle_count`, which nothing reads.

### ContractMigration

What `sync_pending_jobs` does when the annotation contract changes: rows of the
old release have no work lane, derived rows no provenance, and revisions older
than the activation are worked off in the background.

| Code | Model |
|---|---|
| `news_annotation_work_lane_migrations_v1`, `news_annotation_contract_backfill_v1`, `news_downstream_provenance_migrations_v1` | `laneMig`, `backfill`, `down`: a state and a keyset cursor each |
| `news_ai_jobs_v1` | `rows`: state, work lane, priority, whether the lane is known (`classified`) and the provenance status |
| `_install_annotation_contract_lanes` | `InstallLanes`, `ClassifyPage` |
| `_install_downstream_work_provenance`, `resolve_work_provenance` | `InstallDownstream`, `RepairPage`, `Resolvable` |
| discovery in `sync_pending_jobs`, `_contract_backfill_page` | `Discover`: the three reads and the commit of the cursor |
| `enqueue_job`, `enqueue_derived_ai_job` | `Enqueue`, `DiscoverDerived`, `EnqueueDerived`, one transaction per row |
| `reconcile_completed_jobs`, `_reopen_protected_annotation_jobs` | `Reconcile`, `ReopenProtected` |
| `claim_job` with its ownership guard, settlement | `Claim`, `ClaimNothing`, `StoreProduct`, `CompleteJob`, `ReleaseJob` |
| collector, supervisor | `Receive`, `Crash` |

Abstractions. Two modules look at the same rows: `JobQueue` at leases, retries,
supersession and settlement, this one at lanes, cursors and limits. QUEUED and
BACKING_OFF are one state, WAITING, because the migrations treat them alike. A
lane settles within its lease; the lease of a lane lost in a crash may end at any
claim. A row whose revision no longer exists behaves like a historical row
without current value and is not told apart. The limits on derived discovery are
above the derived jobs of an instance. A revision is not superseded while the
migrations run.

### Retrieval

Before an impact request a lane gives its article a context of earlier events
(`attach_hybrid_prior_event_context`). Every lane, and the maintenance script,
first catches missing vectors up under one lease of the embedding generation.

| Code | Actions |
|---|---|
| `_claim_backfill_lease`, `append_missing_embeddings` | `Claim`, `Select`, `Embed` or `EmbedFails` |
| `_clear_backfill_state`, `_record_backfill_failure`, `_release_backfill_lease` | `Clear`, `RecordFailure`, `Release`: each touches its own lease only |
| `_adaptive_retrieval_policy`, `_force_retrieval_fallback` | `Policy` reads, `WriteMode` writes, two steps; `ForceFallback` |
| `load_embeddings`, `_load_retrieval_receipt`, the queries, `_append_retrieval_receipt` | `Load`, `LoadReceipt`, `Query`, `QueryFails` |
| `_attach_deterministic_fallback` | `AttachFallback` |
| the script, publication of an annotation, supervisor | `RunScript`, `Annotate`, `RunnerCrash` |

Abstractions. What a ranking selects is the set of candidates it was computed
over. Articles are numbered by the time they were first seen and annotated in any
order; a call is for one article, as the lanes make it. The pressure of queues
and provider is any of `Pressures`. The limit on the universe is not reached.

### OperatorCommand, OperatorRetry and RetryMirror

`OperatorCommand` is the promise: a command takes effect at most once, its answer
is final and says APPLIED exactly if the ledger holds it. `OperatorRetry` is the
code: `createOperatorRetryRequests` (`Create`), `claimOperatorRetryRequest`
(`Claim`), the bridge's call of the local API (`Call`, `Apply`, `LateApply`),
`apply_retry_schedule_override` (`Execute`, `Verdict`), `finishOperatorRetryRequest`
(`Finish`, `LateFinish`), the page's mirror row (`Mirrored`) and a local client
(`LocalAsk`, `LocalCall`); `Schedule` is a scheduler step on the job. A time is an
instant together with the form it is written in, since the ledger compares
strings. `PATIENCE < LEASE`: the bridge's two timeouts are shorter than the lease.
The audit row REQUESTED is written with the command (see section 7).

`RetryMirror` is `syncOperatorRetryJobs` with its bounded mutations and the two
digests: `ReadList`, `Post`, `Lose`, and the list changing underneath (`Change`,
`Settle`).

### ArticleWork

What `_execute_job` does with a claimed job, one step for each request and each
transaction: `Take` and `Begin` (`pending_record_for_job`, and a stored checkpoint is resumed),
`Retrieve` (the candidates of `attach_hybrid_prior_event_context`), the requests with
their outcomes (`AskedAnnotation`, `AskedTitle`, `AnswerImpact`, `RejectImpact`, `Defer`, `Fail`,
`Refuse`), `SaveCheckpoint`, `Resolve` (`resolve_event_identity`), the rows (`StoreAnnotation` and
its title `StoreItsTitle`, `StoreTitle`, `StoreImpact`), the failures, whose number is read
in one transaction and inserted in the next (`CountFailures`, `LogFailure`), the mark of
refused content (`Mark`), and the lane's next credential (`LeaveOrAgain`). A lease may `Lapse`
under its worker, and the process may `StartAgain`, between any two steps.

Abstractions: a rejected answer is one of a few outputs; an accepted one is a relation
and an offered candidate; an identity is the number of the article it stands for; the
models are the default and the fallback of an annotation. A title's key does not
hold its model, as in the schema. The checkpoint of a display review and the feedback
of earlier repairs (`load_repair_feedback`) are left out.

### NewsCapture

`NewsProjectionSourceCapture`: a command reads the manifest and then again under `owner.lock`
(`Invoke`, `Advance`, `Denied`), reads a page (`ReadPage`, `ReadFails`), writes its part and then
the manifest (`Write` a temporary, `Replace` it, or `WriteFails` before or after the replacement),
binds one corrected reader to the rest (`Correct`, `Derive`), plans the replay once (`Finalize`,
`Plan`, `PlanFails`), and pins it (`Open`, `Pin`). `StopCommand` ends a process between two file
operations; its temporary stays. A part is the rows it holds, its place and its reader, which
is what its name is the digest of.

### NewsArchive, NewsProjection and NewsEvidence

`NewsArchive` is what a reader is promised: the archive is empty or one complete
frozen snapshot, and changes from one to another in a single step.

`NewsProjection` follows `_sync_news` against `news-projection-store.ts` and
`news-projection-delta.ts`: `Freeze`, `Begin` and `UpToDate`, `Delta` (a patch over the
acknowledged baseline), `Prepare` with the sweep of orphans and leftovers,
`Stage` one batch after another, `Activate`, `Verify`, `Confirm`, and the reader's
`Page`. A generation of snapshot s is `<<s>>` and a patch appends to its base, as the
digests that name them do. A detail never changes under its key. With `Overlap`
TRUE requests of two producers overlap inside the worker.

`NewsEvidence` follows `_sync_news_evidence` against `news-evidence-store.ts`:
`SendPrepare`, `SendStage`, `SendActivate`, `SendCleanup` put a request on its way, the
worker runs it (`RunPrepare` after `ReadPrepare`, `RunStage`, `RunActivate`, `RunCleanup`), the
client may give it up and go on while it still runs (`GiveUp`, `Lose`), transfers
age and expire, `Page` reads. An item is an event key with the version of its
payload; a snapshot is named by its content. With `Quick` TRUE the next
generation may follow the last one at once, before its receipts are cleaned.

### SyncLanes

`run_continuous_sync`: the heartbeat (`Heartbeat`, `HeartbeatLost`), the two lanes
(`Submit`, `LaneStep`, `Merge`), the schedule file with its phases and backoff
(`RecordSuccess`, `RecordFailure`, `Restart`), and the deferred projection that
takes `audit` and `news_evidence` over while it is requested (`DeferStep` and its
outcomes). Time is in ticks and relative to now.

### AssistantChat

A turn is named by its owner and idempotency key; the lease token is the number of
the attempt that drew it. Every request of the control plane reads, decides and
runs one guarded batch: `ReadEvents` / `CommitEvents`, `ReadComplete` /
`CommitComplete`, `ReadFail` / `CommitFail`, `ReadCancel` / `CommitCancel`; a claim is
`Recover` and `Claim`. The worker's loop is `Poll`, `Queue`, `Attempt`, `GiveUp`, `Return`,
`Crash`; `Accepts` (of `AssistantEvents`) is the event sequence the code enforces. Assumed: a request lives
shorter than half a lease. Answer deltas are one event; the model loop
and the tools are `AssistantAgent`, the formatting is data. The component is paused at this commit
(`docs/design/ASSISTANT_IMPLEMENTATION_STATUS.md:35`, `ASSISTANT_ACCEPTING_TURNS`).

### AssistantEvents, AssistantTools and AssistantAgent

What the worker does between a claim and its report. `AssistantTools` holds the pure
parts: the route (`Candidates`), what a plan is refused for (`PlanRejected`, `Refusal`),
the division of a batch's budgets (`Share`, `TokenBudget`, `EvidenceBudget`), the adapter
of the news search (`NewsResult`: completeness, cutoff, trimming to the budget) and the
check of the citations (`AnswerValid`). `AssistantAgent` is the loop of
`run_bounded_assistant_agent`: `run` stands for its local variables, `batch` for those of
`execute_batch`, `stream` for the turn's stored events.

* `Prepare`, `ModelTurn`, `FinalAnswer` and `Plan` are the main thread up to a batch; every
  early return and exception is a failure code.
* A batch's calls run in threads (`Thread`: `Begin`, `End`) against deadlines. `Wake` is the
  return of `wait(FIRST_COMPLETED)`, `Expire` the second reading of the clock after it;
  between the two a thread may finish and still be given up.
* `Settle` absorbs the results, appends both contents to the history and publishes the
  progress in requests of `POSTED` events, the last of which may fail. `GiveBack` is the
  failed report: the next attempt goes on with the same stream.

Data left out: texts, prompts, JSON schemas but for what they admit
(`SchemaAdmits`), hashes and receipts but for their results. Tokens are counted as the
code does, in bytes of what is sent. A request's estimate is linear in what was
absorbed (`BASE`, `WRAP`); `ModelFixed` and the context check depend on no more.

### LeasedJobs and the four queues of the assistant

`LeasedJobs` is the life of a row in all four tables: a claim returns lapsed rows
or ends them after the last attempt and leases the oldest due one; a report reads
by token and unexpired lease and writes by token in a second request. Times are
flags (`lapsed`, `due`).

* `AssistantMemory`: `PlanCompaction` reads, `ScheduleCompaction` writes what was
  planned under a version guard; `ClaimCompaction`, `ReadCompaction`,
  `CompleteCompaction`, `FailCompaction`, `DeferCompaction`; pins
  (`PinState`). How many messages fit the token budget is free. No code calls
  the endpoint that schedules; the model lets it be called (`Machine`).
* `AssistantTitles`: `RequestTitle`, `Rename`, `Archive`, the automatic title after the
  first answer, and a worker's report in two requests.
* `MemoryIndex`: `StoreMessage` (the trigger queues a job), `Upsert` to the vector
  store (external), `CompleteIndex`, and `Recall`.
* `NewsQuestions`: `CreateQuestion` with its limits in one batch, and the queue.

### AssistantCapacity

`execute_assistant_capacity_route`: `BeginRoute`, `Choose` over pools, models and keys,
`Reserve` in one transaction, `Confirm` with the exact tokens, `Outcome` and `RefusedCall`
(`FinishReservation`), `Crash`; `News` inserts a row of the news lanes. The usage row and the
reservation are one row. Assumed: a call ends before its reservation's time to
live.

### DailyBrief

`run_daily_brief_batch` day by day: `Discover` and `PublishDates` with the date
cache, `Update` and its outcomes (`Unchanged`, `NoNews`, `CandidatesUnchanged`, `RetryLater`,
`StillDeferred`, `Refresh`), the model's `Answer`, `Capacity` or `Fail`,
`RecordFailure`, `Fallback`, `Finalize` and `Record`, separate transactions with
`Crash` between. A packet stands for the bounded evidence of a day and may come
back. The packet's contents and the rules for material change are data.

### BackupRetention

`ensure_daily_forward_backup`, `apply_backup_retention` and
`reclaim_proven_stale_backup_temps`, one file operation per step: owner directory
and evidence (`Mkdir`, `Sign`, `Evict...`), `Copy`, `Replace`, `Receipt`; `Plan`,
`DeleteTarget`, `DeleteReceipt`, `EndRound`; `PlanReclaim`, `Reclaim`,
`AccountReclaim`. `StopProcess` and `StartProcess` are the collector's incarnations; `Edit` is a
snapshot changed by hand, `Refer` a new reference to a temporary. With `Signed`
TRUE no process stops while its owner directory lacks its evidence.

### Intake

`collect_official_news` from one source to the next (`Collect`, one collector per
`Kind`), `source_poll_gate` with its retry ladders (`Gate`, `DelayAfter`), the per-article
retries (`Attempts`), the poll log (`RecordPoll`, `WriteFails`), and the owner thread
(`StartRound`, `EndCollection`, `Abort`, `StopCollector`, `StartCollector`) with the status it shares
(`IsFresh`, `Warned`). Listings are fixed; parsing and relevance rules are data. What
the model shows without a property of its own: Retry-After counts from the start
of the round; one unreadable article keeps its source PARTIAL on the retry ladder;
unreadable articles at the head of a listing, as many as a poll attempts, starve
those behind them (the instance stays below that number).

## 3. Runs

Times are for two TLC workers. `CHECK_DEADLOCK FALSE` is set where an instance
runs out of bounded work (a last round, a last request, the end of the clock);
`lanes` and `migration` check deadlock.

| Run | Instance | Shows | States |
|---|---|---|---|
| `lanes` (`MCJobQueue`) | a live annotation and a backfill title about one article, 2 lanes, lease 1, 2 claims each, clock to 3, 1 crash, fairness | `LeaseShape`, `FenceMatchesClaim`, `ProhibitedStaysOut`, `ClaimOrder`, `ProductSettlesJob` | 160,880 |
| `scheduler` (`MCScheduler`) | overrides: 1 job that may be superseded, 1 lane, 2 requests, clock to 3; shared: 2 lanes of one account, 5 jobs; serial: 1 lane, accounts of 2 and 1 keys, 2 jobs, 2 rounds | `OverrideDiscipline`, `MovesAreAuthorized`, `RoundFair` | 2,184,233 |
| `admission` (`MCProviderAdmission`) | quota: 2 lanes, 3 requests (a routine batch of two, an urgent one or backfill), a minute boundary and a day boundary inside the clock; rotation: 3 classes; retrieval: a lane and the script, 2 articles, batches of one, lease 1, 1 fault | `QuotaKept`, `DispatchSpacing`, `RetryAfterHonoured`, `FairRotation2`, `RetrievalKept` | 804,703 |
| `migration` (`MCContractMigration`) | 2 historical and 1 live revision, a title, an impact and an impact of an earlier contract, old rows of every state, pages of one row, 1 crash | `OwnershipInherited`, `CompleteMeansAll`, `LeasedUndisturbed` | 3,145,508 |
| `operator` (`MCOperator`) | commands: 1 job, a CUSTOM_TIME command of the page and a local DELAY command, lease 2, clock to 4, 1 fault, 2 scheduler moves; mirror: 2 jobs, 2 versions, 1 mutation per call; articles: 2 lanes, 2 articles with annotation and impact jobs and no mishap, or 1 article with 2 mishaps (annotation, impact) or 3 (annotation, title); capture: 2 commands, 4 rows, a corrected reader, 2 losses | `AuditAgrees`, `CommandsImplemented`, `OperatorIsServed`, `ArticleSound`, `CaptureSound` | 303,576 |
| `projection` (`MCNewsProjection`) | a producer with 3 snapshots and an older one with 1, up to 3 batches per cycle, 1 fault, a walking reader | `ArchiveWhole`, `FrozenIsPublished`, `ArchiveImplemented` | 98,663 |
| `web` (`MCWeb`) | evidence: contents O, A, B, A in pages of 2, 1 fault; chat: 1 question, 1 worker, 2 attempts, 1 lapse; migration: 3 historical revisions on two receipt days, a title, one historical slot per pass, no crash | `EvidenceExact`, `EvidenceImplementsArchive`, `TurnConsistent`, `WebSettles` | 255,612 |
| `upkeep` (`MCUpkeep`) | sync: 2 heavy resources, a deferred projection, 1 fault; backup: 3 days, 2 incarnations, one kept per class, 1 edit; brief: 2 days, 2 packets, 2 failures allowed; feeds: a direct feed and a Google lane with unreadable articles; others: one source of each other kind | `FilesAccounted`, `BriefExact`, `SnapshotHonest` (of the feeds), `EverySourcePaced`, `UpkeepSettles` | 242,197 |
| `assistant` (`MCAssistant`) | memory: 1 conversation, 2 workers, 3 turns, 2 jobs; capacity: 2 workers beside a news lane; titles; index: 2 conversations, 2 messages; questions: 1 owner, 2 workers, 2 keys, a change of day; agent: 2 models, 3 tools, 3 requests, 3 calls, 150 tokens, 2 items of evidence, 2 attempts | `SummariesExact`, `HeadroomKept`, `RecallHonest`, `QuestionsExact`, `BudgetsKept`, `RunSound`, `OwnerTitleStands` | 863,874 |
| `lost_page`, `operator_conflict`, `brief_retries` | see section 7 | violated, on purpose | |

Some properties are conjunctions of parts that are named and explained in their
modules: `ClaimOrder` = `OncePerRound` /\ `LiveFirst`; `RoundFair` = `ImpactShare` /\
`AccountTriedOnce`; `MovesAreAuthorized` = `OverrideStands` /\ `RecoverOnce`; `QuotaKept` =
`RollingRequests` /\ `RollingTokens` /\ `PriorityReserve` /\ `BackfillHeadroom`;
`RetrievalKept` = types /\ `ContextsFrozen` /\ `CooldownStands`; `OperatorIsServed` =
`CommandIsAnswered` /\ `NewListMirrored`; `ArticleSound` = `RepairsTheCapture` /\
`IdentityGrounded` /\ `FailuresNumbered` /\ `TerminalMarked` /\ `OneAnnotation` in every state and
`EvidenceOnlyGrows` in every step; `CaptureSound` = `Contiguous` /\ `ReadersFenced` /\ `PlanIsWhole` /\
`DiskBounded` in every state and `CaptureAppends` /\ `BacksOff` in every step; `ArchiveWhole` = `CurrentComplete` /\ `StagedKept` /\
`WalkIsSnapshot`; `EvidenceExact` = `PublishedIsExact` /\ `FileIsPublished` /\ `WalkIsWhole`;
`TurnConsistent` = `StreamClosed` /\ `EndAgrees` /\ `BudgetDecides`; `WebSettles` =
`TurnProceeds` /\ `MigrationsEnd` /\ `BackfillFindsAll`, which has no crash here; `TurnProceeds` =
`OnlyHolderWrites` /\ `TurnEnds`; `MigrationsEnd` = `MigrationsComplete` /\
`UnresolvedIsRepaired`; `FilesAccounted` = `TempsOwned` /\ `ReceiptHasFile` /\ `CountedOnce`;
`BriefExact` = `ClosedIsSettled` /\ `FinalIsOfPacket` /\ `CachedDatesExact`; `UpkeepSettles` =
`DeferredCompletes` /\ `RoundSettles` /\ `HistoryCloses` /\ `ReadableIsStored`; `EverySourcePaced`
is `Paced` of both instances of `Intake`;
`SummariesExact` = `Chained` /\ `Waiting` /\ `RecentVerbatim`; `HeadroomKept` = `WithinSoft` /\
`BoundedCalls`.

Why the bounds are enough for what is asked:

* Fencing needs two lanes and a lease that ends before the clock does; two
  claims per job let a second lane re-claim while the first still executes. The
  theorems lift this to any number. `ProhibitedStaysOut` and `LiveFirst` need
  two jobs that share a content hash, one of each work lane: one is prohibited
  while the other is leased, waiting or done.
* The override scene needs two requests so that a second override replaces a
  first, and a clock that passes the legacy retry time.
* In the quota scene a dispatch slot opens every 500 (up to 1000 after a throttle),
  the rolling minute is 1000 and the quota day ends at 1400, so three requests span a
  calendar minute and a change of day; limits are 2 requests and 3 tokens a minute
  and 3 requests a day, so that each limit binds first in some state. Two dispatches
  can be in flight, so answers arrive out of order, and a throttle without
  Retry-After sets a shorter deadline after a longer one.
* `FairRotation` needs a class overtaken by another twice: three requests.
* `CooldownStands` needs a lease that ends while its holder still calls, and a
  second runner that fails meanwhile: a lane and the script, lease 1, and clocks that
  run on. `ContextsFrozen` needs an article first seen before another and annotated
  after it: two articles.
* Pages of one row make every row of `migration` lie on a page boundary, and each
  kind of row is there once. In the migration scene of `web` the allowance is a
  single slot, so that a protected day takes all of it, and three historical
  revisions leave some above, on and below the cursor.
* In the commands scene a lease of 2 with a patience of 1 lets a second claim take a
  command over while the first call is on its way, and the clock passes the custom
  time and its grace.
* Two lanes on one article let a worker that lost its lease and its successor meet at every
  row; two articles let an identity change between the offer and the answer.
* Four rows in parts of at most two make the pages end by count and by bytes, a correction can
  come after any part, and the disk holds the capture with its manifests and about one
  orphan more, so that `Room` refuses some writes.
* Projection and evidence need a return to an earlier content (O, A, B, A), pages
  smaller than a snapshot, and one request or answer lost at any place; a late
  request may then meet every state of the next generation. The theorems lift both
  to any contents, page sizes, producers and faults.
* Two attempts make a turn's or job's second one its last; one lapsed lease is
  enough for a report that comes after another worker's.
* Three days of backups with one kept per class make retention delete each kind of
  file, and a second incarnation finds what the first left at any operation.
* Time is discrete. In `ProviderAdmission` `Tick` jumps to exactly the instants at
  which a slot opens or a usage row leaves the window, so boundary cases are
  reached.

## 4. Fairness

The scheduled services (annotator, synchronizer, collector, assistant worker) are
supervised and restarted (`scripts/windows-service-launch-contract.json`), their
loops have no exit but shutdown, and every blocking call in them has a timeout.
That is what the weak fairness below rests on. Nothing is assumed of
operators, owners, the arrival of news, contract installs, failures or crashes.

| Module | Assumed | Why |
|---|---|---|
| `JobQueue` | WF of `SyncStep`, of starting a round, of every `LaneStep` | the main loop alternates them, lanes are joined by the batch. `ProductSettlesJob` holds even if time stops |
| `ContractMigration` | WF of `Sync` and of each job's settlement; SF of the expiry of orphaned leases | rounds come and go, so expiry is not continuously enabled, but every `claim_job` expires leases first |
| `OperatorRetry` | WF of `Bridge`, `LateApply`, `LocalCall`, `Tick` | the bridge polls; a local client repeats until it has read an answer |
| `RetryMirror` | WF of `ReadList`, SF of a post that gets through | the control lane repeats its post; not every post is lost |
| `NewsProjection` | WF of each producer's cycle and freezing, WF of the ageing of orphans | the sync process and the bootstrap loop |
| `NewsEvidence` | WF of the cycle, of ageing, of running a request, of running or losing a late one | the worker answers or the client times out |
| `AssistantChat` | WF of `Tick`, `Serve`, `Queue`, `Attempt` | the worker polls, the control plane answers |
| `SyncLanes` | WF of loop or clock, of `Correct`, of the lanes | an unreadable request is corrected by its writer |
| `BackupRetention` | WF of `NewDay`, `Step`, `StartProcess` | the collector is restarted; the last incarnation is not stopped |
| `DailyBrief` | WF of the batch and of each due day's start, SF that a day is asked for and answered | the model does not fail for ever; nothing is claimed of a day for which it does |
| `Intake` | WF of the owner's progress | the collector's thread |
| `Retrieval` | WF of the clock and of every runner, SF that an article's job is begun | stated for `HybridReturns` only (section 7); no run uses it |

## 5. Proofs

The proofs hold for every value of the constants that satisfies the named
assumptions of the modules (`JobRowsAssumption`, `JobQueueAssumption`,
`AdmissionAssumption`, `ContractMigrationAssumption`, `OperatorRetryAssumption`,
`ContentAssumption`, `SourceAssumption`, `BoundAssumption`, `PageAssumption`,
`LimitsAssumption`, `MemoryAssumption`, `QuestionAssumption`, `AgentAssumption`,
`CapacityAssumption`, `ArticleAssumption`, `CaptureAssumption`, `IntakeAssumption`,
`BackupAssumption`, `BriefAssumption`). They say what
configuration and schema guarantee: types, distinct job order, positive leases and
pages, distinct keys within a snapshot, a patience shorter than a lease, a brief that is
given up after two failures at the earliest (`BriefAssumption`).
Hypotheses beyond these are named with the theorem. TLC evaluates every assumption
in the run of its module, and checked every inductive invariant below on the
instance of its run before it was proved.

### JobQueueProofs

* `TypeCorrect`: `TInv == TypeOK /\ LaneHoldsJob` is inductive. `LaneHoldsJob`
  (a lane past its claim remembers a job) is what makes the settlements typed.
* `LeasesWellFormed` (`LeaseShape`) and `FencingIsExact` (`FenceMatchesClaim`) rest
  on one lemma, `StepIsCalm`: apart from a claim, a step leaves the lease of a row
  alone or takes it away whole. The fence is exact although the code does not
  compare claim numbers, because a re-claim by another lane changes the owner, and
  the same lane forgets its old claim when it makes a new one (`LaneMemory`).
* `ProhibitedNeverReturns` (`ProhibitedStaysOut`): only `Authorize`, `Enqueue` and
  `ReopenProtected` put settled work back in the queue. The property itself is not
  inductive: the last two use lists read earlier, the first uses the failure's
  grant. `OutInv` adds what makes them safe: lanes execute only within a round, so
  nothing is marked between `Discover` and `ReopenProtected` (`LanesInRound`,
  `FreshFound`), and a row stopped by an earlier release is as that release left it
  (`StoppedUntouched`), so the step that would grant a recovery also requeues it. The
  theorem says that marked work does not return to the queue, not that a retired
  row keeps its state: a lane that outlived its lease and stores its annotation
  after the row was retired turns it into a COMPLETED one.
* `LiveComesFirst`, `ClaimedOncePerRound` and together `ClaimsInOrder`
  (`ClaimOrder`), action properties. The first unfolds the ORDER BY as a comparison
  of tuples. The second (`RoundOrder`): what a lane put back in its round is available
  only after the round's cutoff, and the clock does not run back to it.
* `OverridesAreDisciplined` (`OverrideDiscipline`): an override is activated only
  after the others of its job are deactivated, a claim deactivates them, and the
  retirement of prohibited content does, in the same transactions.
* `MovesAreAlwaysAuthorized` (`MovesAreAuthorized`), from `OverridesStand` and
  `GrantsRecoverOnce`. The first needs no invariant beyond the types: every step that
  moves a waiting row either is a command, which deactivates the row's other
  overrides, or refuses rows with an active override, or leaves the row not waiting.
  The second is not inductive. `GrantOrder` adds that a grant is never later than the
  clock, than the pass's own time while a pass runs (the clock may tick meanwhile), or
  than the last update of a row claimed since, which needs that every update is
  stamped with one of the two times (`StepStamps`).

### AdmissionAndMigrationProofs

Two components without common state. First `ProviderAdmission`:

* `TypeCorrect`: the governor's variables, in particular
  `interval \in MINIMUM..MAXIMUM` after any outcomes, with the arithmetic of
  `Eased` and `Slower`.
* `SpacingHolds` (`DispatchSpacing`): `next` is never lowered and was set to the
  dispatch time plus the interval that then held (`Paced`).
* `RetryAfterHolds` (`RetryAfterHonoured`): every recorded deadline is at most
  `next`, although `cooldown_until` may be overwritten by a shorter one.
* `QuotaHolds` (`QuotaKept`), by `QuotaInv`. The limits are sums over the usage table,
  which only grows, so the invariant says of every admission what it saw: no trailing
  minute, now or earlier, held more than `RPM` requests (`MinutesKept`); what the rows of
  the last minute hold of their estimates is within `TPM` (`EstimatesKept`: an open row
  counts with its estimate, an answered one with the smaller of estimate and use, since
  an answer may be larger than its estimate and no admission can know); each row kept
  the day's limit of its urgency and work when it was inserted (`DaysKept`); and every
  request in flight has an open row of its own (`OpenRows`), so that an answer replaces
  an estimate once. The sums are recursive functions. The library's induction rules
  need an operator parameter, which no prover here can instantiate; the lemmas about
  `Total` (it compares, adds and grows with its summands) are proved from the least
  number at which they would fail, which `WellFoundedInduction` provides.
* `RotationIsFair` (`FairRotation`; the run names it through the classes of its rotation
  scene, `FairRotation2`): a class that was passed once by another was served longer
  ago (`Rotates`), and the code dispatches the least recently served of those that
  wait.

Then `ContractMigration`:

* `OwnershipIsInherited` (`OwnershipInherited`), `MigrationsLeaveNothing`
  (`CompleteMeansAll`) and the action property `LeasedStaysUndisturbed`
  (`LeasedUndisturbed`), for any population of old rows, page sizes, limits and
  crashes. The inductive invariant `Inv` says that a row `claim_job` would hand out
  is in the lane of its revision (`PlacedAll`), that an annotation row without a lane
  has a rank above the cursor (`BeyondCursor`), and that nothing is stale when the
  provenance migration is complete (`NoneStale`). `BeyondCursor` is what the
  completeness claim needs: the cursor alone says nothing about the rows behind it.
* The step that matters is a page. `FirstOfIsPage` proves that a keyset page leaves
  out only what comes after all of it, and that a short page leaves out nothing:
  if it did, the least row left out (`HasLeast`) would have all its predecessors
  in the page and so belong to it. `PageHasLast` and `NextCursor` show that the new
  cursor is the rank of a row of the page or the old cursor.
* `BackfillUnlessInterrupted`: as long as `crashes = 0`, `BackfillFindsAll` holds, for any
  limits, pages and protected backlogs. `Walked` says that whatever the cursor has
  passed is annotated, has a row, or is in the list the pass in progress still
  enqueues. The cursor commits before those rows do, which is why the theorem stops at
  the first crash and the run `lost_page` begins there. The page lemmas apply to this
  walk, newest first, through `ScanIsPage`.

### OperatorRetryProofs

* `AuditAlwaysAgrees` (`AuditAgrees`): no finish, however late, writes an audit row for
  a command that is closed. Inductive with `Typed` and `PassSound`, which says what
  the bridge knows of the command it holds at each step of a pass.
* `PageCommandsTakeNoEffect`: no command made on the page is ever applied, for any
  mode. It rests on `PageForm` (what the page sends is in the Worker's form of a
  time) and `PageRefused`; the disagreement of run `operator_conflict` is therefore
  no accident of its instance.
* `CommandsAreImplemented` (`CommandsImplemented`): every step of D1, bridge, local
  calls and ledger is a step of `OperatorCommand` or a stutter. It assumes
  `ReplaysInTime`: a CUSTOM_TIME command is replayed within its grace. Without it the
  theorem is false, because the replay of an applied command is refused
  once its time lies too far in the past (section 7). The instance of the run
  satisfies it by its clock.

* `ArticlesAreSound` (`ArticleSound`, module `ArticleWork`): whatever the models answer, and
  however leases lapse, requests fail and the process restarts. The invariant `ArticleInv` adds
  to the promise what a worker knows at each place of its work (`Sound`: what it was
  offered is of earlier annotated articles, its answer is grounded, the attempt it counted is
  at most one beyond the rows there are, refused content is marked before its failure is
  logged), that checkpoints hold offers as good (`CheckpointsOffered`), and that a worker whose
  lease did not lapse holds it (`HoldsItsLease`). Each step is shown to have an `Effect` (what it
  may add, which lease it may take or give back) and to leave its own worker sound; one
  argument over `Effect` then covers the other workers and the evidence: what was established
  survives every addition (`SoundGrows`, `OfferedGrows`, `GroundedGrows`), and the two additions
  that could hurt another worker need the lease that worker holds (`OneOfThem`).

### NewsProjectionProofs (for `~Overlap`)

* `ArchiveAlwaysWhole` (`ArchiveWhole`), `ArchiveIsReplacedWhole`
  (`ArchiveImplemented`), `OneStagingAtATime`, `ArchiveNeverRecovers`. The inductive
  invariant is `ServerSound /\ ClientTyped /\ StagingFresh /\ FlightSound /\ WalkSound`: the
  rows of the current generation are exactly its snapshot's with every detail they
  name, at most one generation is staging and what it acknowledged is there
  (`ServerSound`); a staging its producer replays has not expired (`StagingFresh`);
  between the reads of a prepare and its batch nothing it read changes
  (`FlightSound`); a reader has read its generation's snapshot from the first key to
  some key (`WalkSound`). Patches are the hard case: `Patched` of the baseline is
  shown to be the new snapshot from the difference of the two.
* The hypothesis `~Overlap` says that the worker executes one request at a time. With
  overlapping requests two stagings are possible, and TLC shows it (section 7).

### NewsEvidenceProofs (for `~Quick`)

* `EvidenceAlwaysExact` (`EvidenceExact`) and `EvidenceRefinesArchive`
  (`EvidenceImplementsArchive`). A receipt stores the differences to what was
  published when it arrived. The invariant follows one generation from its freeze to
  the next: with b what was published at the freeze, the publication is b until the
  generation replaces it, and the receipts an activation may use are differences
  to b. Requests that outlived their client are the hard case (`CallsFollow`,
  `PublishedGrounded`), and receipts left of an earlier life of the same content, which
  are gone before one is staged (`LeftReceiptsGo`).
* The hypothesis `~Quick` excludes a generation that follows at once on one whose
  receipts are not yet cleaned; without it the property fails (section 7).

### AssistantMemoryProofs

* `SummariesAreExact` (`SummariesExact`) from `SoundAlways`:
  `Sound == Typed /\ TokensSound /\ PlansFollow /\ Followed`. What a request read of a
  conversation stays true while its version stands (`PlansFollow`), a worker's token
  is never more than the attempts of its job (`TokensSound`), and an open job covers
  exactly the messages after the last summary (`Followed`).
* `RecallIsHonest` (`RecallHonest`): inductive with `IndexTyped`, `IndexersSound`,
  `EntriesExact` (an entry exactly for a completed job) and `EntriesBacked` (an entry
  has its vector, since the upsert precedes the batch).
* `QuestionsAreExact` (`QuestionsExact`): inductive with `QuestionsTyped` and
  `AnswerersSound`; the answer is inserted in the batch that moves the row to ANSWERED
  under its token, so a late report inserts none. The limits are cardinalities of
  sets that a claim or report only shrinks, and that an admission enlarges by one
  below the limit.

### AssistantAgentProofs

* `AgentKeepsBudgets` (`BudgetsKept`): an attempt never has more calls, rounds, result
  tokens or evidence than its budgets, whatever the model plans and however the calls
  end, so that neither the check of the evidence after a batch nor the end of the loop is
  ever reached. Inductive as
  `BudgetInv`: a running batch was given exactly what the attempt has left (`Fits`), and
  each result, recorded or still in its thread, is within its call's share (`Divided`).
* The core is arithmetic: `SharesAddUp` (the quotient and the remainder given to the first
  calls add up to the total over any set of calls), `ResultsFit` (results within their
  shares fit the total), `NewsWithin` and `OtherWithin` (what an adapter returns is within
  its share), `DistinctLength` and `FlattenLength` (joining and removing repetitions adds no
  evidence). The sums and concatenations are recursive functions; their facts are
  proved from a least counterexample (`HasLeast`, `Upward`), since the library's induction
  theorems take an operator.

* `HeadroomIsKept` (`HeadroomKept`, module `AssistantCapacity`): whatever workers and news lanes
  do between a look at a pool and its reservation. A row is compared with the rows before it,
  so it stays within the shares it was admitted under as the table grows (`SoftStays`), and the
  row that `Reserve` adds is the one its transaction counted (`AdmittedBelowSoft`). That no pair
  has too many calls needs more than the counted reservations: a call under way has a row of its
  own that is in flight and has not expired (`CallsReserved`, `RowsOwned`), so there are no more
  calls than reservations (`CallsAreReserved`). That a call ends before its reservation does is
  part of the model (`CapacityTick`); without it the theorem is false.

### UpkeepProofs

Three components without common state, an invariant each.

* `BriefIsExact` (`BriefExact`): whatever is received, reviewed or ranked again while a batch
  runs, and wherever it stops. The promise alone is not inductive: what closes a day is
  decided steps before it is written. `BriefInv` adds what the batch knows of its day at each
  step (`Knows`: a day at a model call or a closing is still open; if it was found settled, it
  is past and nothing of it is pending, and no later step of the inputs can undo that), what is
  recorded (`Recorded`: a degraded day has a revision, a correction follows a degraded
  finalization, a day without a reviewed packet has no revision but the settlement), what the
  refresh state may name (`Refreshing`), and that cached dates are those of their token
  (`CacheFits`). The case that needs most is recovery: a forced closing of a day in
  recovery would correct it before it is settled. It cannot happen, because the attempt of a
  recovery always starts with an empty failure count (`RecordFailureKeeps`, `GiveUpKeeps`), and
  here the proof uses that the limit is more than one failure.
* `FinalizationsStand` (`FinalizedOnce`) follows from the same invariant.
* `FilesAreAccounted` (`FilesAccounted`), for `Concurrent = 1`: a backup process that stops
  between any two file operations leaves nothing unaccounted for. `OnDisk` and `Accountancy`
  say what the files may be, `Place` what the running process knows at each step: whose evidence
  its lock holds, which temporaries there can be, and that what it is about to delete is in the plan
  on disk. The hypothesis is that one process runs at a time; with two, `TempsOwned`
  fails (section 7).
* `SnapshotIsHonest` (`SnapshotHonest`): a source counted as complete in the round that
  ends was polled in it (`RoundExact`), so that what is shown is at most a round older than it
  seems, and a status survives for two waits (`ShownExact`). A round reads its clock once and ends
  within `MaxRound` of it; `Ages` bounds the collector's clock by that. The run checks the property on the
  two feeds; the theorem holds for any sources.

## 6. Only model-checked

| What | Why it is not proved |
|---|---|
| `ProductSettlesJob`, `OperatorIsServed`, `WebSettles`, `UpkeepSettles`, `FrozenIsPublished` | liveness under fairness, which the prover does not do |
| `CaptureSound`, `RunSound`, `RoundFair`, `RetrievalKept`, `TurnConsistent`, `EverySourcePaced`, `OwnerTitleStands` | no proof has been attempted yet (section 9) |

`RunSound` is a conjunction of five parts (`AnswerGrounded`, `HistoryMatched`, `ModelFixed`,
`SchemaSuffices`, `StreamAccepted`), none of them proved.

`MigrationTypeOK` of `ContractMigration`, and `TypeOK` of `AssistantCapacity` (`CapacityTypeOK`), `AssistantChat`, `BackupRetention` (`BackupTypeOK`),
`DailyBrief` (`BriefTypeOK`), `LaneRound`, `RetryMirror` and `SyncLanes` is stated for readers; the type
parts the proofs need are in their invariants.

## 7. Where the code and its documents differ

Three runs expect a violation:

* `lost_page` / `BackfillFindsAll`: the scheduler's design document says the backfill
  resumes from its persisted cursor after a restart. The cursor is committed with
  discovery, and the rows of its page are enqueued later, one transaction each. If
  the annotator ends in between, the rest of the page lies behind the cursor: it is
  not enqueued by a later pass (unless a protected brief date asks for it), and a
  last page lost that way leaves the backfill COMPLETE. Without crashes the property
  holds (in `WebSettles`, run `web`).
* `operator_conflict` / `ConflictMeansChanged`: a command made on the row the page shows
  is refused as changed although the job did not change, because the page holds its
  time in another format than the ledger compares.
* `brief_retries` / `FiniteRetries`: once a closed day has a revision, each failed
  synthesis is forgotten before the next, so the five consecutive failures after
  which it should degrade are never counted.

The following were met while modelling and have no run of their own. Each is a
definition of its module that TLC refutes on a small instance, unless it is said
otherwise.

* `IdleYields` (`JobQueue`; `docs/contracts/OPERATIONAL_HEALTH.md:167-169`, `state.py:1792`): a young
  IDLE_CAPACITY job should come after every other claimable one of its pool; an idle
  LIVE job precedes ordinary backfill.
* `EveryOutcomeRecorded` (`LaneRound`; `docs/contracts/NEWS_EVIDENCE.md:352`, `state.py:1376`): after an
  authentication failure on one key and a maintenance deferral on the next, the
  attempt number is given back and the next outcome under the same number and key is
  ignored on insert.
* `BackfillHasReason` (`ContractMigration`; `docs/design/AI_PRIORITY_SCHEDULER.md:149-153`,
  `state.py:3803`): free slots of the protected read are filled with any historical
  revision.
* `OverrideStands` was first stated stronger, that an override stays active until
  claimed or retired. A stale lane's product, or a contract install, completes an
  overridden waiting row and leaves the override active; the property now speaks of
  rows that stay waiting.
* `SettledIsMirrored` (`RetryMirror`; `docs/contracts/HOSTING_BOUNDARIES.md:231-237`,
  `docs/plans/SQL_SYNC_EFFICIENCY.md:9`): a list that changes from A to B, is mirrored in part, and
  returns to A leaves B's rows in the mirror, since both digests already name A.
* Operator commands (`OperatorRetry`): the replay of an applied CUSTOM_TIME command
  whose finish was lost is REJECTED once its time is past its grace, because the time is
  checked (`state.py:1606`) before the ledger (`1619`). The audit row REQUESTED is a second
  call to D1 (`operator-retry.ts:219-229`) and may be missing; the model writes both.
* `NoDuplicateInsert` (`DailyBrief`; `ledger.py:165`): a day whose packet goes from A to B
  and back to A violates UNIQUE(brief_date, source_hash) on insert. `ArchiveShowsFinal`: a
  crash between finalization and the refresh state leaves the archive's last state.
* `PinnedStands` (`NewsProjection`; `docs/contracts/NEWS_PROJECTION.md:17-23`, `news_resources.py:726`): the
  generation a producer has pinned may be changed under it. `OneStaging` with `Overlap`
  (`docs/contracts/NEWS_PROJECTION.md:125-126`, `news-projection-store.ts:436`): two prepares that overlap
  insert two staging generations. A staging whose producer crashed before its file
  named it blocks the next snapshot until it is a day old.
* `PublishedIsExact` with `Quick` (`NewsEvidence`; `docs/contracts/HOSTING_BOUNDARIES.md:163`,
  `drizzle/0036:33`): A, B, A at once meets A's old receipts, which are differences to
  another base.
* `LaneRecovers` (`SyncLanes`; `run_dashboard_sync.py:484`): a lane's failure entry is
  never cleared. A deferred projection that fails for ever keeps its resources out
  of the regular turns.
* `RoundSettles` without `Signed` (`BackupRetention`; `docs/contracts/LOCAL_STORAGE_LIFECYCLE.md:9-13`): a
  process that stops between making its owner directory and writing its evidence
  wedges that lock for ever. With `Concurrent` 2 and three incarnations `TempsOwned` fails:
  two recoverers race.
* `BeginsBeforeExhaustion` (`AssistantMemory`; `docs/contracts/ASSISTANT_STATE.md:247`,
  `assistant-memory.ts:625`): after as many answered questions as the recent window holds
  the next has no context, and nothing has scheduled the compaction.
* `ExactWithinSoft` (`AssistantCapacity`; `docs/contracts/ASSISTANT_ORCHESTRATION.md:121-122`,
  `capacity.py:711-719`): the confirmation measures rolling usage at the start of the
  calendar minute, so that exact tokens may exceed the soft limit.
* `WaitsForOpenJob` (`AssistantTitles`): a delayed duplicate request, or a worker that
  straddles the end of its lease, leaves a conversation pointing at a job that is
  over. `PinsWithinLimit` (`AssistantMemory`): the check of a snapshot does not see pins made
  since; more than the limit make every reader fail.
* `ArticleWork`, without a promise it would break: `save_checkpoint` ignores a second evidence
  (`impact_repair.py:41`), and a stale worker whose first answer was rejected repairs its own answer,
  not the captured one (which is why `RepairsTheCapture` speaks of undisturbed jobs); a second
  assessment of an article is an `IntegrityError` inside the `try` and becomes a failure row, while a
  second annotation ends the lane; a report matched SAME_EVENT with an article that is not
  assessed yet keeps the episode of that article alone, even when that article is matched
  with an earlier one later, so that one event can lie in two episodes.
* News questions (`NewsQuestions`): the question's hash contains the UTC date, so a
  retry after midnight is a conflict.
* `HybridReturns` (`Retrieval`; `docs/design/NEWS_IDENTITY_RETRIEVAL.md:66, 71-76`, `search.py:759-762`):
  under fallback `attach_hybrid_prior_event_context` returns before it appends what is
  missing, so that with vectors missing only the maintenance script ends a fallback.
  Also: a deferred dispatch deletes the lease's row and with it the count of
  failures, and a failure recorded after the lease was lost raises (`search.py:283`) and
  ends the job's attempt.
* Intake: see its module; the rejection receipt of a GDELT poll that fails after
  the poll was recorded re-inserts the same `poll_id` and aborts the round.

## 8. What is not modelled

* Token calibration (a quantile over a window), semantic transitions (the one
  declared transition changes no job), storylines, market data: functions of data
  without interleavings of their own.
* Operational health derives incidents from what the other modules write.
* Live broadcast, the cTrader bridge, the web router and views: external platforms
  and presentation. Release control has formal models of its own in the repository.
* Of the modelled components: what the tables and "Abstractions" above say, quote
  archiving and WAL checkpoints (`maintenance.py:124`), `news/collection/pruning.py`, cluster
  summaries and dashboard counters; of `ArticleWork`, the resumption of a display review from
  a checkpoint of an older contract.
* Hazards without an entry in `PROJECT.json`, each watched by the properties of its
  module: retention's two unlinks (`maintenance.py:857`, `FilesAccounted`); the
  attempt log and protected discovery (above); the completion of rows outside the
  lease protocol (`critical_state.py:436`, `ProductSettlesJob`, `ProhibitedStaysOut`); late
  requests to the evidence store (`news-evidence-store.ts:322`, `EvidenceExact`).

## 9. What could come next

1. Proofs for the safety properties left in section 6: `ImpactShare`, `OwnerTitleStands`,
   `RetrievalKept`, `TurnConsistent`, `EverySourcePaced`, `CaptureSound`.
2. An abstract queue (each job waiting, held by one lane, or settled) that `JobQueue`
   implements.
3. Supersession during a migration and the limits on derived discovery in
   `ContractMigration`; backup providers in `ProviderAdmission`.
