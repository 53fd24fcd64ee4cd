------------------------------ MODULE SyncLanes ------------------------------
(***********************************************************************************)
(* The dashboard synchronizer.  One thread sends the heartbeat and, when it        *)
(* got through, hands work to two single-thread lanes: the control lane runs       *)
(* every due control resource, the heavy lane one due heavy resource, drained      *)
(* while it succeeds.  While a deferred projection is requested its turns          *)
(* alternate with the regular ones, and its resources are its own.  Schedules      *)
(* and the receipt of the deferred projection are files and survive a restart.     *)
(* Sources: scripts/runtime/run_dashboard_sync.py, dashboard/sync/resources.py.    *)
(*                                                                                 *)
(* Time is in ticks; due[r] is relative to now, and of overdue resources it keeps  *)
(* the order they became due in, not how late they are.                            *)
(***********************************************************************************)
EXTENDS Integers, FiniteSets, Sequences, FiniteSetsExt, SequencesExt

CONSTANTS
  Control,    \* the resources of the control lane
  Heavy,      \* Seq(heavy resources), in the order of RESOURCE_POLICIES
  Draining,   \* those of Heavy whose success may leave work pending
  Owned,      \* heavy resources a deferred projection takes over: audit, news_evidence
  Cadence,    \* [resources -> ticks]
  BACKOFF,    \* RESOURCE_BACKOFF_MAX_SECONDS
  INTERVAL,   \* ticks between heartbeats
  PAGES,      \* pages of the evidence a deferred projection replays
  MaxFaults   \* bound: failures, unreadable requests and restarts

VARIABLES
  due, fails, \* the resource schedule file
  task,       \* the future of each lane
  failed,     \* latest_lane_results: the degraded entries the status file shows
  turn,       \* heavy_turn % 2
  left,       \* ticks to the next heartbeat
  request,    \* the deferred projection request: none, bad (unreadable), asked
  receipt,    \* its receipt: routes accepted, state
  pages,      \* pages of the evidence not staged yet
  faults

schedule == <<due, fails>>
projection == <<request, receipt, pages>>
syncVars == <<schedule, task, failed, turn, left, projection, faults>>

Nil == ""
Lanes == {"control", "heavy"}
HeavySet == Range(Heavy)
Resources == Control \cup HeavySet
Task(kind) == [kind |-> kind, phase |-> "submitted", queue |-> {}, ran |-> FALSE,
               good |-> {}, bad |-> {}, seen |-> FALSE]
None == Task(Nil)
NoReceipt == [state |-> Nil, accepted |-> {}]

-----------------------------------------------------------------------------
(* Schedules                                                                 *)

IsDue(r) == due[r] <= 0
\* _due_resource_policies: controls all, of the heavy ones the earliest due; policy
\* order breaks ties.
Rank(r) == CHOOSE i \in DOMAIN Heavy : Heavy[i] = r
FirstOf(rs) == {r \in rs : \A q \in rs : Rank(r) <= Rank(q)}
Earliest(rs) ==
  {r \in rs : \A q \in rs : due[r] < due[q] \/ (due[r] = due[q] /\ Rank(r) <= Rank(q))}
DueHeavy(excluded) == Earliest({r \in HeavySet \ excluded : IsDue(r)})

\* _record_resource_schedule: after a success the phase is kept, pending work is due
\* at once, a failure backs off.
Phases(r) ==
  IF due[r] < 0 THEN 1..Cadence[r]
  ELSE {CHOOSE t \in 1..Cadence[r] : (t - due[r]) % Cadence[r] = 0}
Delay(r, f) == Min({BACKOFF, Max({Cadence[r], 2 ^ (f - 1)})})
Failures(r) == Min({fails[r] + 1, BACKOFF})
\* _persist_resource_schedule_result
Persist(r, t, f) ==
  /\ due' = [due EXCEPT ![r] = t]
  /\ fails' = [fails EXCEPT ![r] = f]
RecordSuccess(r, pending) ==
  \E t \in Phases(r) : Persist(r, IF pending THEN 0 ELSE t, 0)
RecordFailure(r) == Persist(r, Delay(r, Failures(r)), Failures(r))

-----------------------------------------------------------------------------
(* The heartbeat thread                                                       *)

\* _deferred_projection_pending; an unreadable request counts as pending.
Pending == request # Nil /\ (request = "asked" => receipt.state # "COMPLETED")
\* _submit_resource_lane: on the odd turns of the heavy lane regular work is preferred.
HeavyTaskRegular == Task(IF ~Pending \/ receipt.state = "PARTIAL" THEN "regular" ELSE "deferred")
HeavyTask == Task(IF ~Pending THEN "regular" ELSE IF turn = 1 THEN "mixed" ELSE "deferred")
Submit(lane) == IF lane = "heavy" THEN HeavyTask ELSE Task("regular")

Done(lane) == task[lane].kind # Nil /\ task[lane].phase = "done"
Free(lane) == task[lane].kind = Nil \/ Done(lane)
\* _consume_lane_future and _merge_lane_results: an OK clears the entry of its key.
Merge(lane) == (failed[lane] \ task[lane].good) \cup task[lane].bad
Merged == [l \in Lanes |-> IF Done(l) THEN Merge(l) ELSE failed[l]]

\* A heartbeat got through: every idle lane gets work.
Heartbeat ==
  /\ left = 0
  /\ left' = INTERVAL
  /\ failed' = Merged
  /\ task' = [l \in Lanes |-> IF Free(l) THEN Submit(l) ELSE task[l]]
  /\ turn' = IF Free("heavy") THEN 1 - turn ELSE turn
  /\ UNCHANGED <<schedule, projection, faults>>

\* No target took it: nothing is submitted.
HeartbeatLost ==
  /\ left = 0 /\ faults < MaxFaults
  /\ faults' = faults + 1
  /\ left' = INTERVAL
  /\ failed' = Merged
  /\ task' = [l \in Lanes |-> IF Done(l) THEN None ELSE task[l]]
  /\ UNCHANGED <<schedule, turn, projection>>

\* Between heartbeats a finished lane is merged; a heavy one that did something and
\* failed nothing is continued at once.
Continues(lane) == lane = "heavy" /\ task[lane].seen /\ task[lane].bad = {}
Poll(lane) ==
  /\ left > 0 /\ Done(lane)
  /\ failed' = [failed EXCEPT ![lane] = Merge(lane)]
  /\ task' = [task EXCEPT ![lane] = IF Continues(lane) THEN Submit(lane) ELSE None]
  /\ turn' = IF Continues(lane) THEN 1 - turn ELSE turn
  /\ UNCHANGED <<schedule, left, projection, faults>>

-----------------------------------------------------------------------------
(* The lanes                                                                  *)

Advance(lane, with) == task' = [task EXCEPT ![lane] = with @@ @]
Finish(lane, good, bad, seen) ==
  Advance(lane, [phase |-> "done", queue |-> {}, ran |-> FALSE,
                 good |-> good, bad |-> bad, seen |-> seen])

\* sync_resource_lane reads the schedule once.  In a mixed turn the request is read
\* again, and what cannot be read fails the lane (_lane_failure).
Queue(lane, excluded) ==
  IF lane = "control" THEN {r \in Control : IsDue(r)} ELSE DueHeavy(excluded)
Start(lane) ==
  /\ task[lane].kind \in {"regular", "mixed"} /\ task[lane].phase = "submitted"
  /\ LET mixed == task[lane].kind = "mixed"
         queue == Queue(lane, IF mixed /\ request = "asked" THEN Owned ELSE {}) IN
     CASE mixed /\ request = "bad" -> Finish(lane, {}, {"lane"}, TRUE)
       [] ~(mixed /\ request = "bad") /\ queue # {} ->
            Advance(lane, [phase |-> "run", queue |-> queue])
       [] ~(mixed /\ request = "bad") /\ queue = {} ->
            IF mixed THEN Advance(lane, [kind |-> "deferred"])
            ELSE Finish(lane, {}, {}, FALSE)
  /\ UNCHANGED <<schedule, failed, turn, left, projection, faults>>

\* One resource of the queue: its schedule entry is written whatever its outcome.
Operate(lane, r) ==
  /\ task[lane].kind # Nil /\ task[lane].phase = "run" /\ r \in task[lane].queue
  /\ task[lane].ran
  /\ \E ok, pending \in BOOLEAN :
       /\ pending => ok /\ r \in Draining
       /\ ok \/ faults < MaxFaults
       /\ faults' = IF ok THEN faults ELSE faults + 1
       /\ IF ok THEN RecordSuccess(r, pending) ELSE RecordFailure(r)
       /\ LET rest == task[lane].queue \ {r}
              good == task[lane].good \cup IF ok THEN {r} ELSE {}
              bad == task[lane].bad \cup IF ok THEN {} ELSE {r} IN
          IF rest = {} THEN Finish(lane, good, bad, TRUE)
          ELSE Advance(lane, [queue |-> rest, good |-> good, bad |-> bad])
  /\ UNCHANGED <<failed, turn, left, projection>>

-----------------------------------------------------------------------------
(* sync_deferred_projection_once: audit first, then a page of the evidence.    *)

Deferred(phase) == task["heavy"].kind = "deferred" /\ task["heavy"].phase = phase
Reusable == receipt.state = "PARTIAL"
Accepted == IF Reusable THEN receipt.accepted ELSE {}

\* Nothing pending; a request that cannot be read or whose producer, target or source
\* is not right.
DeferNothing ==
  /\ Deferred("submitted") /\ ~Pending
  /\ Finish("heavy", {}, {}, FALSE)
  /\ UNCHANGED <<schedule, failed, turn, left, projection, faults>>
DeferUnreadable ==
  /\ Deferred("submitted") /\ request = "bad"
  /\ Finish("heavy", {}, {"deferred_projection"}, TRUE)
  /\ UNCHANGED <<schedule, failed, turn, left, projection, faults>>
DeferFails ==
  /\ task["heavy"].kind = "deferred" /\ task["heavy"].phase \in {"submitted", "evidence"}
  /\ request = "asked" /\ receipt.state # "COMPLETED" /\ faults < MaxFaults
  /\ faults' = faults + 1
  /\ Finish("heavy", {}, {"deferred_projection"}, TRUE)
  /\ UNCHANGED <<schedule, failed, turn, left, projection>>

\* The audit routes are published unless the receipt names them; then the receipt
\* becomes PARTIAL, before the evidence is touched.
Asked == Deferred("submitted") /\ request = "asked" /\ receipt.state # "COMPLETED"
DeferAudit ==
  /\ Asked /\ task["heavy"].ran
  /\ IF "audit" \in Accepted THEN UNCHANGED schedule ELSE RecordSuccess("audit", FALSE)
  /\ receipt' = [state |-> "PARTIAL", accepted |-> Accepted \cup {"audit"}]
  /\ Advance("heavy", [phase |-> "evidence"])
  /\ UNCHANGED <<failed, turn, left, request, pages, faults>>

\* A page of it (_sync_news_evidence); only progress drains at once.
LastPage == pages = 0
DeferPage ==
  /\ Deferred("evidence") /\ pages > 0
  /\ pages' = pages - 1
  /\ \E seen \in BOOLEAN : Finish("heavy", {}, {}, seen)
  /\ UNCHANGED <<schedule, failed, turn, left, request, receipt, faults>>
DeferComplete ==
  /\ Deferred("evidence") /\ LastPage
  /\ RecordSuccess("news_evidence", FALSE)
  /\ receipt' = [state |-> "COMPLETED", accepted |-> Accepted \cup {"news_evidence"}]
  /\ Finish("heavy", {"news_evidence", "deferred_projection"}, {}, TRUE)
  /\ UNCHANGED <<failed, turn, left, request, pages, faults>>

-----------------------------------------------------------------------------
(* Time, the release tooling, restarts                                        *)

\* How many turns of being due there are from r's on.
Newer(r) == Cardinality({due[q] : q \in {p \in HeavySet : due[r] <= due[p] /\ IsDue(p)}})

\* An operation lasts at least one tick.
Ran(t) == IF t.kind # Nil /\ t.phase # "done" THEN [t EXCEPT !.ran = TRUE] ELSE t
Tick ==
  /\ left > 0
  /\ left' = left - 1
  /\ due' = [r \in Resources |-> IF IsDue(r) THEN -Newer(r) ELSE due[r] - 1]
  /\ task' = [l \in Lanes |-> Ran(task[l])]
  /\ UNCHANGED <<fails, failed, turn, projection, faults>>

\* The request is written, perhaps in a form the synchronizer refuses at first.
Ask ==
  /\ request = Nil
  /\ request' = "asked" /\ receipt' = NoReceipt /\ pages' = PAGES
  /\ UNCHANGED <<schedule, task, failed, turn, left, faults>>
AskBadly ==
  /\ request = Nil /\ faults < MaxFaults
  /\ faults' = faults + 1
  /\ request' = "bad"
  /\ UNCHANGED <<schedule, task, failed, turn, left, receipt, pages>>
Correct ==
  /\ request = "bad"
  /\ request' = "asked" /\ receipt' = NoReceipt /\ pages' = PAGES
  /\ UNCHANGED <<schedule, task, failed, turn, left, faults>>

\* The process starts again; the files are what is left.
Restart ==
  /\ faults < MaxFaults
  /\ faults' = faults + 1
  /\ task' = [l \in Lanes |-> None]
  /\ failed' = [l \in Lanes |-> {}]
  /\ turn' = 0 /\ left' = 0
  /\ UNCHANGED <<schedule, projection>>

-----------------------------------------------------------------------------
Init ==
  /\ due = [r \in Resources |-> 0] /\ fails = [r \in Resources |-> 0]
  /\ task = [l \in Lanes |-> None] /\ failed = [l \in Lanes |-> {}]
  /\ turn = 0 /\ left = 0
  /\ request = Nil /\ receipt = NoReceipt /\ pages = 0 /\ faults = 0

LaneStep(lane) == Start(lane) \/ \E r \in Resources : Operate(lane, r)
DeferStep == \/ DeferNothing \/ DeferUnreadable \/ DeferFails
             \/ DeferAudit \/ DeferPage \/ DeferComplete
Loop == Heartbeat \/ HeartbeatLost

Next ==
  \/ Loop \/ Tick \/ Ask \/ AskBadly \/ Correct \/ Restart \/ DeferStep
  \/ \E lane \in Lanes : Poll(lane) \/ LaneStep(lane)

Spec == Init /\ [][Next]_syncVars

\* The loop and the clock go on and both worker threads run what they were given.
FairSpec ==
  /\ Spec
  /\ WF_syncVars(Loop \/ Tick) /\ WF_syncVars(Correct)
  /\ WF_syncVars(LaneStep("control")) /\ WF_syncVars(LaneStep("heavy") \/ DeferStep)

-----------------------------------------------------------------------------
\* Schedules, lanes and the receipt keep their shape.
TypeOK ==
  /\ \A r \in Resources : due[r] \in -Len(Heavy)..BACKOFF /\ fails[r] \in 0..BACKOFF
  /\ \A l \in Lanes : task[l].kind \in {Nil, "regular", "mixed", "deferred"}
  /\ receipt.accepted \subseteq Owned /\ pages \in 0..PAGES
  /\ turn \in 0..1 /\ left \in 0..INTERVAL

\* A receipt says COMPLETED when every route it was asked for was accepted and the
\* whole evidence was replayed, whichever turns, failures and restarts it took.
CompletedIsWhole ==
  receipt.state = "COMPLETED" => receipt.accepted = Owned /\ pages = 0

\* "Merge one lane's result without overwriting another lane's progress": a schedule
\* entry moves only with time or by its own resource.
OwnEntries ==
  [][\A r \in Resources :
      left' = left /\ due'[r] # due[r] =>
        (\E l \in Lanes : r \in task[l].queue) \/ r \in receipt'.accepted]_syncVars

\* An accepted route is not published again for the same request, and a receipt does
\* not fall back, restarts included.
AcceptedKept ==
  [][request' = request => /\ receipt.accepted \subseteq receipt'.accepted
                           /\ receipt.state = "COMPLETED" => receipt' = receipt]_syncVars

\* "Every due heavy resource is served": nobody starves while others have pending work,
\* fail, or a deferred projection takes every other turn.
HeavyServed == \A r \in HeavySet : (due[r] < 0) ~> (due[r] >= 0)

\* A deferred projection is completed although turns fail and the process restarts.
DeferredCompletes == (request = "asked") ~> (receipt.state = "COMPLETED")

\* When nothing fails any more the status says so: no entry outlives its cause.
Recovers == <>[](\A l \in Lanes : failed[l] \subseteq {"lane"})
\* "Retain one bounded latest status per target/resource across a drain"
\* (run_dashboard_sync.py): the entry of a lane that failed once.
LaneRecovers == <>[](\A l \in Lanes : failed[l] = {})
=============================================================================
