---------------------------- MODULE OperatorRetry ----------------------------
(*******************************************************************************)
(* Operator commands on the retry schedule.  A command made in the browser     *)
(* is a row of operator_retry_requests in D1; the bridge process leases it,    *)
(* posts it to the local dashboard API, which applies it to the scheduler      *)
(* ledger, and reports the result back.  A local client posts to the same      *)
(* API directly and repeats its call until it has read an answer.              *)
(* Sources: web/app/api/_shared/operator-retry.ts, dashboard/sync/             *)
(* resources.py, dashboard/operator_bridge.py, news/scheduler/state.py.        *)
(*                                                                             *)
(* The page knows a job from its mirror row, whose times the Worker rewrote    *)
(* (toISOString, milliseconds and Z); the ledger writes the same instant with  *)
(* microseconds and an offset, and compares the two as strings.  A stamp is    *)
(* therefore an instant together with the form it is written in.               *)
(*******************************************************************************)
EXTENDS Integers, FiniteSets

CONSTANTS
  Jobs,
  WebRequests,    \* (operator, idempotency key, job) of commands made on the page
  LocalRequests,  \* request ids of commands posted straight to the local API
  JobOf, ModeOf,  \* the job and the mode of a command
  LEASE,          \* OPERATOR_RETRY_LEASE_MS
  PATIENCE,       \* a claim's apply and finish are sent within this time
  GRACE,          \* how far in the past a custom time may lie
  DELAY,          \* the DELAY_* modes
  MaxTime,        \* bound: the clock
  MaxFaults,      \* bound: lost calls, lost answers, bridge restarts
  MaxMoves        \* bound: scheduler steps on the jobs

Requests == WebRequests \cup LocalRequests
MODES == {"KEEP_ORIGINAL", "IMMEDIATE", "DELAY", "CUSTOM_TIME"}
WAITING == {"QUEUED", "BACKING_OFF"}
OPEN == {"PENDING", "APPLYING"}
CLOSED == {"APPLIED", "CONFLICT", "REJECTED"}

ASSUME OperatorRetryAssumption ==
  /\ WebRequests \cap LocalRequests = {}
  /\ JobOf \in [Requests -> Jobs]
  /\ ModeOf \in [Requests -> MODES]
  /\ LEASE \in Nat /\ PATIENCE \in Nat /\ PATIENCE < LEASE
  /\ GRACE \in Nat /\ DELAY \in Nat
  /\ MaxTime \in Nat /\ MaxFaults \in Nat /\ MaxMoves \in Nat

VARIABLES
  now,
  job,       \* news_ai_jobs_v1 with the job's active override
  ledger,    \* request_ids in news_ai_retry_schedule_overrides_v1
  mirror,    \* operator_retry_jobs: what the page shows of a job
  request,   \* operator_retry_requests; for a local command, its client's view
  events,    \* operator_retry_request_events: the event types of a command
  bridge,    \* the one pass of _sync_operator_retries and its command
  late,      \* calls whose sender gave up but that may still be executed
  faults, moves

vars == <<now, job, ledger, mirror, request, events, bridge, late, faults, moves>>

Stamp(form, t) == [form |-> form, time |-> t]
Seen(j, form) == [state |-> job[j].state, at |-> Stamp(form, job[j].avail)]
NoRow == [state |-> "ABSENT", at |-> Stamp("WEB", 0)]
Idle == [step |-> "idle", req |-> "none", token |-> 0, by |-> 0, result |-> "none"]
NoRequest == [status |-> "NONE", seen |-> NoRow, custom |-> 0, asked |-> 0,
              token |-> 0, expires |-> 0]

Init ==
  /\ now = 0
  /\ job = [j \in Jobs |-> [state |-> "BACKING_OFF", avail |-> 1,
                            active |-> FALSE, original |-> 1]]
  /\ ledger = {}
  /\ mirror = [j \in Jobs |-> NoRow]
  /\ request = [r \in Requests |-> NoRequest]
  /\ events = [r \in Requests |-> {}]
  /\ bridge = Idle /\ late = {} /\ faults = 0 /\ moves = 0

\* A lost call or answer, early enough for the lease it leaves behind to expire.
Fault == /\ faults < MaxFaults
         /\ now + LEASE <= MaxTime
         /\ faults' = faults + 1

\* createOperatorRetryRequests, one job of the batch: the expectation is the
\* mirror row.  The audit row is a second D1 call, lost when the Worker dies.
Create(r) ==
  LET shown == mirror[JobOf[r]]
      status == IF shown.state \in WAITING THEN "PENDING" ELSE "REJECTED" IN
  /\ request[r].status = "NONE"
  /\ shown # NoRow
  /\ request' = [request EXCEPT ![r] =
       [NoRequest EXCEPT !.status = status, !.seen = shown, !.custom = now, !.asked = now]]
  /\ \/ /\ events' = [events EXCEPT ![r] =
             IF status = "REJECTED" THEN {"REQUESTED", "REJECTED"} ELSE {"REQUESTED"}]
        /\ UNCHANGED faults
     \/ /\ status = "PENDING"
        /\ Fault
        /\ UNCHANGED events
  /\ UNCHANGED <<now, job, ledger, mirror, bridge, late, moves>>

\* Mutant: a command whose lease was lost is not claimed again.
OnlyPending == {r \in WebRequests : request[r].status = "PENDING"}
Claimable ==
  {r \in WebRequests : \/ request[r].status = "PENDING"
                       \/ request[r].status = "APPLYING" /\ request[r].expires <= now}
Oldest(S) == {r \in S : \A q \in S : request[r].asked <= request[q].asked}

\* claimOperatorRetryRequest; a lost answer leaves the lease with nobody.
Claim ==
  /\ bridge = Idle
  /\ \E r \in Oldest(Claimable) :
       LET token == request[r].token + 1 IN
       /\ request' = [request EXCEPT ![r].status = "APPLYING", ![r].token = token,
                                     ![r].expires = now + LEASE]
       /\ \/ /\ bridge' = [step |-> "apply", req |-> r, token |-> token,
                           by |-> now + PATIENCE, result |-> "none"]
             /\ UNCHANGED faults
          \/ Fault /\ UNCHANGED bridge
  /\ UNCHANGED <<now, job, ledger, mirror, events, late, moves>>
-----------------------------------------------------------------------------
\* Mutant: the state and time the operator saw are not compared, and a replay
\* is answered by the job's present state.
VerdictNow(r) == IF job[JobOf[r]].state \in WAITING THEN "APPLIED" ELSE "CONFLICT"
\* apply_retry_schedule_override: validation first, then the replay of a
\* request the ledger knows, then the checks against the job's row.
Verdict(r) ==
  LET j == JobOf[r] IN
  IF ModeOf[r] = "CUSTOM_TIME" /\ request[r].custom + GRACE < now THEN "REJECTED"
  ELSE IF r \in ledger THEN "APPLIED"
  ELSE IF job[j].state \notin WAITING \/ request[r].seen # Seen(j, "LEDGER")
  THEN "CONFLICT"
  ELSE "APPLIED"

Effective(r) ==
  CASE ModeOf[r] = "KEEP_ORIGINAL" -> job[JobOf[r]].original
    [] ModeOf[r] = "IMMEDIATE" -> now
    [] ModeOf[r] = "DELAY" -> now + DELAY
    [] ModeOf[r] = "CUSTOM_TIME" -> request[r].custom

\* The transaction of one item of apply_retry_overrides.  KEEP_ORIGINAL without
\* an active override is recorded and changes nothing.
Execute(r) ==
  LET j == JobOf[r] IN
  IF Verdict(r) = "APPLIED" /\ r \notin ledger
  THEN /\ ledger' = ledger \cup {r}
       /\ job' = IF ModeOf[r] = "KEEP_ORIGINAL" /\ ~job[j].active THEN job
                 ELSE [job EXCEPT ![j].avail = Effective(r), ![j].active = TRUE]
  ELSE UNCHANGED <<ledger, job>>

Call(kind) == [kind |-> kind, req |-> bridge.req, token |-> bridge.token,
               by |-> bridge.by, result |-> bridge.result]

\* _post_local_json: answered; executed but the answer lost; or given up on
\* while the API still holds the call.  Without an answer the pass fails.
Apply ==
  /\ bridge.step = "apply"
  /\ \/ /\ Execute(bridge.req)
        /\ bridge' = [bridge EXCEPT !.step = "finish", !.result = Verdict(bridge.req)]
        /\ UNCHANGED <<late, faults>>
     \/ Execute(bridge.req) /\ Fault /\ bridge' = Idle /\ UNCHANGED late
     \/ Fault /\ bridge' = Idle /\ late' = late \cup {Call("APPLY")}
              /\ UNCHANGED <<ledger, job>>
  /\ UNCHANGED <<now, mirror, request, events, moves>>

LateApply ==
  /\ \E c \in late : c.kind = "APPLY" /\ Execute(c.req) /\ late' = late \ {c}
  /\ UNCHANGED <<now, mirror, request, events, bridge, faults, moves>>

\* Mutant: the lease token is not compared.
HeldByAnyone(c) == request[c.req].status # "NONE"
\* finishOperatorRetryRequest: one D1 batch, fenced by the lease token; the
\* audit row is written only when the command's status is the reported one.
Held(c) == request[c.req].status = "APPLYING" /\ request[c.req].token = c.token
Finished(c) ==
  LET status == IF Held(c) THEN c.result ELSE request[c.req].status IN
  /\ request' = [request EXCEPT ![c.req].status = status]
  /\ events' = IF status = c.result
               THEN [events EXCEPT ![c.req] = @ \cup {c.result}] ELSE events

\* The bridge reports the result.  Answered or not, and whether or not the lease
\* still held, the bridge is done with this command.
Finish ==
  /\ bridge.step = "finish"
  /\ bridge' = Idle
  /\ \/ Finished(Call("FINISH")) /\ UNCHANGED <<late, faults>>
     \/ Fault /\ late' = late \cup {Call("FINISH")} /\ UNCHANGED <<request, events>>
  /\ UNCHANGED <<now, job, ledger, mirror, moves>>

LateFinish ==
  /\ \E c \in late : c.kind = "FINISH" /\ Finished(c) /\ late' = late \ {c}
  /\ UNCHANGED <<now, job, ledger, mirror, bridge, faults, moves>>

\* The synchronizer stops between two calls and starts again.
Restart ==
  /\ bridge # Idle /\ Fault /\ bridge' = Idle
  /\ UNCHANGED <<now, job, ledger, mirror, request, events, late, moves>>
-----------------------------------------------------------------------------
\* A local client asks with the row it read from /api/retry-jobs, and calls
\* until it reads an answer.
LocalAsk(r) ==
  /\ request[r].status = "NONE"
  /\ request' = [request EXCEPT ![r] =
       [NoRequest EXCEPT !.status = "PENDING", !.seen = Seen(JobOf[r], "LEDGER"),
                         !.custom = now, !.asked = now]]
  /\ UNCHANGED <<now, job, ledger, mirror, events, bridge, late, faults, moves>>

LocalCall(r) ==
  /\ request[r].status = "PENDING"
  /\ Execute(r)
  /\ \/ request' = [request EXCEPT ![r].status = Verdict(r)] /\ UNCHANGED faults
     \/ Fault /\ UNCHANGED request
  /\ UNCHANGED <<now, mirror, events, bridge, late, moves>>

\* The mirror pass (module RetryMirror) brings the page one job's row; followed
\* as long as a command on the job may still be made.
Mirrored(j) ==
  /\ \E r \in WebRequests : JobOf[r] = j /\ request[r].status = "NONE"
  /\ mirror' = [mirror EXCEPT ![j] = Seen(j, "WEB")]
  /\ mirror' # mirror
  /\ UNCHANGED <<now, job, ledger, request, events, bridge, late, faults, moves>>

\* What the scheduler does to a job meanwhile: claim_job consumes the override;
\* a lease ends in a later retry, at once by expiry, or in completion.
Schedule(j) ==
  /\ moves < MaxMoves
  /\ moves' = moves + 1
  /\ \/ /\ job[j].state \in WAITING /\ job[j].avail <= now
        /\ job' = [job EXCEPT ![j].state = "LEASED", ![j].active = FALSE]
     \/ /\ job[j].state = "LEASED"
        /\ \E s \in {"QUEUED", "BACKING_OFF", "COMPLETED"} :
             LET avail == IF s = "BACKING_OFF" THEN now + 1 ELSE job[j].avail IN
             job' = [job EXCEPT ![j].state = s, ![j].avail = avail, ![j].original = avail]
  /\ UNCHANGED <<now, ledger, mirror, request, events, bridge, late, faults>>

\* Local calls and their execution fit between a claim and its lease's end.
Tick ==
  /\ now < MaxTime
  /\ bridge # Idle => now < bridge.by
  /\ \A c \in late : c.kind = "APPLY" => now < c.by
  /\ now' = now + 1
  /\ UNCHANGED <<job, ledger, mirror, request, events, bridge, late, faults, moves>>

Bridge == Claim \/ Apply \/ Finish
Next ==
  \/ \E r \in WebRequests : Create(r)
  \/ Bridge \/ LateApply \/ LateFinish \/ Restart
  \/ \E r \in LocalRequests : LocalAsk(r) \/ LocalCall(r)
  \/ \E j \in Jobs : Mirrored(j) \/ Schedule(j)
  \/ Tick

\* The control lane runs every cycle, the clock moves on, a client that wants
\* an answer keeps calling.
Fairness ==
  /\ WF_vars(Bridge) /\ WF_vars(LateApply) /\ WF_vars(Tick)
  /\ \A r \in LocalRequests : WF_vars(LocalCall(r))
Spec == Init /\ [][Next]_vars
FairSpec == Spec /\ Fairness
-----------------------------------------------------------------------------
\* Types of the state; an override is active only on a waiting job.
TypeOK ==
  /\ \A j \in Jobs : job[j].active => job[j].state \in WAITING
  /\ now \in 0..MaxTime /\ faults \in 0..MaxFaults /\ moves \in 0..MaxMoves
  /\ \A j \in Jobs : job[j].state \in WAITING \cup {"LEASED", "COMPLETED"}
  /\ ledger \subseteq Requests
  /\ \A r \in Requests : request[r].status \in OPEN \cup CLOSED \cup {"NONE"}
  /\ events \in [Requests -> SUBSET (CLOSED \cup {"REQUESTED"})]
  /\ bridge.step \in {"idle", "apply", "finish"}

\* The audit log of a command names its final status and no other outcome,
\* whatever calls were lost, repeated, or arrived after the lease was taken over.
AuditAgrees ==
  \A r \in WebRequests :
    events[r] \cap CLOSED = {request[r].status} \cap CLOSED

\* The commands are what the operator was promised: one effect at most, a final
\* answer, and APPLIED exactly for the commands in the schedule ledger.
outcome == [r \in Requests |-> IF request[r].status \in OPEN THEN "OPEN"
                               ELSE request[r].status]
Command == INSTANCE OperatorCommand WITH effected <- ledger
CommandsImplemented == Command!Spec

\* Every command made on the page is answered, though its lease was lost, its
\* answer was lost or the bridge restarted on the way.
CommandAnswered ==
  \A r \in Requests : request[r].status \in OPEN ~> request[r].status \in CLOSED

\* The page presents JOB_STATE_CHANGED as "the job's state or plan has changed":
\* a command on a job whose row is the one the operator saw is no conflict.
ConflictMeansChanged ==
  [][\A r \in WebRequests :
       bridge.step = "apply" /\ bridge.req = r /\ bridge'.result = "CONFLICT"
       => job[JobOf[r]].state # request[r].seen.state
            \/ job[JobOf[r]].avail # request[r].seen.at.time]_vars
=============================================================================
