------------------------- MODULE OperatorRetryProofs -------------------------
(*****************************************************************************)
(* Proofs about OperatorRetry for every set of commands and jobs, every      *)
(* assignment of modes, every lease and patience, and any number of lost     *)
(* calls, lost answers, restarts and scheduler moves; and about ArticleWork, *)
(* the work the retried jobs stand for, for every number of articles, every  *)
(* set of lanes, every queue and whatever the models answer.                 *)
(*****************************************************************************)
EXTENDS OperatorRetry, ArticleWork, FiniteSetTheorems, TLAPS

JobStates == WAITING \cup {"LEASED", "COMPLETED"}
JobRow == [state : JobStates, avail : Nat, active : BOOLEAN, original : Nat]
Stamps == [form : {"WEB", "LEDGER"}, time : Nat]
Shown == [state : JobStates \cup {"ABSENT"}, at : Stamps]
CommandRow == [status : OPEN \cup CLOSED \cup {"NONE"}, seen : Shown,
               custom : Nat, asked : Nat, token : Nat, expires : Nat]
Pass == [step : {"idle", "apply", "finish"}, req : WebRequests \cup {"none"},
         token : Nat, by : Nat, result : CLOSED \cup {"none"}]
Calls == [kind : {"APPLY", "FINISH"}, req : WebRequests \cup {"none"},
          token : Nat, by : Nat, result : CLOSED \cup {"none"}]

\* The state is well formed.
Typed ==
  /\ now \in 0..MaxTime /\ faults \in 0..MaxFaults /\ moves \in 0..MaxMoves
  /\ job \in [Jobs -> JobRow]
  /\ \A j \in Jobs : job[j].active => job[j].state \in WAITING
  /\ ledger \subseteq Requests
  /\ mirror \in [Jobs -> Shown]
  /\ request \in [Requests -> CommandRow]
  /\ events \in [Requests -> SUBSET (CLOSED \cup {"REQUESTED"})]
  /\ bridge \in Pass
  /\ late \subseteq Calls

\* A pass works on a command of the page, and reports only a result it got.
PassSound ==
  /\ bridge.step # "idle" => bridge.req \in WebRequests
  /\ bridge.step = "finish" => bridge.result \in CLOSED
  /\ \A c \in late : c.req \in WebRequests
  /\ \A c \in late : c.kind = "FINISH" => c.result \in CLOSED

AuditInv == Typed /\ PassSound /\ AuditAgrees

\* What the page has seen of a job it has seen in the Worker's form.
PageForm ==
  /\ \A j \in Jobs : mirror[j].at.form = "WEB"
  /\ \A r \in WebRequests : request[r].seen.at.form = "WEB"

\* No command of the page is in the ledger, or reported to be.
PageRefused ==
  /\ ledger \cap WebRequests = {}
  /\ \A r \in WebRequests : request[r].status # "APPLIED"
  /\ bridge.step = "finish" => bridge.result # "APPLIED"
  /\ \A c \in late : c.kind = "FINISH" => c.result # "APPLIED"

USE OperatorRetryAssumption DEF Requests, WAITING, OPEN, CLOSED, MODES
-----------------------------------------------------------------------------
\* What one item of apply_retry_overrides does to the jobs and to the ledger.
LEMMA ExecuteEffect ==
  ASSUME Typed, NEW r \in Requests, Execute(r)
  PROVE  /\ Verdict(r) \in CLOSED
         /\ job' \in [Jobs -> JobRow]
         /\ \A j \in Jobs : job'[j].active => job'[j].state \in WAITING
         /\ ledger' = IF Verdict(r) = "APPLIED" THEN ledger \cup {r} ELSE ledger
<1>1. JobOf[r] \in Jobs /\ ModeOf[r] \in MODES
  OBVIOUS
<1>2. job[JobOf[r]] \in JobRow /\ now \in Nat /\ request[r] \in CommandRow
  BY <1>1 DEF Typed
<1>3. Verdict(r) \in CLOSED
  BY DEF Verdict
<1>4. Effective(r) \in Nat
  BY <1>1, <1>2 DEF Effective, JobRow, CommandRow
<1>5. CASE Verdict(r) = "APPLIED" /\ r \notin ledger
  <2>1. job[JobOf[r]].state \in WAITING
    BY <1>5 DEF Verdict
  <2> DEFINE row == [job[JobOf[r]] EXCEPT !.avail = Effective(r), !.active = TRUE]
  <2>2. row \in JobRow /\ row.state = job[JobOf[r]].state
    BY <1>2, <1>4 DEF JobRow
  <2>3. job' = job \/ job' = [job EXCEPT ![JobOf[r]] = row]
    BY <1>5 DEF Execute
  <2> HIDE DEF row
  <2>4. \A j \in Jobs : job'[j].active => job'[j].state \in WAITING
    <3> TAKE j \in Jobs
    <3>1. CASE j = JobOf[r]
      <4>1. job'[j].state = job[j].state
        BY <1>1, <2>2, <2>3, <3>1 DEF Typed
      <4> QED
        BY <2>1, <3>1, <4>1
    <3>2. CASE j # JobOf[r]
      <4>1. job'[j] = job[j]
        BY <2>3, <3>2 DEF Typed
      <4>2. job[j].active => job[j].state \in WAITING
        BY DEF Typed
      <4> QED
        BY <4>1, <4>2, Zenon
    <3> QED
      BY <3>1, <3>2
  <2>5. job' \in [Jobs -> JobRow]
    BY <1>1, <2>2, <2>3 DEF Typed
  <2>6. ledger' = IF Verdict(r) = "APPLIED" THEN ledger \cup {r} ELSE ledger
    BY <1>5 DEF Execute
  <2> QED
    BY <1>3, <1>5, <2>4, <2>5, <2>6, Zenon
<1>6. CASE ~(Verdict(r) = "APPLIED" /\ r \notin ledger)
  <2>1. job' = job /\ ledger' = ledger
    BY <1>6 DEF Execute
  <2>2. \A j \in Jobs : job[j].active => job[j].state \in WAITING
    BY DEF Typed
  <2>3. ledger' = IF Verdict(r) = "APPLIED" THEN ledger \cup {r} ELSE ledger
    BY <1>6, <2>1
  <2> QED
    BY <1>3, <2>1, <2>2, <2>3 DEF Typed
<1> QED
  BY <1>5, <1>6

\* The commands a pass can claim are commands of the page that are open.
LEMMA ClaimableOpen ==
  ASSUME NEW r \in Oldest(Claimable)
  PROVE  r \in WebRequests /\ r \in Requests /\ request[r].status \in OPEN
BY DEF Oldest, Claimable

\* A claim leases one open command of the page.
LEMMA ClaimEffect ==
  ASSUME Typed, Claim
  PROVE  \E q \in WebRequests :
           /\ request[q].status \in OPEN /\ request'[q].status = "APPLYING"
           /\ request'[q].seen = request[q].seen
           /\ \A r \in Requests : r # q => request'[r] = request[r]
           /\ bridge' = bridge \/ (bridge'.step = "apply" /\ bridge'.req = q)
<1>1. PICK q \in Oldest(Claimable) :
        LET token == request[q].token + 1 IN
        /\ request' = [request EXCEPT ![q].status = "APPLYING", ![q].token = token,
                                      ![q].expires = now + LEASE]
        /\ \/ /\ bridge' = [step |-> "apply", req |-> q, token |-> token,
                            by |-> now + PATIENCE, result |-> "none"]
              /\ UNCHANGED faults
           \/ Fault /\ UNCHANGED bridge
  BY DEF Claim
<1>2. q \in WebRequests /\ q \in Requests /\ request[q].status \in OPEN
  BY ClaimableOpen
<1>3. request[q] \in CommandRow /\ request \in [Requests -> CommandRow]
  BY <1>2 DEF Typed
<1>4. request'[q].status = "APPLYING" /\ request'[q].seen = request[q].seen
  BY <1>1, <1>2, <1>3 DEF CommandRow
<1>5. \A r \in Requests : r # q => request'[r] = request[r]
  BY <1>1, <1>3
<1>6. bridge' = bridge \/ (bridge'.step = "apply" /\ bridge'.req = q)
  BY <1>1
<1> QED
  BY <1>2, <1>4, <1>5, <1>6

\* A call carries the command and the result of the pass that made it.
LEMMA CallShape ==
  ASSUME bridge \in Pass, NEW kind \in {"APPLY", "FINISH"}
  PROVE  /\ Call(kind) \in Calls /\ Call(kind).kind = kind
         /\ Call(kind).req = bridge.req /\ Call(kind).result = bridge.result
BY DEF Call, Calls, Pass

\* The report of a result leaves the fields of the command in their types.
LEMMA FinishedTypes ==
  ASSUME Typed, NEW c \in Calls, c.req \in WebRequests, c.result \in CLOSED, Finished(c)
  PROVE  /\ request' \in [Requests -> CommandRow]
         /\ events' \in [Requests -> SUBSET (CLOSED \cup {"REQUESTED"})]
         /\ \A r \in Requests : r # c.req =>
              request'[r] = request[r] /\ events'[r] = events[r]
         /\ request'[c.req].seen = request[c.req].seen
         /\ request'[c.req].status =
              IF Held(c) THEN c.result ELSE request[c.req].status
         /\ events'[c.req] = IF request'[c.req].status = c.result
                             THEN events[c.req] \cup {c.result} ELSE events[c.req]
<1> DEFINE status == IF Held(c) THEN c.result ELSE request[c.req].status
           row == [request[c.req] EXCEPT !.status = status]
<1>1. c.req \in Requests /\ request[c.req] \in CommandRow
  BY DEF Typed
<1>2. status \in OPEN \cup CLOSED \cup {"NONE"}
  BY <1>1 DEF CommandRow
<1>3. row \in CommandRow /\ row.seen = request[c.req].seen /\ row.status = status
  BY <1>1, <1>2 DEF CommandRow
<1>4. request' = [request EXCEPT ![c.req] = row]
  BY DEF Finished
<1>5. events' = IF status = c.result
                THEN [events EXCEPT ![c.req] = events[c.req] \cup {c.result}] ELSE events
  BY DEF Finished
<1> HIDE DEF row
<1>6. request' \in [Requests -> CommandRow] /\ request'[c.req] = row
  BY <1>1, <1>3, <1>4 DEF Typed
<1>7. \A r \in Requests : r # c.req => request'[r] = request[r] /\ events'[r] = events[r]
  BY <1>1, <1>4, <1>5 DEF Typed
<1>8. events' \in [Requests -> SUBSET (CLOSED \cup {"REQUESTED"})]
  BY <1>1, <1>5 DEF Typed
<1>9. events'[c.req] = IF status = c.result
                       THEN events[c.req] \cup {c.result} ELSE events[c.req]
  BY <1>1, <1>5 DEF Typed
<1> QED
  BY <1>3, <1>6, <1>7, <1>8, <1>9

\* The state stays well formed, and a pass reports what it was answered.
LEMMA TypedInit == Init => Typed /\ PassSound
<1> SUFFICES ASSUME Init PROVE Typed /\ PassSound
  OBVIOUS
<1>1. NoRow \in Shown /\ NoRequest \in CommandRow
  BY DEF NoRow, NoRequest, Shown, Stamps, Stamp, CommandRow
<1>2. job \in [Jobs -> JobRow] /\ \A j \in Jobs : job[j].active => job[j].state \in WAITING
  BY DEF Init, JobRow, JobStates
<1>3. bridge \in Pass
  BY DEF Init, Idle, Pass
<1> QED
  BY <1>1, <1>2, <1>3 DEF Init, Typed, PassSound, Idle

LEMMA FaultTypes ==
  ASSUME Typed, Fault \/ UNCHANGED faults
  PROVE  faults' \in 0..MaxFaults
BY DEF Typed, Fault

LEMMA TypedStep ==
  ASSUME Typed, PassSound, [Next]_vars
  PROVE  Typed' /\ PassSound'
<1> USE DEF Typed, PassSound
<1>1. ASSUME NEW r \in WebRequests, Create(r)
      PROVE  Typed' /\ PassSound'
  <2> DEFINE status == IF mirror[JobOf[r]].state \in WAITING THEN "PENDING" ELSE "REJECTED"
             row == [NoRequest EXCEPT !.status = status, !.seen = mirror[JobOf[r]],
                                      !.custom = now, !.asked = now]
  <2>1. r \in Requests /\ mirror[JobOf[r]] \in Shown /\ now \in Nat
    OBVIOUS
  <2>2. row \in CommandRow
    BY <2>1 DEF CommandRow, NoRequest
  <2>3. request' = [request EXCEPT ![r] = row]
    BY <1>1 DEF Create
  <2> HIDE DEF row
  <2>4. request' \in [Requests -> CommandRow]
    BY <2>1, <2>2, <2>3
  <2>5. events' \in [Requests -> SUBSET (CLOSED \cup {"REQUESTED"})]
    BY <1>1, <2>1 DEF Create
  <2>6. faults' \in 0..MaxFaults
    BY <1>1, FaultTypes DEF Create
  <2>7. UNCHANGED <<now, job, ledger, mirror, bridge, late, moves>>
    BY <1>1 DEF Create
  <2> QED
    BY <2>4, <2>5, <2>6, <2>7
<1>2. ASSUME Claim
      PROVE  Typed' /\ PassSound'
  <2>1. PICK r \in Oldest(Claimable) :
          LET token == request[r].token + 1 IN
          /\ request' = [request EXCEPT ![r].status = "APPLYING", ![r].token = token,
                                        ![r].expires = now + LEASE]
          /\ \/ /\ bridge' = [step |-> "apply", req |-> r, token |-> token,
                              by |-> now + PATIENCE, result |-> "none"]
                /\ UNCHANGED faults
             \/ Fault /\ UNCHANGED bridge
    BY <1>2 DEF Claim
  <2>2. r \in WebRequests /\ r \in Requests
    BY ClaimableOpen
  <2>3. request[r].token + 1 \in Nat /\ now + LEASE \in Nat /\ now + PATIENCE \in Nat
    BY <2>2 DEF CommandRow
  <2>4. request' \in [Requests -> CommandRow]
    BY <2>1, <2>2, <2>3 DEF CommandRow
  <2>5. bridge' \in Pass /\ (bridge'.step # "idle" => bridge'.req \in WebRequests)
         /\ (bridge'.step = "finish" => bridge'.result \in CLOSED)
    BY <2>1, <2>2, <2>3 DEF Pass
  <2>6. faults' \in 0..MaxFaults
    BY <2>1, FaultTypes
  <2>7. UNCHANGED <<now, job, ledger, mirror, events, late, moves>>
    BY <1>2 DEF Claim
  <2> QED
    BY <2>4, <2>5, <2>6, <2>7
<1>3. ASSUME Apply
      PROVE  Typed' /\ PassSound'
  <2>1. bridge.req \in WebRequests /\ bridge.req \in Requests
    BY <1>3 DEF Apply
  <2>2. /\ job' \in [Jobs -> JobRow] /\ ledger' \subseteq Requests
        /\ \A j \in Jobs : job'[j].active => job'[j].state \in WAITING
    <3>1. Execute(bridge.req) \/ UNCHANGED <<ledger, job>>
      BY <1>3 DEF Apply
    <3>2. CASE Execute(bridge.req)
      BY <2>1, <3>2, ExecuteEffect
    <3>3. CASE UNCHANGED <<ledger, job>>
      <4>1. \A j \in Jobs : job[j].active => job[j].state \in WAITING
        OBVIOUS
      <4> QED
        BY <3>3, <4>1
    <3> QED
      BY <3>1, <3>2, <3>3
  <2>3. /\ bridge' \in Pass /\ (bridge'.step # "idle" => bridge'.req \in WebRequests)
        /\ (bridge'.step = "finish" => bridge'.result \in CLOSED)
    <3>1. CASE bridge' = Idle
      BY <3>1 DEF Idle, Pass
    <3>2. CASE Execute(bridge.req)
               /\ bridge' = [bridge EXCEPT !.step = "finish", !.result = Verdict(bridge.req)]
      <4>1. Verdict(bridge.req) \in CLOSED
        BY <2>1, <3>2, ExecuteEffect
      <4> QED
        BY <2>1, <3>2, <4>1 DEF Pass
    <3> QED
      BY <1>3, <3>1, <3>2 DEF Apply
  <2>4. late' = late \/ late' = late \cup {Call("APPLY")}
    BY <1>3 DEF Apply
  <2>5. late' \subseteq Calls /\ (\A c \in late' : c.req \in WebRequests)
        /\ \A c \in late' : c.kind = "FINISH" => c.result \in CLOSED
    BY <2>1, <2>4, CallShape
  <2>6. faults' \in 0..MaxFaults
    BY <1>3, FaultTypes DEF Apply
  <2>7. UNCHANGED <<now, mirror, request, events, moves>>
    BY <1>3 DEF Apply
  <2> QED
    BY <2>2, <2>3, <2>5, <2>6, <2>7
<1>4. ASSUME LateApply
      PROVE  Typed' /\ PassSound'
  <2>1. PICK c \in late : c.kind = "APPLY" /\ Execute(c.req) /\ late' = late \ {c}
    BY <1>4 DEF LateApply
  <2>2. c.req \in Requests
    OBVIOUS
  <2>3. /\ job' \in [Jobs -> JobRow] /\ ledger' \subseteq Requests
        /\ \A j \in Jobs : job'[j].active => job'[j].state \in WAITING
    BY <2>1, <2>2, ExecuteEffect
  <2>4. UNCHANGED <<now, mirror, request, events, bridge, faults, moves>>
    BY <1>4 DEF LateApply
  <2> QED
    BY <2>1, <2>3, <2>4
<1>5. ASSUME Finish
      PROVE  Typed' /\ PassSound'
  <2>1. bridge.req \in WebRequests /\ bridge.result \in CLOSED /\ bridge.step = "finish"
    BY <1>5 DEF Finish
  <2>2. /\ request' \in [Requests -> CommandRow]
        /\ events' \in [Requests -> SUBSET (CLOSED \cup {"REQUESTED"})]
    <3>1. Finished(Call("FINISH")) \/ UNCHANGED <<request, events>>
      BY <1>5 DEF Finish
    <3>2. ASSUME Finished(Call("FINISH"))
          PROVE  /\ request' \in [Requests -> CommandRow]
                 /\ events' \in [Requests -> SUBSET (CLOSED \cup {"REQUESTED"})]
      BY <2>1, <3>2, CallShape, FinishedTypes
    <3> QED
      BY <3>1, <3>2
  <2>3. late' = late \/ late' = late \cup {Call("FINISH")}
    BY <1>5 DEF Finish
  <2>4. late' \subseteq Calls /\ (\A c \in late' : c.req \in WebRequests)
        /\ \A c \in late' : c.kind = "FINISH" => c.result \in CLOSED
    BY <2>1, <2>3, CallShape
  <2>5. bridge' = Idle /\ bridge' \in Pass
    BY <1>5 DEF Finish, Idle, Pass
  <2>6. faults' \in 0..MaxFaults
    BY <1>5, FaultTypes DEF Finish
  <2>7. UNCHANGED <<now, job, ledger, mirror, moves>>
    BY <1>5 DEF Finish
  <2> QED
    BY <2>2, <2>4, <2>5, <2>6, <2>7 DEF Idle
<1>6. ASSUME LateFinish
      PROVE  Typed' /\ PassSound'
  <2>1. PICK c \in late : c.kind = "FINISH" /\ Finished(c) /\ late' = late \ {c}
    BY <1>6 DEF LateFinish
  <2>2. c.req \in WebRequests /\ c.result \in CLOSED /\ c \in Calls
    BY <2>1
  <2>3. /\ request' \in [Requests -> CommandRow]
        /\ events' \in [Requests -> SUBSET (CLOSED \cup {"REQUESTED"})]
    BY <2>1, <2>2, FinishedTypes
  <2>4. UNCHANGED <<now, job, ledger, mirror, bridge, faults, moves>>
    BY <1>6 DEF LateFinish
  <2> QED
    BY <2>1, <2>3, <2>4
<1>7. ASSUME Restart
      PROVE  Typed' /\ PassSound'
  <2>1. bridge' = Idle /\ bridge' \in Pass
    BY <1>7 DEF Restart, Idle, Pass
  <2>2. faults' \in 0..MaxFaults
    BY <1>7, FaultTypes DEF Restart
  <2>3. UNCHANGED <<now, job, ledger, mirror, request, events, late, moves>>
    BY <1>7 DEF Restart
  <2> QED
    BY <2>1, <2>2, <2>3 DEF Idle
<1>8. ASSUME NEW r \in LocalRequests, LocalAsk(r)
      PROVE  Typed' /\ PassSound'
  <2> DEFINE row == [NoRequest EXCEPT !.status = "PENDING", !.seen = Seen(JobOf[r], "LEDGER"),
                                      !.custom = now, !.asked = now]
  <2>1. r \in Requests /\ job[JobOf[r]] \in JobRow /\ now \in Nat
    OBVIOUS
  <2>2. Seen(JobOf[r], "LEDGER") \in Shown
    BY <2>1 DEF Seen, Shown, Stamp, Stamps, JobRow
  <2>3. row \in CommandRow
    BY <2>1, <2>2 DEF CommandRow, NoRequest
  <2>4. request' = [request EXCEPT ![r] = row]
    BY <1>8 DEF LocalAsk
  <2> HIDE DEF row
  <2>5. request' \in [Requests -> CommandRow]
    BY <2>1, <2>3, <2>4
  <2>6. UNCHANGED <<now, job, ledger, mirror, events, bridge, late, faults, moves>>
    BY <1>8 DEF LocalAsk
  <2> QED
    BY <2>5, <2>6
<1>9. ASSUME NEW r \in LocalRequests, LocalCall(r)
      PROVE  Typed' /\ PassSound'
  <2>1. r \in Requests /\ request[r] \in CommandRow
    OBVIOUS
  <2>2. /\ job' \in [Jobs -> JobRow] /\ ledger' \subseteq Requests /\ Verdict(r) \in CLOSED
        /\ \A j \in Jobs : job'[j].active => job'[j].state \in WAITING
    BY <1>9, <2>1, ExecuteEffect DEF LocalCall
  <2>3. request' \in [Requests -> CommandRow]
    BY <1>9, <2>1, <2>2 DEF LocalCall, CommandRow
  <2>4. faults' \in 0..MaxFaults
    BY <1>9, FaultTypes DEF LocalCall
  <2>5. UNCHANGED <<now, mirror, events, bridge, late, moves>>
    BY <1>9 DEF LocalCall
  <2> QED
    BY <2>2, <2>3, <2>4, <2>5
<1>10. ASSUME NEW j \in Jobs, Mirrored(j)
       PROVE  Typed' /\ PassSound'
  <2>1. Seen(j, "WEB") \in Shown
    <3>1. job[j] \in JobRow
      OBVIOUS
    <3> QED
      BY <3>1 DEF Seen, Shown, Stamp, Stamps, JobRow
  <2>2. mirror' \in [Jobs -> Shown]
    BY <1>10, <2>1 DEF Mirrored
  <2>3. UNCHANGED <<now, job, ledger, request, events, bridge, late, faults, moves>>
    BY <1>10 DEF Mirrored
  <2> QED
    BY <2>2, <2>3
<1>11. ASSUME NEW j \in Jobs, Schedule(j)
       PROVE  Typed' /\ PassSound'
  <2>1. job[j] \in JobRow /\ now + 1 \in Nat
    OBVIOUS
  <2>2. PICK row \in JobRow : /\ job' = [job EXCEPT ![j] = row]
                              /\ row.active => row.state \in WAITING
    <3>1. CASE job[j].state \in WAITING /\ job' = [job EXCEPT ![j].state = "LEASED", ![j].active = FALSE]
      <4> DEFINE row == [job[j] EXCEPT !.state = "LEASED", !.active = FALSE]
      <4>1. row \in JobRow /\ row.active = FALSE /\ job' = [job EXCEPT ![j] = row]
        BY <2>1, <3>1 DEF JobRow, JobStates
      <4> QED
        BY <4>1
    <3>2. CASE /\ job[j].state = "LEASED"
               /\ \E s \in {"QUEUED", "BACKING_OFF", "COMPLETED"} :
                    LET avail == IF s = "BACKING_OFF" THEN now + 1 ELSE job[j].avail IN
                    job' = [job EXCEPT ![j].state = s, ![j].avail = avail, ![j].original = avail]
      <4>1. PICK s \in {"QUEUED", "BACKING_OFF", "COMPLETED"} :
              LET avail == IF s = "BACKING_OFF" THEN now + 1 ELSE job[j].avail IN
              job' = [job EXCEPT ![j].state = s, ![j].avail = avail, ![j].original = avail]
        BY <3>2
      <4> DEFINE avail == IF s = "BACKING_OFF" THEN now + 1 ELSE job[j].avail
                 row == [job[j] EXCEPT !.state = s, !.avail = avail, !.original = avail]
      <4>2. row \in JobRow /\ row.active = job[j].active /\ job' = [job EXCEPT ![j] = row]
        BY <2>1, <4>1 DEF JobRow, JobStates
      <4>3. ~job[j].active
        BY <3>2
      <4> QED
        BY <4>2, <4>3, Zenon
    <3> QED
      BY <1>11, <3>1, <3>2 DEF Schedule
  <2>3. job' \in [Jobs -> JobRow] /\ job'[j] = row /\ \A k \in Jobs : k # j => job'[k] = job[k]
    BY <2>2
  <2>4. \A k \in Jobs : job'[k].active => job'[k].state \in WAITING
    BY <2>2, <2>3, Zenon
  <2>5. moves' \in 0..MaxMoves
    BY <1>11 DEF Schedule
  <2>6. UNCHANGED <<now, ledger, mirror, request, events, bridge, late, faults>>
    BY <1>11 DEF Schedule
  <2> QED
    BY <2>3, <2>4, <2>5, <2>6
<1>12. ASSUME Tick
       PROVE  Typed' /\ PassSound'
  BY <1>12 DEF Tick
<1>13. ASSUME UNCHANGED vars
       PROVE  Typed' /\ PassSound'
  BY <1>13 DEF vars
<1> QED
  BY <1>1, <1>2, <1>3, <1>4, <1>5, <1>6, <1>7, <1>8, <1>9, <1>10, <1>11, <1>12, <1>13
  DEF Next, Bridge

LEMMA TypedAlways == Spec => [](Typed /\ PassSound)
<1>1. Typed /\ PassSound /\ [Next]_vars => (Typed /\ PassSound)'
  BY TypedStep
<1> QED
  BY <1>1, TypedInit, PTL DEF Spec

\* Every variable stays in its type; an override is active only on a waiting job.
THEOREM TypeCorrect == Spec => []TypeOK
<1>1. Typed => TypeOK
  <2> SUFFICES ASSUME Typed PROVE TypeOK
    OBVIOUS
  <2>1. \A j \in Jobs : job[j].active => job[j].state \in WAITING
    BY DEF Typed
  <2>2. \A j \in Jobs : job[j].state \in WAITING \cup {"LEASED", "COMPLETED"}
    BY DEF Typed, JobRow, JobStates
  <2>3. \A r \in Requests : request[r].status \in OPEN \cup CLOSED \cup {"NONE"}
    BY DEF Typed, CommandRow
  <2>4. bridge.step \in {"idle", "apply", "finish"}
    BY DEF Typed, Pass
  <2> QED
    BY <2>1, <2>2, <2>3, <2>4 DEF Typed, TypeOK
<1> QED
  BY <1>1, TypedAlways, PTL
-----------------------------------------------------------------------------
\* Of the outcomes in a command's audit log only the command's status is one,
\* after a report that found its lease standing and after one that did not.
LEMMA AuditStep ==
  ASSUME Typed, PassSound, AuditAgrees, [Next]_vars
  PROVE  AuditAgrees'
<1> SUFFICES ASSUME NEW r \in WebRequests
             PROVE  events'[r] \cap CLOSED = {request'[r].status} \cap CLOSED
  BY DEF AuditAgrees
<1>r. /\ r \in Requests /\ r \notin LocalRequests
      /\ request[r] \in CommandRow /\ request \in [Requests -> CommandRow]
      /\ events \in [Requests -> SUBSET (CLOSED \cup {"REQUESTED"})]
      /\ events[r] \cap CLOSED = {request[r].status} \cap CLOSED
  <2>1. /\ request \in [Requests -> CommandRow]
        /\ events \in [Requests -> SUBSET (CLOSED \cup {"REQUESTED"})]
    BY DEF Typed
  <2>2. events[r] \cap CLOSED = {request[r].status} \cap CLOSED
    BY DEF AuditAgrees
  <2>3. r \in Requests /\ r \notin LocalRequests
    OBVIOUS
  <2> QED
    BY <2>1, <2>2, <2>3
<1>f. ASSUME NEW c \in Calls, c.req \in WebRequests, c.result \in CLOSED, Finished(c)
      PROVE  events'[r] \cap CLOSED = {request'[r].status} \cap CLOSED
  <2>1. CASE r # c.req
    <3>1. request'[r] = request[r] /\ events'[r] = events[r]
      BY <1>f, <2>1, FinishedTypes
    <3> QED
      BY <1>r, <3>1
  <2>2. CASE r = c.req
    <3>1. /\ request'[r].status = IF Held(c) THEN c.result ELSE request[r].status
          /\ events'[r] = IF request'[r].status = c.result
                          THEN events[r] \cup {c.result} ELSE events[r]
      BY <1>f, <2>2, FinishedTypes
    <3>2. Held(c) => request[r].status = "APPLYING"
      BY <2>2 DEF Held
    <3> QED
      BY <1>r, <1>f, <3>1, <3>2
  <2> QED
    BY <2>1, <2>2
<1>1. ASSUME NEW q \in WebRequests, Create(q)
      PROVE  events'[r] \cap CLOSED = {request'[r].status} \cap CLOSED
  <2>1. CASE q = r
    BY <1>1, <1>r, <2>1 DEF Create, NoRequest
  <2>2. CASE q # r
    BY <1>1, <1>r, <2>2 DEF Create
  <2> QED
    BY <2>1, <2>2
<1>2. CASE Claim
  <2>1. \/ request[r].status \in OPEN /\ request'[r].status = "APPLYING"
        \/ request'[r] = request[r]
    BY <1>2, <1>r, ClaimEffect
  <2>2. events' = events
    BY <1>2 DEF Claim
  <2> QED
    BY <1>r, <2>1, <2>2
<1>3. CASE Apply
  BY <1>r, <1>3 DEF Apply
<1>4. CASE LateApply
  BY <1>r, <1>4 DEF LateApply
<1>5. CASE Finish
  <2>1. bridge \in Pass /\ bridge.req \in WebRequests /\ bridge.result \in CLOSED
    BY <1>5 DEF Finish, Typed, PassSound
  <2>2. Call("FINISH") \in Calls /\ Call("FINISH").req \in WebRequests
         /\ Call("FINISH").result \in CLOSED
    BY <2>1, CallShape
  <2> QED
    BY <1>5, <1>r, <1>f, <2>2 DEF Finish
<1>6. CASE LateFinish
  BY <1>6, <1>f DEF LateFinish, Typed, PassSound
<1>7. CASE Restart
  BY <1>r, <1>7 DEF Restart
<1>8. ASSUME NEW q \in LocalRequests, LocalAsk(q) \/ LocalCall(q)
      PROVE  events'[r] \cap CLOSED = {request'[r].status} \cap CLOSED
  <2>1. q # r
    BY <1>r
  <2>2. request'[r] = request[r] /\ events' = events
    BY <1>8, <1>r, <2>1 DEF LocalAsk, LocalCall
  <2> QED
    BY <1>r, <2>2
<1>9. ASSUME NEW j \in Jobs, Mirrored(j) \/ Schedule(j)
      PROVE  events'[r] \cap CLOSED = {request'[r].status} \cap CLOSED
  BY <1>r, <1>9 DEF Mirrored, Schedule
<1>10. CASE Tick
  BY <1>r, <1>10 DEF Tick
<1>11. CASE UNCHANGED vars
  BY <1>r, <1>11 DEF vars
<1> QED
  BY <1>1, <1>2, <1>3, <1>4, <1>5, <1>6, <1>7, <1>8, <1>9, <1>10, <1>11 DEF Next, Bridge

\* The audit log of a command names its final status and no other outcome, at
\* every interleaving of passes, restarts, late calls and lost answers: a result
\* reported after the lease was taken over neither changes the status nor, when
\* it differs, enters the log.
THEOREM AuditAlwaysAgrees == Spec => []AuditAgrees
<1>1. Init => AuditAgrees
  BY DEF Init, AuditAgrees, NoRequest
<1>2. Typed /\ PassSound /\ AuditAgrees /\ [Next]_vars => AuditAgrees'
  BY AuditStep
<1> QED
  BY <1>1, <1>2, TypedAlways, PTL DEF Spec
-----------------------------------------------------------------------------
\* The times the page shows were rewritten by the Worker.
LEMMA PageFormStep ==
  ASSUME Typed, PassSound, PageForm, [Next]_vars
  PROVE  PageForm'
<1> USE DEF PageForm
<1>1. ASSUME NEW q \in WebRequests, Create(q)
      PROVE  PageForm'
  <2>1. \A r \in WebRequests : r # q => request'[r] = request[r]
    BY <1>1 DEF Create, Typed
  <2>2. request'[q].seen = mirror[JobOf[q]]
    BY <1>1 DEF Create, Typed, NoRequest
  <2>3. JobOf[q] \in Jobs /\ mirror' = mirror
    BY <1>1 DEF Create
  <2> QED
    BY <2>1, <2>2, <2>3
<1>2. CASE Claim
  <2>1. \A r \in WebRequests : request'[r].seen = request[r].seen
    BY <1>2, ClaimEffect
  <2> QED
    BY <1>2, <2>1 DEF Claim
<1>3. ASSUME NEW c \in Calls, c.req \in WebRequests, c.result \in CLOSED, Finished(c)
      PROVE  \A r \in WebRequests : request'[r].seen = request[r].seen
  BY <1>3, FinishedTypes
<1>4. CASE Finish \/ LateFinish
  <2>1. UNCHANGED mirror
    BY <1>4 DEF Finish, LateFinish
  <2>2. (\E c \in Calls : c.req \in WebRequests /\ c.result \in CLOSED /\ Finished(c))
         \/ UNCHANGED request
    BY <1>4, CallShape DEF Finish, LateFinish, Typed, PassSound
  <2> QED
    BY <1>3, <2>1, <2>2
<1>5. CASE Apply \/ LateApply \/ Restart \/ Tick \/ UNCHANGED vars
  BY <1>5 DEF Apply, LateApply, Restart, Tick, vars
<1>6. ASSUME NEW q \in LocalRequests, LocalAsk(q) \/ LocalCall(q)
      PROVE  PageForm'
  <2>1. \A r \in WebRequests : request'[r] = request[r]
    BY <1>6 DEF LocalAsk, LocalCall, Typed
  <2> QED
    BY <1>6, <2>1 DEF LocalAsk, LocalCall
<1>7. ASSUME NEW j \in Jobs, Mirrored(j) \/ Schedule(j)
      PROVE  PageForm'
  BY <1>7 DEF Mirrored, Schedule, Seen, Stamp, Typed
<1> QED
  BY <1>1, <1>2, <1>4, <1>5, <1>6, <1>7 DEF Next, Bridge

\* The ledger never accepts a command of the page: it compares the time the
\* page saw with its own as strings, and they are written in different forms.
LEMMA PageVerdict ==
  ASSUME PageForm, PageRefused, NEW r \in WebRequests
  PROVE  Verdict(r) # "APPLIED"
<1>1. r \notin ledger /\ request[r].seen.at.form = "WEB"
  BY DEF PageForm, PageRefused
<1>2. Seen(JobOf[r], "LEDGER").at.form = "LEDGER"
  BY DEF Seen, Stamp
<1>3. request[r].seen # Seen(JobOf[r], "LEDGER")
  BY <1>1, <1>2
<1> QED
  BY <1>1, <1>3 DEF Verdict

LEMMA PageRefusedStep ==
  ASSUME Typed, PassSound, PageForm, PageRefused, [Next]_vars
  PROVE  PageRefused'
<1>a. ASSUME NEW r \in WebRequests, Execute(r)
      PROVE  ledger' = ledger /\ Verdict(r) # "APPLIED"
  BY <1>a, PageVerdict, ExecuteEffect
<1>f. ASSUME NEW c \in Calls, c.req \in WebRequests, c.result \in CLOSED,
             c.result # "APPLIED", Finished(c)
      PROVE  \A r \in WebRequests : request'[r].status # "APPLIED"
  <2> TAKE r \in WebRequests
  <2>1. request[r].status # "APPLIED"
    BY DEF PageRefused
  <2> QED
    BY <1>f, <2>1, FinishedTypes
<1>1. ASSUME NEW q \in WebRequests, Create(q)
      PROVE  PageRefused'
  <2>1. \A r \in WebRequests : r # q => request'[r] = request[r]
    BY <1>1 DEF Create, Typed
  <2>2. request'[q].status \in {"PENDING", "REJECTED"}
    BY <1>1 DEF Create, Typed, NoRequest
  <2> QED
    BY <1>1, <2>1, <2>2 DEF Create, PageRefused
<1>2. CASE Claim
  <2>1. \A r \in WebRequests :
          request'[r].status = request[r].status \/ request'[r].status = "APPLYING"
    BY <1>2, ClaimEffect
  <2>2. bridge'.step = "apply" \/ bridge' = bridge
    BY <1>2, ClaimEffect
  <2> QED
    BY <1>2, <2>1, <2>2 DEF Claim, PageRefused
<1>3. CASE Apply
  <2>1. bridge.req \in WebRequests /\ bridge \in Pass
    BY <1>3 DEF Apply, PassSound, Typed
  <2>2. ledger' = ledger
    BY <1>3, <1>a, <2>1 DEF Apply
  <2>3. bridge'.step = "finish" => bridge'.result # "APPLIED"
    <3>1. CASE bridge' = Idle
      BY <3>1 DEF Idle
    <3>2. CASE Execute(bridge.req)
               /\ bridge' = [bridge EXCEPT !.step = "finish", !.result = Verdict(bridge.req)]
      <4>1. bridge'.result = Verdict(bridge.req)
        BY <2>1, <3>2 DEF Pass
      <4> QED
        BY <1>a, <2>1, <3>2, <4>1
    <3> QED
      BY <1>3, <3>1, <3>2 DEF Apply
  <2>4. \A c \in late' : c \in late \/ c.kind = "APPLY"
    BY <1>3, <2>1, CallShape DEF Apply
  <2> QED
    BY <1>3, <2>2, <2>3, <2>4 DEF Apply, PageRefused
<1>4. CASE LateApply
  <2>1. ledger' = ledger
    BY <1>4, <1>a DEF LateApply, PassSound
  <2> QED
    BY <1>4, <2>1 DEF LateApply, PageRefused
<1>5. CASE Finish
  <2>1. /\ bridge \in Pass /\ bridge.req \in WebRequests /\ bridge.result \in CLOSED
        /\ bridge.result # "APPLIED"
    BY <1>5 DEF Finish, Typed, PassSound, PageRefused
  <2>2. \A r \in WebRequests : request'[r].status # "APPLIED"
    <3>1. Call("FINISH") \in Calls /\ Call("FINISH").req = bridge.req
           /\ Call("FINISH").result = bridge.result
      BY <2>1, CallShape
    <3> QED
      BY <1>5, <1>f, <2>1, <3>1 DEF Finish, PageRefused
  <2>3. \A c \in late' : c \in late \/ c.result # "APPLIED"
    BY <1>5, <2>1, CallShape DEF Finish
  <2> QED
    BY <1>5, <2>2, <2>3 DEF Finish, PageRefused, Idle
<1>6. CASE LateFinish
  <2>1. \A r \in WebRequests : request'[r].status # "APPLIED"
    BY <1>6, <1>f DEF LateFinish, Typed, PassSound, PageRefused
  <2> QED
    BY <1>6, <2>1 DEF LateFinish, PageRefused
<1>7. CASE Restart \/ Tick \/ UNCHANGED vars
  BY <1>7 DEF Restart, Tick, vars, PageRefused, Idle
<1>8. ASSUME NEW q \in LocalRequests, LocalAsk(q) \/ LocalCall(q)
      PROVE  PageRefused'
  <2>1. \A r \in WebRequests : request'[r] = request[r]
    BY <1>8 DEF LocalAsk, LocalCall, Typed
  <2>2. ledger' \cap WebRequests = {}
    BY <1>8, ExecuteEffect DEF LocalAsk, LocalCall, PageRefused
  <2> QED
    BY <1>8, <2>1, <2>2 DEF LocalAsk, LocalCall, PageRefused
<1>9. ASSUME NEW j \in Jobs, Mirrored(j) \/ Schedule(j)
      PROVE  PageRefused'
  BY <1>9 DEF Mirrored, Schedule, PageRefused
<1> QED
  BY <1>1, <1>2, <1>3, <1>4, <1>5, <1>6, <1>7, <1>8, <1>9 DEF Next, Bridge

PageInv == PageForm /\ PageRefused

LEMMA PageAlways == Spec => []PageInv
<1>1. Init => PageInv
  BY DEF Init, PageInv, PageForm, PageRefused, NoRow, NoRequest, Stamp, Idle
<1>2. Typed /\ PassSound /\ PageInv /\ [Next]_vars => PageInv'
  BY PageFormStep, PageRefusedStep DEF PageInv
<1> QED
  BY <1>1, <1>2, TypedAlways, PTL DEF Spec

\* No command made on the page ever takes effect, whatever its mode and however
\* often it is claimed: the violation that run operator_conflict shows for one
\* command holds of every command on every job.
THEOREM PageCommandsTakeNoEffect ==
  Spec => [](\A r \in WebRequests : r \notin ledger /\ request[r].status # "APPLIED")
<1>1. PageInv => \A r \in WebRequests : r \notin ledger /\ request[r].status # "APPLIED"
  BY DEF PageInv, PageRefused
<1> QED
  BY <1>1, PageAlways, PTL
-----------------------------------------------------------------------------
\* A replayed custom time is still admissible.  apply_retry_schedule_override
\* validates the time before it looks for the request in the ledger, so a local
\* client that repeats a CUSTOM_TIME command too late is answered REJECTED
\* though the command took effect; on every other command the promise holds.
ReplaysInTime ==
  \A r \in LocalRequests : ModeOf[r] = "CUSTOM_TIME" => MaxTime <= GRACE

\* What a local client has been told is what the ledger holds.
LocalSound ==
  \A r \in LocalRequests :
    /\ request[r].status = "NONE" => r \notin ledger
    /\ request[r].status \in CLOSED =>
         ((request[r].status = "APPLIED") <=> (r \in ledger))

\* Within its time a repeated command the ledger knows is answered APPLIED.
LEMMA ReplayVerdict ==
  ASSUME Typed, ReplaysInTime, NEW r \in LocalRequests, r \in ledger
  PROVE  Verdict(r) = "APPLIED"
<1>1. r \in Requests /\ request[r].custom \in Nat /\ now \in 0..MaxTime
  BY DEF Typed, CommandRow
<1>2. ~(ModeOf[r] = "CUSTOM_TIME" /\ request[r].custom + GRACE < now)
  BY <1>1 DEF ReplaysInTime
<1> QED
  BY <1>2 DEF Verdict

\* One call of a local client: the answer read, if one is, is what the ledger
\* holds after the call.
LEMMA LocalCallEffect ==
  ASSUME Typed, ReplaysInTime, NEW r \in LocalRequests, LocalCall(r)
  PROVE  /\ request[r].status = "PENDING"
         /\ ledger' = ledger \/ (r \notin ledger /\ ledger' = ledger \cup {r})
         /\ request' \in [Requests -> CommandRow]
         /\ \A q \in Requests : q # r => request'[q] = request[q]
         /\ \/ request'[r].status = "PENDING"
            \/ /\ request'[r].status \in CLOSED
               /\ (request'[r].status = "APPLIED") <=> (r \in ledger')
<1>1. r \in Requests /\ request[r] \in CommandRow /\ request \in [Requests -> CommandRow]
  BY DEF Typed
<1>2. /\ Verdict(r) \in CLOSED
      /\ ledger' = IF Verdict(r) = "APPLIED" THEN ledger \cup {r} ELSE ledger
  BY <1>1, ExecuteEffect DEF LocalCall
<1>3. (Verdict(r) = "APPLIED") <=> (r \in ledger')
  BY <1>2, ReplayVerdict
<1>4. ledger' = ledger \/ (r \notin ledger /\ ledger' = ledger \cup {r})
  BY <1>2
<1>5. request' = request \/ request' = [request EXCEPT ![r].status = Verdict(r)]
  BY DEF LocalCall
<1>6. request[r].status = "PENDING"
  BY DEF LocalCall
<1>7. /\ request' \in [Requests -> CommandRow]
      /\ \A q \in Requests : q # r => request'[q] = request[q]
      /\ request'[r].status = "PENDING" \/ request'[r].status = Verdict(r)
  BY <1>1, <1>2, <1>5, <1>6 DEF CommandRow
<1> QED
  BY <1>2, <1>3, <1>4, <1>6, <1>7

LEMMA LocalSoundStep ==
  ASSUME Typed, PassSound, PageInv, LocalSound, ReplaysInTime, [Next]_vars
  PROVE  LocalSound'
<1> SUFFICES ASSUME NEW r \in LocalRequests
             PROVE  /\ request'[r].status = "NONE" => r \notin ledger'
                    /\ request'[r].status \in CLOSED =>
                         ((request'[r].status = "APPLIED") <=> (r \in ledger'))
  BY DEF LocalSound
<1>r. /\ r \in Requests /\ r \notin WebRequests
      /\ request[r].status = "NONE" => r \notin ledger
      /\ request[r].status \in CLOSED =>
           ((request[r].status = "APPLIED") <=> (r \in ledger))
  BY DEF LocalSound
<1>s. ASSUME request'[r] = request[r], r \in ledger' <=> r \in ledger
      PROVE  /\ request'[r].status = "NONE" => r \notin ledger'
             /\ request'[r].status \in CLOSED =>
                  ((request'[r].status = "APPLIED") <=> (r \in ledger'))
  BY <1>r, <1>s
<1>1. ASSUME NEW q \in WebRequests, Create(q)
      PROVE  request'[r] = request[r] /\ (r \in ledger' <=> r \in ledger)
  BY <1>r, <1>1 DEF Create, Typed
<1>2. ASSUME Claim
      PROVE  request'[r] = request[r] /\ (r \in ledger' <=> r \in ledger)
  <2>1. request'[r] = request[r]
    BY <1>2, <1>r, ClaimEffect
  <2> QED
    BY <1>2, <2>1 DEF Claim
<1>3. ASSUME Apply \/ LateApply
      PROVE  request'[r] = request[r] /\ (r \in ledger' <=> r \in ledger)
  <2>1. request' = request
    BY <1>3 DEF Apply, LateApply
  <2>2. (\E q \in WebRequests : Execute(q)) \/ ledger' = ledger
    BY <1>3 DEF Apply, LateApply, PassSound
  <2>3. ASSUME NEW q \in WebRequests, Execute(q)
        PROVE  ledger' = ledger
    BY <2>3, PageVerdict, ExecuteEffect DEF PageInv
  <2> QED
    BY <2>1, <2>2, <2>3
<1>4. ASSUME Finish \/ LateFinish
      PROVE  request'[r] = request[r] /\ (r \in ledger' <=> r \in ledger)
  <2>1. UNCHANGED ledger
    BY <1>4 DEF Finish, LateFinish
  <2>2. (\E c \in Calls : c.req \in WebRequests /\ c.result \in CLOSED /\ Finished(c))
         \/ UNCHANGED request
    BY <1>4, CallShape DEF Finish, LateFinish, Typed, PassSound
  <2>3. ASSUME NEW c \in Calls, c.req \in WebRequests, c.result \in CLOSED, Finished(c)
        PROVE  request'[r] = request[r]
    BY <1>r, <2>3, FinishedTypes
  <2> QED
    BY <2>1, <2>2, <2>3
<1>5. ASSUME Restart \/ Tick \/ UNCHANGED vars
      PROVE  request'[r] = request[r] /\ (r \in ledger' <=> r \in ledger)
  BY <1>5 DEF Restart, Tick, vars
<1>6. ASSUME NEW q \in LocalRequests, LocalAsk(q)
      PROVE  /\ request'[r].status = "NONE" => r \notin ledger'
             /\ request'[r].status \in CLOSED =>
                  ((request'[r].status = "APPLIED") <=> (r \in ledger'))
  <2>1. CASE q = r
    <3>1. request'[r].status = "PENDING"
      BY <1>6, <1>r, <2>1 DEF LocalAsk, Typed, NoRequest
    <3> QED
      BY <3>1
  <2>2. CASE q # r
    <3>1. request'[r] = request[r] /\ ledger' = ledger
      BY <1>6, <1>r, <2>2 DEF LocalAsk, Typed
    <3> QED
      BY <1>s, <3>1
  <2> QED
    BY <2>1, <2>2
<1>7. ASSUME NEW q \in LocalRequests, LocalCall(q)
      PROVE  /\ request'[r].status = "NONE" => r \notin ledger'
             /\ request'[r].status \in CLOSED =>
                  ((request'[r].status = "APPLIED") <=> (r \in ledger'))
  <2>1. CASE q = r
    BY <1>7, <2>1, LocalCallEffect
  <2>2. CASE q # r
    <3>1. request'[r] = request[r] /\ (r \in ledger' <=> r \in ledger)
      BY <1>7, <1>r, <2>2, LocalCallEffect
    <3> QED
      BY <1>s, <3>1
  <2> QED
    BY <2>1, <2>2
<1>8. ASSUME NEW j \in Jobs, Mirrored(j) \/ Schedule(j)
      PROVE  request'[r] = request[r] /\ (r \in ledger' <=> r \in ledger)
  BY <1>8 DEF Mirrored, Schedule
<1> QED
  BY <1>s, <1>1, <1>2, <1>3, <1>4, <1>5, <1>6, <1>7, <1>8 DEF Next, Bridge

\* What the operator has been told of a command after a step: of the commands
\* whose row the step leaves alone, the same as before.
LEMMA OutcomeOf ==
  ASSUME request \in [Requests -> CommandRow]
  PROVE  /\ outcome \in [Requests -> {"OPEN", "NONE"} \cup CLOSED]
         /\ \A r \in Requests :
              /\ request[r].status = "NONE" => outcome[r] = "NONE"
              /\ request[r].status \in OPEN => outcome[r] = "OPEN"
              /\ request[r].status \in CLOSED => outcome[r] = request[r].status
BY DEF outcome, CommandRow

LEMMA OutcomeStep ==
  ASSUME request \in [Requests -> CommandRow], request' \in [Requests -> CommandRow],
         NEW r \in Requests, \A q \in Requests : q # r => request'[q].status = request[q].status
  PROVE  outcome' = [outcome EXCEPT ![r] = IF request'[r].status \in OPEN THEN "OPEN"
                                           ELSE request'[r].status]
<1> DEFINE new == IF request'[r].status \in OPEN THEN "OPEN" ELSE request'[r].status
           told == [outcome EXCEPT ![r] = new]
<1>1. outcome' = [q \in Requests |-> IF request'[q].status \in OPEN THEN "OPEN"
                                     ELSE request'[q].status]
  BY DEF outcome
<1>2. told = [q \in Requests |-> IF q = r THEN new ELSE outcome[q]]
  BY DEF outcome
<1>3. \A q \in Requests : q # r => outcome[q] = IF request'[q].status \in OPEN THEN "OPEN"
                                               ELSE request'[q].status
  BY DEF outcome
<1> QED
  BY <1>1, <1>2, <1>3

\* Every step is a step of OperatorCommand, or leaves what it speaks of alone.
LEMMA CommandStep ==
  ASSUME Typed, PassSound, PageInv, LocalSound, ReplaysInTime, Typed', [Next]_vars
  PROVE  [Command!Next]_(Command!vars)
<1>u. request \in [Requests -> CommandRow] /\ request' \in [Requests -> CommandRow]
  BY DEF Typed
<1>s. ASSUME \A q \in Requests : request'[q].status = request[q].status, ledger' = ledger
      PROVE  [Command!Next]_(Command!vars)
  <2>1. outcome' = outcome
    BY <1>s DEF outcome
  <2> QED
    BY <1>s, <2>1 DEF Command!vars
<1>f. ASSUME NEW c \in Calls, c.req \in WebRequests, c.result \in CLOSED,
             c.result # "APPLIED", Finished(c), ledger' = ledger
      PROVE  [Command!Next]_(Command!vars)
  <2>1. /\ c.req \in Requests /\ c.req \notin ledger
        /\ \A q \in Requests : q # c.req => request'[q].status = request[q].status
        /\ request'[c.req].status = IF Held(c) THEN c.result ELSE request[c.req].status
    BY <1>f, FinishedTypes DEF PageInv, PageRefused
  <2>2. CASE Held(c)
    <3>1. outcome' = [outcome EXCEPT ![c.req] = c.result]
      BY <1>u, <1>f, <2>1, <2>2, OutcomeStep
    <3>2. outcome[c.req] = "OPEN"
      BY <1>u, <2>1, <2>2, OutcomeOf DEF Held
    <3>3. Command!Answer(c.req)
      BY <1>f, <2>1, <3>1, <3>2 DEF Command!Answer, Command!ANSWERS
    <3> QED
      BY <2>1, <3>3 DEF Command!Next
  <2>3. CASE ~Held(c)
    BY <1>f, <1>s, <2>1, <2>3
  <2> QED
    BY <2>2, <2>3
<1>1. ASSUME NEW r \in WebRequests, Create(r)
      PROVE  [Command!Next]_(Command!vars)
  <2>1. /\ r \in Requests /\ request[r].status = "NONE" /\ ledger' = ledger
        /\ \A q \in Requests : q # r => request'[q].status = request[q].status
    BY <1>1, <1>u DEF Create
  <2>2. request'[r].status \in {"PENDING", "REJECTED"}
    BY <1>1, <1>u DEF Create, NoRequest
  <2>3. outcome[r] = "NONE"
    BY <1>u, <2>1, OutcomeOf
  <2>4. CASE request'[r].status = "PENDING"
    <3>1. outcome' = [outcome EXCEPT ![r] = "OPEN"]
      BY <1>u, <2>1, <2>4, OutcomeStep
    <3> QED
      BY <2>1, <2>3, <3>1 DEF Command!Next, Command!Ask
  <2>5. CASE request'[r].status = "REJECTED"
    <3>1. outcome' = [outcome EXCEPT ![r] = "REJECTED"]
      BY <1>u, <2>1, <2>5, OutcomeStep
    <3> QED
      BY <2>1, <2>3, <3>1 DEF Command!Next, Command!Refuse
  <2> QED
    BY <2>2, <2>4, <2>5
<1>2. CASE Claim
  <2>1. PICK q \in WebRequests :
          /\ request[q].status \in OPEN /\ request'[q].status = "APPLYING"
          /\ \A r \in Requests : r # q => request'[r] = request[r]
    BY <1>2, ClaimEffect
  <2>2. outcome' = [outcome EXCEPT ![q] = "OPEN"]
    BY <1>u, <2>1, OutcomeStep
  <2>3. outcome[q] = "OPEN" /\ outcome \in [Requests -> {"OPEN", "NONE"} \cup CLOSED]
    BY <1>u, <2>1, OutcomeOf
  <2>4. outcome' = outcome /\ ledger' = ledger
    BY <1>2, <2>2, <2>3 DEF Claim
  <2> QED
    BY <2>4 DEF Command!vars
<1>3. CASE Apply \/ LateApply
  <2>1. request' = request
    BY <1>3 DEF Apply, LateApply
  <2>2. (\E q \in WebRequests : Execute(q)) \/ ledger' = ledger
    BY <1>3 DEF Apply, LateApply, PassSound
  <2>3. ASSUME NEW q \in WebRequests, Execute(q)
        PROVE  ledger' = ledger
    BY <2>3, PageVerdict, ExecuteEffect DEF PageInv
  <2> QED
    BY <1>s, <2>1, <2>2, <2>3
<1>4. CASE Finish
  <2>1. /\ bridge \in Pass /\ bridge.req \in WebRequests /\ bridge.result \in CLOSED
        /\ bridge.result # "APPLIED" /\ ledger' = ledger
    BY <1>4 DEF Finish, Typed, PassSound, PageInv, PageRefused
  <2>2. /\ Call("FINISH") \in Calls /\ Call("FINISH").req = bridge.req
        /\ Call("FINISH").result = bridge.result
    BY <2>1, CallShape
  <2>3. CASE Finished(Call("FINISH"))
    BY <1>f, <2>1, <2>2, <2>3
  <2>4. CASE UNCHANGED request
    BY <1>s, <2>1, <2>4
  <2> QED
    BY <1>4, <2>3, <2>4 DEF Finish
<1>5. CASE LateFinish
  <2>1. PICK c \in late : c.kind = "FINISH" /\ Finished(c)
    BY <1>5 DEF LateFinish
  <2>2. c \in Calls /\ c.req \in WebRequests /\ c.result \in CLOSED /\ c.result # "APPLIED"
    BY <2>1 DEF Typed, PassSound, PageInv, PageRefused
  <2>3. ledger' = ledger
    BY <1>5 DEF LateFinish
  <2> QED
    BY <1>f, <2>1, <2>2, <2>3
<1>6. CASE Restart \/ Tick \/ UNCHANGED vars
  BY <1>s, <1>6 DEF Restart, Tick, vars
<1>7. ASSUME NEW r \in LocalRequests, LocalAsk(r)
      PROVE  [Command!Next]_(Command!vars)
  <2>1. /\ r \in Requests /\ request[r].status = "NONE" /\ request'[r].status = "PENDING"
        /\ ledger' = ledger
        /\ \A q \in Requests : q # r => request'[q].status = request[q].status
    BY <1>7, <1>u DEF LocalAsk, NoRequest
  <2>2. outcome[r] = "NONE" /\ outcome' = [outcome EXCEPT ![r] = "OPEN"]
    BY <1>u, <2>1, OutcomeOf, OutcomeStep
  <2> QED
    BY <2>1, <2>2 DEF Command!Next, Command!Ask
<1>8. ASSUME NEW r \in LocalRequests, LocalCall(r)
      PROVE  [Command!Next]_(Command!vars)
  <2>1. /\ r \in Requests /\ request[r].status = "PENDING"
        /\ ledger' = ledger \/ (r \notin ledger /\ ledger' = ledger \cup {r})
        /\ \A q \in Requests : q # r => request'[q].status = request[q].status
        /\ \/ request'[r].status = "PENDING"
           \/ /\ request'[r].status \in CLOSED
              /\ (request'[r].status = "APPLIED") <=> (r \in ledger')
    BY <1>8, LocalCallEffect
  <2>2. outcome[r] = "OPEN" /\ outcome \in [Requests -> {"OPEN", "NONE"} \cup CLOSED]
    BY <1>u, <2>1, OutcomeOf
  <2>3. CASE request'[r].status = "PENDING"
    <3>1. outcome' = outcome
      <4>1. outcome' = [outcome EXCEPT ![r] = "OPEN"]
        BY <1>u, <2>1, <2>3, OutcomeStep
      <4> QED
        BY <2>2, <4>1
    <3>2. CASE ledger' = ledger
      BY <3>1, <3>2 DEF Command!vars
    <3>3. CASE r \notin ledger /\ ledger' = ledger \cup {r}
      BY <2>1, <2>2, <3>1, <3>3 DEF Command!Next, Command!TakeEffect
    <3> QED
      BY <2>1, <3>2, <3>3
  <2>4. CASE request'[r].status \in CLOSED /\ ((request'[r].status = "APPLIED") <=> (r \in ledger'))
    <3>1. outcome' = [outcome EXCEPT ![r] = request'[r].status]
      BY <1>u, <2>1, <2>4, OutcomeStep
    <3>2. CASE ledger' = ledger
      <4>1. Command!Answer(r)
        BY <2>2, <2>4, <3>1, <3>2 DEF Command!Answer, Command!ANSWERS
      <4> QED
        BY <2>1, <4>1 DEF Command!Next
    <3>3. CASE r \notin ledger /\ ledger' = ledger \cup {r}
      <4>1. Command!EffectAndAnswer(r)
        BY <2>2, <2>4, <3>1, <3>3 DEF Command!EffectAndAnswer
      <4> QED
        BY <2>1, <4>1 DEF Command!Next
    <3> QED
      BY <2>1, <3>2, <3>3
  <2> QED
    BY <2>1, <2>3, <2>4
<1>9. ASSUME NEW j \in Jobs, Mirrored(j) \/ Schedule(j)
      PROVE  [Command!Next]_(Command!vars)
  BY <1>s, <1>9 DEF Mirrored, Schedule
<1> QED
  BY <1>1, <1>2, <1>3, <1>4, <1>5, <1>6, <1>7, <1>8, <1>9 DEF Next, Bridge

\* Operator commands are what OperatorCommand promises: one effect at most, a
\* final answer, and APPLIED exactly for the commands in the schedule ledger,
\* when replayed custom times come within their grace.
THEOREM CommandsAreImplemented ==
  ASSUME ReplaysInTime
  PROVE  Spec => CommandsImplemented
<1>1. Init => LocalSound /\ Command!Init
  BY DEF Init, LocalSound, NoRequest, Command!Init, outcome
<1>2. Typed /\ PassSound /\ PageInv /\ LocalSound /\ [Next]_vars => LocalSound'
  BY LocalSoundStep, ReplaysInTime
<1>3. Spec => []LocalSound
  BY <1>1, <1>2, TypedAlways, PageAlways, PTL DEF Spec
<1>4. Typed /\ PassSound /\ PageInv /\ LocalSound /\ Typed' /\ [Next]_vars
      => [Command!Next]_(Command!vars)
  BY CommandStep, ReplaysInTime
<1> QED
  BY <1>1, <1>3, <1>4, TypedAlways, PageAlways, PTL DEF Spec, CommandsImplemented, Command!Spec

-----------------------------------------------------------------------------
(* The work of the lanes on their articles (ArticleWork).                  *)

Models == {DEFAULT, FALLBACK}
Matches == {"SAME_EVENT", "SAME_EPISODE"}
Relations == Matches \cup {"NEW_EPISODE", "UNRESOLVED"}
Offers == [of : Articles, episode : Nat, event : Nat]
Evidence == [context : SUBSET Offers, output : Outputs \cup {Nobody}]
Identities == [relation : Relations \cup {"none"}, matched : Nat, episode : Nat, event : Nat]
Places == {"idle", "retrieve", "ask", "anchors", "review", "repair", "checkpoint", "resolve",
           "store", "title", "count", "mark", "log"}
Work == [pc : Places, job : ArticleJobs, model : Models, evidence : Evidence,
         answer : Identities, attempt : Nat, terminal : BOOLEAN]

ArticleTyped ==
  /\ annotations \in [Articles -> SUBSET Models]
  /\ titled \in [Articles -> SUBSET (Models \cup {"title"})]
  /\ checkpoint \in [Articles -> Evidence]
  /\ resolved \in [Articles -> Identities]
  /\ IsFiniteSet(failures) /\ queued \subseteq ArticleJobs
  /\ lease \in [ArticleJobs -> Lanes \cup {Nobody}]
  /\ lane \in [Lanes -> Work]

\* A worker whose lease did not lapse under it still holds it.
HoldsItsLease ==
  \A w \in Lanes : lane[w].pc # "idle" /\ Job(w) \notin lapsed => lease[Job(w)] = w

\* The candidates of an article: earlier annotated ones, each with an identity it has or
\* with none.
WellOffered(a, e, ann, res) ==
  \A o \in e.context :
    /\ o.of < a /\ ann[o.of] # {}
    /\ res[o.of] = Unresolved => o.episode = 0 /\ o.event = 0
CheckpointsOffered == \A a \in Articles : WellOffered(a, checkpoint[a], annotations, resolved)

\* An identity that is the article's own or grounded in an earlier article.
Grounded(a, r, ann, res) ==
  IF r.relation \in Matches
  THEN LET m == r.matched
           known == <<res[m].episode, res[m].event>>
       IN /\ m \in Articles /\ m < a /\ ann[m] # {}
          /\ \E id \in {<<m, m>>} \cup {known} :
               /\ id = known => res[m] # Unresolved
               /\ r.episode = id[1]
               /\ r.event = IF r.relation = "SAME_EVENT" THEN id[2] ELSE a
  ELSE r.matched = 0 /\ r.episode = a /\ r.event = a

Matched(work) ==
  IF work.answer.relation \in Matches
  THEN \E o \in work.evidence.context : work.answer.matched = o.of
  ELSE work.answer.matched = 0

\* What a worker on an impact job relies on.
AtImpact(work, ann, res) ==
  work.job[1] = "impact" =>
    /\ work.pc \notin {"idle", "anchors", "review", "title"}
    /\ ann[work.job[2]] # {}
    /\ WellOffered(work.job[2], work.evidence, ann, res)
    /\ work.pc = "checkpoint" => work.evidence.output \in Outputs
    /\ work.pc = "resolve" => Matched(work)
    /\ work.pc = "store" => Grounded(work.job[2], work.answer, ann, res)
AtAnnotation(work, ann, lap) ==
  work.job[1] = "annotation" =>
    /\ work.pc \notin {"idle", "retrieve", "repair", "checkpoint", "resolve"}
    /\ work.pc \in {"ask", "anchors", "review", "store"} /\ work.job \notin lap =>
         ann[work.job[2]] = {}
    /\ work.pc = "title" => work.model \in ann[work.job[2]]
AtTitle(work) ==
  work.job[1] = "title" => work.pc \in {"idle", "ask", "store", "count", "mark", "log"}
\* A rejected answer that was kept is the one the worker repairs.
Repairs(work, kept, lap) ==
  work.job[1] = "impact" /\ work.job \notin lap =>
    /\ work.pc \in {"retrieve", "ask", "checkpoint"} => kept = NoEvidence
    /\ work.pc = "repair" => kept = work.evidence /\ kept # NoEvidence
    /\ work.pc \in {"resolve", "store"} => kept \in {NoEvidence, work.evidence}

\* A worker that counted the failures of its job knows all of them but those logged since.
Mine(item, model, fl) == {f \in fl : f.job = item /\ f.model = model}
Counted(work, fl) ==
  work.pc = "log" \/ (work.pc = "mark" /\ work.job[1] # "impact") =>
    work.attempt \in 1..(Cardinality(Mine(work.job, work.model, fl)) + 1)
\* A failure without a retry is logged after its article is marked.
MarkedFirst(work, pro) ==
  work.terminal =>
    /\ work.pc \in {"mark", "count", "log"}
    /\ work.pc = "log" \/ (work.job[1] = "impact" /\ work.pc = "count") =>
         work.job[2] \in pro

Sound(work, ann, res, chk, fl, pro, lap) ==
  /\ AtImpact(work, ann, res) /\ AtAnnotation(work, ann, lap) /\ AtTitle(work)
  /\ Repairs(work, chk[work.job[2]], lap)
  /\ Counted(work, fl) /\ MarkedFirst(work, pro)
WorkSound ==
  \A w \in Lanes : Sound(lane[w], annotations, resolved, checkpoint, failures, prohibited, lapsed)
ArticleInv ==
  /\ ArticleTyped /\ HoldsItsLease /\ CheckpointsOffered /\ WorkSound
  /\ IdentityGrounded /\ FailuresNumbered /\ TerminalMarked /\ OneAnnotation

-----------------------------------------------------------------------------
(* Shapes.                                                                 *)

LEMMA WorkFields ==
  ASSUME NEW work \in Work
  PROVE  /\ work.pc \in Places /\ work.job \in ArticleJobs /\ work.job[1] \in Tasks
         /\ work.job[2] \in Articles /\ work.job = <<work.job[1], work.job[2]>>
         /\ work.model \in Models /\ work.evidence \in Evidence /\ work.answer \in Identities
         /\ work.attempt \in Nat /\ work.terminal \in BOOLEAN
BY DEF Work, ArticleJobs

LEMMA EvidenceFields ==
  ASSUME NEW e \in Evidence
  PROVE  /\ e.context \subseteq Offers /\ e.output \in Outputs \cup {Nobody}
         /\ \A o \in e.context : o.of \in Articles /\ o.episode \in Nat /\ o.event \in Nat
BY DEF Evidence, Offers

LEMMA Constants ==
  /\ Count \in Nat /\ Count >= 1 /\ 1 \in Articles /\ Articles \subseteq Nat
  /\ \A a \in Articles : a # 0 /\ a >= 1
  /\ Nobody \notin Lanes /\ Nobody \notin Outputs
  /\ DEFAULT = "default" /\ FALLBACK = "fallback"
BY ArticleAssumption DEF Articles, DEFAULT, FALLBACK

LEMMA NoWorkTyped == NoWork \in Work
<1>1. <<"title", 1>> \in ArticleJobs BY Constants DEF ArticleJobs, Tasks
<1>2. NoEvidence \in Evidence BY DEF NoEvidence, Evidence
<1>3. Unresolved \in Identities BY DEF Unresolved, Identities
<1> QED BY <1>1, <1>2, <1>3 DEF NoWork, Work, Places, Models

LEMMA UnresolvedIdentity ==
  /\ Unresolved \in Identities /\ NoEvidence \in Evidence
  /\ NoEvidence.context = {} /\ NoEvidence.output = Nobody
  /\ Unresolved.relation = "none" /\ Unresolved.episode = 0 /\ Unresolved.event = 0
  /\ Unresolved.matched = 0
BY DEF Unresolved, Identities, NoEvidence, Evidence

\* What Init leaves.
LEMMA InitTyped == ArticleInit => ArticleTyped
<1> SUFFICES ASSUME ArticleInit PROVE ArticleTyped OBVIOUS
<1>1. failures = {} /\ queued \subseteq ArticleJobs BY ArticleAssumption DEF ArticleInit
<1>2. IsFiniteSet({}) BY FS_EmptySet
<1> QED BY <1>1, <1>2, NoWorkTyped, UnresolvedIdentity DEF ArticleInit, ArticleTyped

\* A step of one worker leaves the others' work as it is.
LEMMA OneLane ==
  ASSUME lane \in [Lanes -> Work], NEW w \in Lanes, NEW work, lane' = [lane EXCEPT ![w] = work]
  PROVE  /\ lane'[w] = work /\ \A x \in Lanes : x # w => lane'[x] = lane[x]
         /\ work \in Work => lane' \in [Lanes -> Work]
OBVIOUS

LEMMA OntoLane ==
  ASSUME lane \in [Lanes -> Work], NEW w \in Lanes, NEW pc \in Places, Onto(w, pc)
  PROVE  /\ lane' = [lane EXCEPT ![w] = [lane[w] EXCEPT !.pc = pc]]
         /\ [lane[w] EXCEPT !.pc = pc] \in Work
BY DEF Onto, Work

LEMMA LeftLane ==
  ASSUME ArticleTyped, NEW w \in Lanes, Leave(w)
  PROVE  /\ lane' = [lane EXCEPT ![w] = NoWork] /\ lane' \in [Lanes -> Work]
         /\ lease' = [lease EXCEPT ![Job(w)] = IF lease[Job(w)] = w THEN Nobody ELSE lease[Job(w)]]
         /\ lease' \in [ArticleJobs -> Lanes \cup {Nobody}]
<1>1. Job(w) \in ArticleJobs BY WorkFields DEF ArticleTyped, Job
<1> QED BY <1>1, NoWorkTyped DEF Leave, ArticleTyped

-----------------------------------------------------------------------------
(* What was established of an article stays so while evidence is added.     *)

LEMMA OfferedGrows ==
  ASSUME NEW a, NEW e \in Evidence, NEW ann, NEW ann2, NEW res, NEW res2,
         \A c \in Articles : ann[c] \subseteq ann2[c],
         \A c \in Articles : res[c] # Unresolved => res2[c] = res[c],
         WellOffered(a, e, ann, res)
  PROVE  WellOffered(a, e, ann2, res2)
BY EvidenceFields DEF WellOffered

LEMMA GroundedGrows ==
  ASSUME NEW a \in Articles, NEW r, NEW ann, NEW ann2, NEW res, NEW res2,
         \A c \in Articles : ann[c] \subseteq ann2[c],
         \A c \in Articles : res[c] # Unresolved => res2[c] = res[c],
         Grounded(a, r, ann, res)
  PROVE  Grounded(a, r, ann2, res2)
<1>1. CASE r.relation \notin Matches BY <1>1 DEF Grounded
<1>2. CASE r.relation \in Matches
  <2> DEFINE m == r.matched
             known(rs) == <<rs[m].episode, rs[m].event>>
  <2>1. m \in Articles /\ m < a /\ ann2[m] # {} BY <1>2 DEF Grounded
  <2>2. PICK id \in {<<m, m>>} \cup {known(res)} :
          /\ id = known(res) => res[m] # Unresolved
          /\ r.episode = id[1]
          /\ r.event = IF r.relation = "SAME_EVENT" THEN id[2] ELSE a
    BY <1>2 DEF Grounded
  <2>3. CASE res[m] # Unresolved
    <3>1. res2[m] = res[m] BY <2>1, <2>3
    <3>2. known(res2) = known(res) BY <3>1
    <3> QED BY <1>2, <2>1, <2>2, <2>3, <3>1, <3>2 DEF Grounded
  <2>4. CASE res[m] = Unresolved
    <3>1. id = <<m, m>> BY <2>2, <2>4
    <3>2. res2[m] = Unresolved => known(res2) = <<0, 0>> BY UnresolvedIdentity
    <3>3. m # 0 BY <2>1, Constants
    <3>4. <<m, m>> # <<0, 0>> BY <3>3
    <3>5. id = known(res2) => res2[m] # Unresolved BY <3>1, <3>2, <3>4
    <3> QED BY <1>2, <2>1, <2>2, <3>1, <3>5 DEF Grounded
  <2> QED BY <2>3, <2>4
<1> QED BY <1>1, <1>2

\* What other workers add leaves the work of a worker sound, if they add no annotation and
\* no rejected answer to the article of its undisturbed job.
LEMMA SoundGrows ==
  ASSUME NEW work \in Work, NEW ann, NEW ann2, NEW res, NEW res2, NEW chk, NEW chk2,
         NEW fl, NEW fl2, NEW pro, NEW pro2, NEW lap, NEW lap2,
         \A c \in Articles : ann[c] \subseteq ann2[c],
         \A c \in Articles : res[c] # Unresolved => res2[c] = res[c],
         fl \subseteq fl2, IsFiniteSet(fl2), pro \subseteq pro2, lap \subseteq lap2,
         work.job[1] = "annotation" /\ work.job \notin lap2 => ann2[work.job[2]] = ann[work.job[2]],
         work.job[1] = "impact" /\ work.job \notin lap2 => chk2[work.job[2]] = chk[work.job[2]],
         Sound(work, ann, res, chk, fl, pro, lap)
  PROVE  Sound(work, ann2, res2, chk2, fl2, pro2, lap2)
<1>0. work.job[2] \in Articles /\ work.evidence \in Evidence BY WorkFields
<1>1. AtImpact(work, ann2, res2)
  <2> SUFFICES ASSUME work.job[1] = "impact"
               PROVE  /\ ann2[work.job[2]] # {}
                      /\ WellOffered(work.job[2], work.evidence, ann2, res2)
                      /\ work.pc = "store" => Grounded(work.job[2], work.answer, ann2, res2)
    BY DEF AtImpact, Sound
  <2>1. ann2[work.job[2]] # {} BY <1>0 DEF AtImpact, Sound
  <2>2. WellOffered(work.job[2], work.evidence, ann2, res2)
    BY <1>0, OfferedGrows DEF AtImpact, Sound
  <2>3. work.pc = "store" => Grounded(work.job[2], work.answer, ann2, res2)
    BY <1>0, GroundedGrows DEF AtImpact, Sound
  <2> QED BY <2>1, <2>2, <2>3
<1>2. AtAnnotation(work, ann2, lap2) BY <1>0 DEF AtAnnotation, Sound
<1>3. AtTitle(work) BY DEF Sound
<1>4. Repairs(work, chk2[work.job[2]], lap2) BY DEF Repairs, Sound
<1>5. Counted(work, fl2)
  <2> DEFINE mine(f) == Mine(work.job, work.model, f)
  <2>1. mine(fl) \subseteq mine(fl2) /\ mine(fl2) \subseteq fl2 BY DEF Mine
  <2>2. IsFiniteSet(mine(fl2)) BY <2>1, FS_Subset
  <2>3. IsFiniteSet(mine(fl)) /\ Cardinality(mine(fl)) <= Cardinality(mine(fl2))
    BY <2>1, <2>2, FS_Subset
  <2>4. Cardinality(mine(fl)) \in Nat /\ Cardinality(mine(fl2)) \in Nat
    BY <2>2, <2>3, FS_CardinalityType
  <2> HIDE DEF mine
  <2>5. Counted(work, fl) BY DEF Sound
  <2>6. work.attempt \in 1..(Cardinality(mine(fl)) + 1) => work.attempt \in 1..(Cardinality(mine(fl2)) + 1)
    BY <2>3, <2>4
  <2> QED BY <2>5, <2>6 DEF Counted, mine
<1>6. MarkedFirst(work, pro2) BY DEF MarkedFirst, Sound
<1> QED BY <1>1, <1>2, <1>3, <1>4, <1>5, <1>6 DEF Sound

-----------------------------------------------------------------------------
(* What a step of a worker does to the evidence and the leases.            *)

AddsAnnotation(w, a) ==
  /\ Job(w) = <<"annotation", a>> /\ lane[w].pc = "store"
  /\ lane[w].model \notin annotations[a]
  /\ annotations'[a] = annotations[a] \cup {lane[w].model}
AddsTitle(w, a) ==
  \/ titled'[a] = titled[a] \cup {"title"}
  \/ /\ Job(w) = <<"annotation", a>> /\ lane[w].pc = "title"
     /\ titled'[a] = titled[a] \cup {lane[w].model}
KeepsAnswer(w, a) ==
  /\ Job(w) = <<"impact", a>> /\ lane[w].pc = "checkpoint" /\ checkpoint[a] = NoEvidence
  /\ checkpoint'[a] = lane[w].evidence
Identifies(w, a) ==
  /\ Job(w) = <<"impact", a>> /\ lane[w].pc = "store" /\ resolved[a] = Unresolved
  /\ resolved'[a] = lane[w].answer
Row(work) == [job |-> work.job, model |-> work.model, attempt |-> work.attempt,
              terminal |-> work.terminal]
Logs(w) ==
  /\ lane[w].pc = "log" /\ lane[w].attempt \notin Attempts(Job(w), lane[w].model)
  /\ failures' = failures \cup {Row(lane[w])}

Adds(w) ==
  /\ \A a \in Articles :
       /\ annotations'[a] = annotations[a] \/ AddsAnnotation(w, a)
       /\ titled'[a] = titled[a] \/ AddsTitle(w, a)
       /\ checkpoint'[a] = checkpoint[a] \/ KeepsAnswer(w, a)
       /\ resolved'[a] = resolved[a] \/ Identifies(w, a)
  /\ failures' = failures \/ Logs(w)
  /\ prohibited \subseteq prohibited' /\ lapsed' = lapsed

\* It takes a free lease, or gives back its own.
Leases(w) ==
  /\ \A j \in ArticleJobs : lease'[j] # lease[j] =>
       (j = Job(w) /\ lease[j] = w) \/ (lease[j] = Nobody /\ lease'[j] = w)
  /\ lane'[w].pc # "idle" =>
       \/ lane'[w].job = Job(w) /\ lane[w].pc # "idle" /\ lease' = lease
       \/ lease'[lane'[w].job] = w
Effect(w) ==
  /\ ArticleTyped' /\ Adds(w) /\ Leases(w)
  /\ \A x \in Lanes : x # w => lane'[x] = lane[x]
SoundNext(w) ==
  Sound(lane'[w], annotations', resolved', checkpoint', failures', prohibited', lapsed')

\* The evidence of the step's own worker.
LEMMA OwnSound ==
  ASSUME ArticleInv, NEW w \in Lanes
  PROVE  /\ lane[w] \in Work /\ Job(w) \in ArticleJobs /\ Article(w) \in Articles
         /\ Job(w) = lane[w].job /\ Article(w) = lane[w].job[2] /\ Task(w) = lane[w].job[1]
         /\ Sound(lane[w], annotations, resolved, checkpoint, failures, prohibited, lapsed)
BY WorkFields DEF ArticleInv, ArticleTyped, WorkSound, Job, Article, Task

\* A step that stores nothing.
LEMMA QuietEffect ==
  ASSUME ArticleInv, NEW w \in Lanes, UNCHANGED <<stored, lapsed, queued>>,
         NEW work \in Work, lane' = [lane EXCEPT ![w] = work],
         lease' \in [ArticleJobs -> Lanes \cup {Nobody}], Leases(w),
         Sound(work, annotations, resolved, checkpoint, failures, prohibited, lapsed)
  PROVE  Effect(w) /\ SoundNext(w)
<1>1. lane' \in [Lanes -> Work] /\ lane'[w] = work /\ \A x \in Lanes : x # w => lane'[x] = lane[x]
  BY OneLane DEF ArticleInv, ArticleTyped
<1>2. ArticleTyped' BY <1>1 DEF ArticleInv, ArticleTyped, stored
<1>3. Adds(w) BY DEF Adds, stored
<1>4. SoundNext(w) BY <1>1 DEF SoundNext, stored
<1> QED BY <1>1, <1>2, <1>3, <1>4 DEF Effect

\* A worker with nothing to do is sound.
LEMMA IdleSound ==
  ASSUME NEW ann, NEW res, NEW chk, NEW fl, NEW pro, NEW lap
  PROVE  Sound(NoWork, ann, res, chk, fl, pro, lap)
BY DEF Sound, NoWork, AtImpact, AtAnnotation, AtTitle, Repairs, Counted, MarkedFirst

LEMMA LeftSound ==
  ASSUME ArticleInv, NEW w \in Lanes, UNCHANGED <<stored, lapsed, queued>>, Leave(w)
  PROVE  Effect(w) /\ SoundNext(w)
<1>1. /\ lane' = [lane EXCEPT ![w] = NoWork] /\ lane' \in [Lanes -> Work]
      /\ lease' = [lease EXCEPT ![Job(w)] = IF lease[Job(w)] = w THEN Nobody ELSE lease[Job(w)]]
      /\ lease' \in [ArticleJobs -> Lanes \cup {Nobody}]
  BY LeftLane DEF ArticleInv
<1>2. lane'[w].pc = "idle" BY <1>1 DEF ArticleInv, ArticleTyped, NoWork
<1>3. Leases(w) BY <1>1, <1>2, OwnSound DEF Leases, ArticleInv, ArticleTyped
<1> QED BY <1>1, <1>3, IdleSound, NoWorkTyped, QuietEffect

\* A job that is begun finds what its worker relies on, however many failures it has.
LEMMA BegunWork ==
  ASSUME ArticleInv, NEW w \in Lanes, NEW item \in ArticleJobs, Begin(w, item), NEW fl
  PROVE  \E work \in Work :
           /\ lane' = [lane EXCEPT ![w] = work] /\ work.job = item
           /\ Sound(work, annotations, resolved, checkpoint, fl, prohibited, lapsed)
<1> DEFINE a == item[2]
           evidence == IF item[1] = "impact" THEN checkpoint[a] ELSE NoEvidence
           work == [NoWork EXCEPT !.pc = BeginWith(item), !.job = item, !.evidence = evidence]
<1>1. a \in Articles /\ item[1] \in Tasks /\ item = <<item[1], a>> BY DEF ArticleJobs
<1>2. evidence \in Evidence BY <1>1, UnresolvedIdentity DEF ArticleInv, ArticleTyped
<1>3. work \in Work BY <1>2, NoWorkTyped DEF Work, BeginWith, Places
<1>4. /\ work.pc = BeginWith(item) /\ work.job = item /\ work.evidence = evidence
      /\ work.terminal = FALSE
  BY DEF NoWork
<1>5. lane' = [lane EXCEPT ![w] = work] /\ Outstanding(item) BY DEF Begin
<1> HIDE DEF work
<1>8. AtImpact(work, annotations, resolved)
  <2> SUFFICES ASSUME item[1] = "impact"
               PROVE  /\ work.pc \in {"retrieve", "repair"} /\ annotations[a] # {}
                      /\ WellOffered(a, checkpoint[a], annotations, resolved)
    BY <1>4 DEF AtImpact
  <2>1. work.pc \in {"retrieve", "repair"} BY <1>4 DEF BeginWith
  <2>2. annotations[a] # {} BY <1>5 DEF Outstanding
  <2>3. WellOffered(a, checkpoint[a], annotations, resolved)
    BY <1>1 DEF ArticleInv, CheckpointsOffered
  <2> QED BY <2>1, <2>2, <2>3
<1>9. AtAnnotation(work, annotations, lapsed) BY <1>4, <1>5 DEF AtAnnotation, BeginWith, Outstanding
<1>10. AtTitle(work) BY <1>4 DEF AtTitle, BeginWith
<1>11. Repairs(work, checkpoint[work.job[2]], lapsed) BY <1>4 DEF Repairs, BeginWith
<1>12. Counted(work, fl) BY <1>4 DEF Counted, BeginWith
<1>13. MarkedFirst(work, prohibited) BY <1>4 DEF MarkedFirst
<1>14. Sound(work, annotations, resolved, checkpoint, fl, prohibited, lapsed)
  BY <1>8, <1>9, <1>10, <1>11, <1>12, <1>13 DEF Sound
<1> QED BY <1>3, <1>4, <1>5, <1>14

LEMMA BegunSound ==
  ASSUME ArticleInv, NEW w \in Lanes, NEW item \in ArticleJobs,
         UNCHANGED <<stored, lapsed, queued>>, Begin(w, item),
         \/ item = Job(w) /\ lane[w].pc # "idle" /\ lease' = lease
         \/ lease[item] = Nobody /\ lease' = [lease EXCEPT ![item] = w]
  PROVE  Effect(w) /\ SoundNext(w)
<1>1. PICK work \in Work :
        /\ lane' = [lane EXCEPT ![w] = work] /\ work.job = item
        /\ Sound(work, annotations, resolved, checkpoint, failures, prohibited, lapsed)
  BY BegunWork
<1>2. lane'[w] = work BY <1>1, OneLane DEF ArticleInv, ArticleTyped
<1>3. Leases(w) /\ lease' \in [ArticleJobs -> Lanes \cup {Nobody}]
  BY <1>1, <1>2 DEF Leases, ArticleInv, ArticleTyped
<1> QED BY <1>1, <1>3, QuietEffect

LEMMA TakeStep ==
  ASSUME ArticleInv, NEW w \in Lanes, NEW item \in queued, Take(w, item), UNCHANGED queued
  PROVE  Effect(w) /\ SoundNext(w)
<1>1. item \in ArticleJobs BY DEF ArticleInv, ArticleTyped
<1> QED BY <1>1, BegunSound DEF Take

\* A worker that keeps its job and stores nothing.
LEMMA GoesOn ==
  ASSUME ArticleInv, NEW w \in Lanes, UNCHANGED <<stored, lapsed, queued, lease>>,
         lane[w].pc # "idle", NEW work \in Work, lane' = [lane EXCEPT ![w] = work],
         work.job = lane[w].job,
         Sound(work, annotations, resolved, checkpoint, failures, prohibited, lapsed)
  PROVE  Effect(w) /\ SoundNext(w)
<1>1. lane'[w] = work BY OneLane DEF ArticleInv, ArticleTyped
<1>2. Leases(w) BY <1>1 DEF Leases, Job
<1> QED BY <1>2, QuietEffect DEF ArticleInv, ArticleTyped

\* A worker that goes on to another place of the same work.
LEMMA GoesOnto ==
  ASSUME ArticleInv, NEW w \in Lanes, UNCHANGED <<stored, lapsed, queued, lease>>,
         lane[w].pc # "idle", NEW pc \in Places, Onto(w, pc),
         Sound([lane[w] EXCEPT !.pc = pc],
               annotations, resolved, checkpoint, failures, prohibited, lapsed)
  PROVE  Effect(w) /\ SoundNext(w)
<1>1. lane \in [Lanes -> Work] BY DEF ArticleInv, ArticleTyped
<1>2. /\ lane' = [lane EXCEPT ![w] = [lane[w] EXCEPT !.pc = pc]]
      /\ [lane[w] EXCEPT !.pc = pc] \in Work
  BY <1>1, OntoLane
<1>3. [lane[w] EXCEPT !.pc = pc].job = lane[w].job BY <1>1 DEF Work
<1> QED BY <1>2, <1>3, GoesOn

LEMMA OntoFields ==
  ASSUME NEW work \in Work, NEW pc \in Places, NEW next, next = [work EXCEPT !.pc = pc]
  PROVE  /\ next \in Work /\ next.pc = pc /\ next.job = work.job /\ next.model = work.model
         /\ next.evidence = work.evidence /\ next.answer = work.answer
         /\ next.attempt = work.attempt /\ next.terminal = work.terminal
BY DEF Work

LEMMA RetrieveStep ==
  ASSUME ArticleInv, NEW w \in Lanes, Retrieve(w), UNCHANGED queued
  PROVE  Effect(w) /\ SoundNext(w)
<1> DEFINE a == Article(w)
           e == [context |-> Context(a), output |-> Nobody]
           work == [lane[w] EXCEPT !.pc = "ask", !.evidence = e]
<1>1. /\ Task(w) = "impact" /\ lane[w].pc = "retrieve" /\ UNCHANGED <<stored, lapsed, mishaps>>
  BY DEF Retrieve, Busy
<1>2. CASE Article(w) \in prohibited BY <1>1, <1>2, LeftSound DEF Retrieve
<1>3. CASE Article(w) \notin prohibited
  <2>1. lane' = [lane EXCEPT ![w] = work] /\ UNCHANGED lease BY <1>3 DEF Retrieve
  <2>2. \A c \in Articles : resolved[c].episode \in Nat /\ resolved[c].event \in Nat
    BY DEF ArticleInv, ArticleTyped, Identities
  <2>3. Context(a) \subseteq Offers BY <2>2 DEF Context, Offers
  <2>4. e \in Evidence BY <2>3 DEF Evidence
  <2>5. work \in Work BY <2>4, OwnSound DEF Work, Places
  <2>6. /\ work.pc = "ask" /\ work.evidence = e /\ work.job = lane[w].job
        /\ work.attempt = lane[w].attempt /\ work.terminal = lane[w].terminal
    BY OwnSound DEF Work
  <2>7. WellOffered(a, e, annotations, resolved)
    BY UnresolvedIdentity DEF WellOffered, Context
  <2> HIDE DEF work, e
  <2>8. AtImpact(work, annotations, resolved) BY <1>1, <2>6, <2>7, OwnSound DEF AtImpact, Sound
  <2>9. AtAnnotation(work, annotations, lapsed) BY <1>1, <2>6, OwnSound DEF AtAnnotation
  <2>10. AtTitle(work) BY <1>1, <2>6, OwnSound DEF AtTitle
  <2>11. Repairs(work, checkpoint[work.job[2]], lapsed)
    BY <1>1, <2>6, OwnSound DEF Repairs, Sound
  <2>12. Counted(work, failures) BY <2>6 DEF Counted
  <2>13. MarkedFirst(work, prohibited) BY <1>1, <2>6, OwnSound DEF MarkedFirst, Sound
  <2>14. Sound(work, annotations, resolved, checkpoint, failures, prohibited, lapsed)
    BY <2>8, <2>9, <2>10, <2>11, <2>12, <2>13 DEF Sound
  <2> QED BY <1>1, <2>1, <2>5, <2>6, <2>14, GoesOn
<1> QED BY <1>2, <1>3

LEMMA DeferStep ==
  ASSUME ArticleInv, NEW w \in Lanes, Defer(w), UNCHANGED queued
  PROVE  Effect(w) /\ SoundNext(w)
<1>1. lane[w].pc # "idle" /\ UNCHANGED <<stored, lapsed>> BY DEF Defer, Asking
<1>2. CASE Leave(w) BY <1>1, <1>2, LeftSound
<1>3. CASE Begin(w, Job(w)) /\ UNCHANGED lease BY <1>1, <1>3, OwnSound, BegunSound
<1>4. CASE /\ Task(w) = "annotation" /\ lane[w].model = DEFAULT
           /\ lane' = [lane EXCEPT ![w] = [@ EXCEPT !.pc = "ask", !.model = FALLBACK]]
           /\ UNCHANGED lease
  <2> DEFINE work == [lane[w] EXCEPT !.pc = "ask", !.model = FALLBACK]
  <2>1. lane[w].pc \in {"retrieve", "ask", "anchors", "review", "repair"} BY DEF Defer, Asking
  <2>2. work \in Work BY OwnSound DEF Work, Places, Models
  <2>3. work.pc = "ask" /\ work.job = lane[w].job /\ work.terminal = lane[w].terminal
    BY OwnSound DEF Work
  <2>4. lane' = [lane EXCEPT ![w] = work] BY <1>4
  <2> HIDE DEF work
  <2>5. Sound(work, annotations, resolved, checkpoint, failures, prohibited, lapsed)
    BY <1>4, <2>1, <2>3, OwnSound
    DEF Sound, AtImpact, AtAnnotation, AtTitle, Repairs, Counted, MarkedFirst
  <2> QED BY <1>1, <1>4, <2>2, <2>3, <2>4, <2>5, GoesOn
<1> QED BY <1>2, <1>3, <1>4 DEF Defer, LeaveOrAgain

LEMMA FailStep ==
  ASSUME ArticleInv, NEW w \in Lanes, Fail(w), UNCHANGED queued
  PROVE  Effect(w) /\ SoundNext(w)
<1> DEFINE work == [lane[w] EXCEPT !.pc = "count"]
<1>1. /\ lane[w].pc \in Asking /\ Onto(w, "count") /\ UNCHANGED <<stored, lease, lapsed>>
      /\ "count" \in Places
  BY DEF Fail, Places
<1>2. /\ work.pc = "count" /\ work.job = lane[w].job /\ work.terminal = lane[w].terminal
      /\ work.evidence = lane[w].evidence
  BY OwnSound DEF Work
<1> HIDE DEF work
<1>3. Sound(work, annotations, resolved, checkpoint, failures, prohibited, lapsed)
  BY <1>1, <1>2, OwnSound
  DEF Asking, Sound, AtImpact, AtAnnotation, AtTitle, Repairs, Counted, MarkedFirst
<1> QED BY <1>1, <1>3, GoesOnto DEF work, Asking

LEMMA RefuseStep ==
  ASSUME ArticleInv, NEW w \in Lanes, Refuse(w), UNCHANGED queued
  PROVE  Effect(w) /\ SoundNext(w)
<1> DEFINE pc == IF Task(w) = "impact" THEN "mark" ELSE "count"
           work == [lane[w] EXCEPT !.terminal = TRUE, !.pc = pc]
<1>1. /\ lane[w].pc \in Asking /\ UNCHANGED <<stored, lease, lapsed>>
      /\ lane' = [lane EXCEPT ![w] = work]
  BY DEF Refuse
<1>2. /\ work \in Work /\ work.pc = pc /\ work.job = lane[w].job
      /\ work.evidence = lane[w].evidence
  BY OwnSound DEF Work, Places
<1>3. (pc = "mark" /\ Task(w) = "impact") \/ (pc = "count" /\ Task(w) # "impact") OBVIOUS
<1> HIDE DEF work, pc
<1>4. Sound(work, annotations, resolved, checkpoint, failures, prohibited, lapsed)
  BY <1>1, <1>2, <1>3, OwnSound
  DEF Asking, Sound, AtImpact, AtAnnotation, AtTitle, Repairs, Counted, MarkedFirst
<1> QED BY <1>1, <1>2, <1>4, GoesOn DEF Asking

LEMMA AskedAnnotationStep ==
  ASSUME ArticleInv, NEW w \in Lanes, AskedAnnotation(w), UNCHANGED queued
  PROVE  Effect(w) /\ SoundNext(w)
<1>1. PICK pc \in {"anchors", "review", "store"} :
        /\ Onto(w, pc) /\ lane[w].pc \in {"ask", "anchors", "review"}
        /\ Task(w) = "annotation" /\ UNCHANGED <<stored, lease, lapsed>>
  BY DEF AskedAnnotation
<1> DEFINE work == [lane[w] EXCEPT !.pc = pc]
<1>2. pc \in Places BY DEF Places
<1>3. work.pc = pc /\ work.job = lane[w].job /\ work.terminal = lane[w].terminal
  BY <1>2, OwnSound, OntoFields
<1> HIDE DEF work
<1>4. Sound(work, annotations, resolved, checkpoint, failures, prohibited, lapsed)
  BY <1>1, <1>3, OwnSound
  DEF Sound, AtImpact, AtAnnotation, AtTitle, Repairs, Counted, MarkedFirst
<1> QED BY <1>1, <1>2, <1>4, GoesOnto DEF work

LEMMA AskedTitleStep ==
  ASSUME ArticleInv, NEW w \in Lanes, AskedTitle(w), UNCHANGED queued
  PROVE  Effect(w) /\ SoundNext(w)
<1> DEFINE work == [lane[w] EXCEPT !.pc = "store"]
<1>1. /\ Onto(w, "store") /\ lane[w].pc = "ask" /\ Task(w) = "title"
      /\ UNCHANGED <<stored, lease, lapsed>> /\ "store" \in Places
  BY DEF AskedTitle, Busy, Places
<1>2. work.pc = "store" /\ work.job = lane[w].job /\ work.terminal = lane[w].terminal
  BY <1>1, OwnSound, OntoFields
<1> HIDE DEF work
<1>3. Sound(work, annotations, resolved, checkpoint, failures, prohibited, lapsed)
  BY <1>1, <1>2, OwnSound
  DEF Sound, AtImpact, AtAnnotation, AtTitle, Repairs, Counted, MarkedFirst
<1> QED BY <1>1, <1>3, GoesOnto DEF work

LEMMA AnswerImpactStep ==
  ASSUME ArticleInv, NEW w \in Lanes, AnswerImpact(w), UNCHANGED queued
  PROVE  Effect(w) /\ SoundNext(w)
<1>1. PICK choice \in Judgements(w) : Accepted(w, choice) BY DEF AnswerImpact
<1> DEFINE answer == [Unresolved EXCEPT !.relation = choice.relation, !.matched = choice.matched]
           work == [lane[w] EXCEPT !.pc = "resolve", !.answer = answer]
<1>2. /\ Task(w) = "impact" /\ lane[w].pc \in {"ask", "repair"}
      /\ lane' = [lane EXCEPT ![w] = work] /\ UNCHANGED <<stored, lease, lapsed>>
  BY <1>1 DEF AnswerImpact, Busy, Accepted
<1>3. /\ choice.relation \in Relations /\ choice.matched \in Nat
      /\ IF choice.relation \in Matches
         THEN \E o \in lane[w].evidence.context : choice.matched = o.of
         ELSE choice.matched = 0
  <2>1. \A o \in lane[w].evidence.context : o.of \in Nat
    BY OwnSound, WorkFields, EvidenceFields, Constants
  <2> QED BY <2>1 DEF Judgements, Relations, Matches
<1>4. /\ answer \in Identities /\ answer.relation = choice.relation
      /\ answer.matched = choice.matched
  BY <1>3, UnresolvedIdentity DEF Identities, Unresolved
<1> HIDE DEF answer
<1>5. /\ work \in Work /\ work.pc = "resolve" /\ work.answer = answer /\ work.job = lane[w].job
      /\ work.evidence = lane[w].evidence /\ work.terminal = lane[w].terminal
  BY <1>4, OwnSound DEF Work, Places
<1> HIDE DEF work
<1>6. Matched(work) BY <1>3, <1>4, <1>5 DEF Matched
<1>7. AtImpact(work, annotations, resolved) BY <1>2, <1>5, <1>6, OwnSound DEF AtImpact, Sound
<1>8. Repairs(work, checkpoint[work.job[2]], lapsed)
  BY <1>2, <1>5, OwnSound DEF Repairs, Sound
<1>9. Sound(work, annotations, resolved, checkpoint, failures, prohibited, lapsed)
  BY <1>2, <1>5, <1>7, <1>8, OwnSound DEF Sound, AtAnnotation, AtTitle, Counted, MarkedFirst
<1> QED BY <1>2, <1>5, <1>9, GoesOn

LEMMA RejectImpactStep ==
  ASSUME ArticleInv, NEW w \in Lanes, NEW output \in Outputs, RejectImpact(w, output),
         UNCHANGED queued
  PROVE  Effect(w) /\ SoundNext(w)
<1> DEFINE e == [lane[w].evidence EXCEPT !.output = output]
           work == [lane[w] EXCEPT !.pc = "checkpoint", !.evidence.output = output]
<1>1. /\ Task(w) = "impact" /\ lane[w].pc = "ask" /\ lane' = [lane EXCEPT ![w] = work]
      /\ UNCHANGED <<stored, lease, lapsed>>
  BY DEF RejectImpact, Busy
<1>2. /\ e \in Evidence /\ e.output = output /\ e.context = lane[w].evidence.context
  BY OwnSound, WorkFields DEF Evidence
<1>3. work = [lane[w] EXCEPT !.pc = "checkpoint", !.evidence = e]
  BY OwnSound, WorkFields DEF Work
<1> HIDE DEF e
<1>4. /\ work \in Work /\ work.pc = "checkpoint" /\ work.evidence = e /\ work.job = lane[w].job
      /\ work.terminal = lane[w].terminal
  BY <1>2, <1>3, OwnSound DEF Work, Places
<1> HIDE DEF work
<1>5. WellOffered(Article(w), e, annotations, resolved)
  BY <1>1, <1>2, OwnSound DEF AtImpact, Sound, WellOffered
<1>6. AtImpact(work, annotations, resolved)
  BY <1>1, <1>2, <1>4, <1>5, OwnSound DEF AtImpact, Sound
<1>7. Repairs(work, checkpoint[work.job[2]], lapsed)
  BY <1>1, <1>4, OwnSound DEF Repairs, Sound
<1>8. Sound(work, annotations, resolved, checkpoint, failures, prohibited, lapsed)
  BY <1>1, <1>4, <1>6, <1>7, OwnSound DEF Sound, AtAnnotation, AtTitle, Counted, MarkedFirst
<1> QED BY <1>1, <1>4, <1>8, GoesOn

\* The identity an answer gets.
LEMMA IdentityIsGrounded ==
  ASSUME ArticleInv, NEW w \in Lanes, Task(w) = "impact", lane[w].pc = "resolve"
  PROVE  Identity(w) \in Identities /\ Grounded(Article(w), Identity(w), annotations, resolved)
<1> DEFINE a == Article(w)
           r == lane[w].answer
<1>1. /\ a \in Articles /\ a \in Nat /\ r \in Identities /\ Matched(lane[w])
      /\ WellOffered(a, lane[w].evidence, annotations, resolved)
      /\ lane[w].evidence \in Evidence
  BY OwnSound, WorkFields, Constants DEF AtImpact, Sound
<1>2. CASE r.relation \notin Matches
  <2>1. r.matched = 0 BY <1>1, <1>2 DEF Matched
  <2>2. Identity(w) = [r EXCEPT !.episode = a, !.event = a] BY <2>1 DEF Identity
  <2>3. /\ Identity(w) \in Identities /\ Identity(w).relation = r.relation
        /\ Identity(w).matched = 0 /\ Identity(w).episode = a /\ Identity(w).event = a
    BY <1>1, <2>1, <2>2 DEF Identities
  <2> QED BY <1>2, <2>3 DEF Grounded
<1>3. CASE r.relation \in Matches
  <2> DEFINE c == r.matched
             o == OfferTo(w, c)
             known == <<resolved[c].episode, resolved[c].event>>
             id == IF resolved[c] # Unresolved THEN known ELSE <<c, c>>
             event == IF r.relation = "SAME_EVENT" THEN EventOf(w, c) ELSE a
  <2>1. \E x \in lane[w].evidence.context : x.of = c BY <1>1, <1>3 DEF Matched
  <2>2. o \in lane[w].evidence.context /\ o.of = c BY <2>1 DEF OfferTo
  <2>3. /\ c \in Articles /\ c \in Nat /\ c # 0 /\ c < a /\ annotations[c] # {}
        /\ resolved[c] = Unresolved => o.episode = 0 /\ o.event = 0
    BY <1>1, <2>2, EvidenceFields, Constants DEF WellOffered
  <2>4. EpisodeOf(w, c) = id[1] /\ EventOf(w, c) = id[2]
    BY <2>3 DEF EpisodeOf, EventOf, OwnUnless
  <2>5. id[1] \in Nat /\ id[2] \in Nat BY <2>3 DEF ArticleInv, ArticleTyped, Identities
  <2>6. Identity(w) = [r EXCEPT !.episode = EpisodeOf(w, c), !.event = event]
    BY <2>3 DEF Identity
  <2>7. event = IF r.relation = "SAME_EVENT" THEN id[2] ELSE a BY <2>4
  <2>8. event \in Nat BY <1>1, <2>5, <2>7
  <2> HIDE DEF event
  <2>9. /\ Identity(w) \in Identities /\ Identity(w).relation = r.relation
        /\ Identity(w).matched = c /\ Identity(w).episode = id[1] /\ Identity(w).event = event
    BY <1>1, <2>4, <2>5, <2>6, <2>8 DEF Identities
  <2>10. id \in {<<c, c>>} \cup {known} /\ (id = known => resolved[c] # Unresolved)
    <3>1. CASE resolved[c] # Unresolved BY <3>1
    <3>2. CASE resolved[c] = Unresolved
      <4>1. known = <<0, 0>> /\ id = <<c, c>> BY <3>2, UnresolvedIdentity
      <4>2. <<c, c>> # <<0, 0>> BY <2>3
      <4> QED BY <4>1, <4>2
    <3> QED BY <3>1, <3>2
  <2> QED BY <1>3, <2>3, <2>7, <2>9, <2>10 DEF Grounded
<1> QED BY <1>2, <1>3

-----------------------------------------------------------------------------
(* The steps that store.                                                   *)

LEMMA StoringEffect ==
  ASSUME ArticleInv, NEW w \in Lanes, UNCHANGED <<lapsed, queued>>,
         annotations' \in [Articles -> SUBSET Models],
         titled' \in [Articles -> SUBSET (Models \cup {"title"})],
         checkpoint' \in [Articles -> Evidence], resolved' \in [Articles -> Identities],
         IsFiniteSet(failures'), NEW work \in Work, lane' = [lane EXCEPT ![w] = work],
         lease' \in [ArticleJobs -> Lanes \cup {Nobody}], Leases(w), Adds(w),
         Sound(work, annotations', resolved', checkpoint', failures', prohibited', lapsed')
  PROVE  Effect(w) /\ SoundNext(w)
<1>1. lane' \in [Lanes -> Work] /\ lane'[w] = work /\ \A x \in Lanes : x # w => lane'[x] = lane[x]
  BY OneLane DEF ArticleInv, ArticleTyped
<1>2. ArticleTyped' BY <1>1 DEF ArticleInv, ArticleTyped
<1>3. SoundNext(w) BY <1>1 DEF SoundNext
<1> QED BY <1>1, <1>2, <1>3 DEF Effect

LEMMA TypedNow ==
  ASSUME ArticleInv
  PROVE  /\ annotations \in [Articles -> SUBSET Models]
         /\ titled \in [Articles -> SUBSET (Models \cup {"title"})]
         /\ checkpoint \in [Articles -> Evidence] /\ resolved \in [Articles -> Identities]
         /\ IsFiniteSet(failures) /\ lease \in [ArticleJobs -> Lanes \cup {Nobody}]
         /\ lane \in [Lanes -> Work]
BY DEF ArticleInv, ArticleTyped

\* A worker that leaves, and one that stays.
LEMMA LeavesOwn ==
  ASSUME ArticleInv, NEW w \in Lanes, Leave(w)
  PROVE  /\ lane' = [lane EXCEPT ![w] = NoWork]
         /\ lease' \in [ArticleJobs -> Lanes \cup {Nobody}] /\ Leases(w)
<1>1. /\ lane' = [lane EXCEPT ![w] = NoWork]
      /\ lease' = [lease EXCEPT ![Job(w)] = IF lease[Job(w)] = w THEN Nobody ELSE lease[Job(w)]]
      /\ lease' \in [ArticleJobs -> Lanes \cup {Nobody}]
  BY LeftLane DEF ArticleInv
<1>2. lane'[w].pc = "idle" BY <1>1, TypedNow DEF NoWork
<1>3. Leases(w) BY <1>1, <1>2, OwnSound, TypedNow DEF Leases
<1> QED BY <1>1, <1>3

LEMMA KeepsLease ==
  ASSUME ArticleInv, NEW w \in Lanes, UNCHANGED lease, NEW work, lane' = [lane EXCEPT ![w] = work],
         work.pc = "idle" \/ (work.job = lane[w].job /\ lane[w].pc # "idle")
  PROVE  lease' \in [ArticleJobs -> Lanes \cup {Nobody}] /\ Leases(w)
<1>1. lane'[w] = work BY TypedNow, OneLane
<1> QED BY <1>1, TypedNow DEF Leases, Job

LEMMA MarkStep ==
  ASSUME ArticleInv, NEW w \in Lanes, Mark(w), UNCHANGED queued
  PROVE  Effect(w) /\ SoundNext(w)
<1> DEFINE pc == IF Task(w) = "impact" THEN "count" ELSE "log"
           work == [lane[w] EXCEPT !.pc = pc]
<1>1. /\ lane[w].pc = "mark" /\ prohibited' = prohibited \cup {Article(w)} /\ Onto(w, pc)
      /\ UNCHANGED <<annotations, titled, checkpoint, resolved, failures, lease, lapsed>>
      /\ pc \in Places
  BY DEF Mark, Places
<1>2. (pc = "count" /\ Task(w) = "impact") \/ (pc = "log" /\ Task(w) # "impact") OBVIOUS
<1> HIDE DEF pc
<1>3. /\ work \in Work /\ work.pc = pc /\ work.job = lane[w].job /\ work.model = lane[w].model
      /\ work.attempt = lane[w].attempt /\ work.terminal = lane[w].terminal
      /\ work.evidence = lane[w].evidence
  BY <1>1, OwnSound, OntoFields
<1>4. lane' = [lane EXCEPT ![w] = work] BY <1>1 DEF Onto
<1> HIDE DEF work
<1>5. Leases(w) BY <1>1, <1>3, <1>4, KeepsLease
<1>6. Adds(w) BY <1>1 DEF Adds
<1>7. Counted(work, failures)
  BY <1>1, <1>2, <1>3, OwnSound DEF Sound, Counted
<1>8. Sound(work, annotations, resolved, checkpoint, failures, prohibited', lapsed)
  BY <1>1, <1>2, <1>3, <1>7, OwnSound
  DEF Sound, AtImpact, AtAnnotation, AtTitle, Repairs, MarkedFirst
<1> QED BY <1>1, <1>3, <1>4, <1>5, <1>6, <1>8, StoringEffect, TypedNow

LEMMA SaveCheckpointStep ==
  ASSUME ArticleInv, NEW w \in Lanes, SaveCheckpoint(w), UNCHANGED queued
  PROVE  Effect(w) /\ SoundNext(w)
<1> DEFINE a == Article(w)
           kept == IF checkpoint[a] = NoEvidence THEN lane[w].evidence ELSE checkpoint[a]
           work == [lane[w] EXCEPT !.pc = "repair"]
<1>1. /\ Task(w) = "impact" /\ lane[w].pc = "checkpoint"
      /\ checkpoint' = [checkpoint EXCEPT ![a] = kept] /\ Onto(w, "repair")
      /\ UNCHANGED <<annotations, titled, resolved, failures, prohibited, lease, lapsed>>
      /\ "repair" \in Places
  BY DEF SaveCheckpoint, Busy, Places
<1>2. a \in Articles /\ lane[w].evidence \in Evidence /\ Job(w) = <<"impact", a>>
      /\ lane[w].evidence.output \in Outputs
  BY <1>1, OwnSound, WorkFields DEF Sound, AtImpact
<1>3. kept \in Evidence BY <1>2, TypedNow
<1>4. lane[w].evidence # NoEvidence BY <1>2, UnresolvedIdentity, Constants
<1>5. checkpoint' \in [Articles -> Evidence] /\ checkpoint'[a] = kept BY <1>1, <1>2, <1>3, TypedNow
<1>6. /\ work \in Work /\ work.pc = "repair" /\ work.job = lane[w].job
      /\ work.terminal = lane[w].terminal /\ work.evidence = lane[w].evidence
  BY <1>1, OwnSound, OntoFields
<1>7. lane' = [lane EXCEPT ![w] = work] BY <1>1 DEF Onto
<1> HIDE DEF work
<1>8. Leases(w) BY <1>1, <1>6, <1>7, KeepsLease
<1>9. \A c \in Articles : checkpoint'[c] = checkpoint[c] \/ KeepsAnswer(w, c)
  BY <1>1, <1>2, <1>5, TypedNow DEF KeepsAnswer
<1>10. Adds(w) BY <1>1, <1>9 DEF Adds
<1>11. Repairs(work, checkpoint'[a], lapsed)
  BY <1>1, <1>2, <1>4, <1>5, <1>6, OwnSound DEF Repairs, Sound
<1>12. AtImpact(work, annotations, resolved) BY <1>1, <1>6, OwnSound DEF AtImpact, Sound
<1>13. Sound(work, annotations, resolved, checkpoint', failures, prohibited, lapsed)
  BY <1>1, <1>6, <1>11, <1>12, OwnSound DEF Sound, AtAnnotation, AtTitle, Counted, MarkedFirst
<1> HIDE DEF kept
<1> QED BY <1>1, <1>5, <1>6, <1>7, <1>8, <1>10, <1>13, StoringEffect, TypedNow

LEMMA ResolveStep ==
  ASSUME ArticleInv, NEW w \in Lanes, Resolve(w), UNCHANGED queued
  PROVE  Effect(w) /\ SoundNext(w)
<1> DEFINE work == [lane[w] EXCEPT !.pc = "store", !.answer = Identity(w)]
<1>1. /\ Task(w) = "impact" /\ lane[w].pc = "resolve" /\ lane' = [lane EXCEPT ![w] = work]
      /\ UNCHANGED <<stored, lease, lapsed>>
  BY DEF Resolve, Busy
<1>2. /\ Identity(w) \in Identities
      /\ Grounded(Article(w), Identity(w), annotations, resolved)
  BY <1>1, IdentityIsGrounded
<1>3. /\ work \in Work /\ work.pc = "store" /\ work.answer = Identity(w)
      /\ work.job = lane[w].job /\ work.evidence = lane[w].evidence
      /\ work.terminal = lane[w].terminal
  BY <1>2, OwnSound DEF Work, Places
<1> HIDE DEF work
<1>4. AtImpact(work, annotations, resolved) BY <1>1, <1>2, <1>3, OwnSound DEF AtImpact, Sound
<1>5. Repairs(work, checkpoint[work.job[2]], lapsed)
  BY <1>1, <1>3, OwnSound DEF Repairs, Sound
<1>6. Sound(work, annotations, resolved, checkpoint, failures, prohibited, lapsed)
  BY <1>1, <1>3, <1>4, <1>5, OwnSound DEF Sound, AtAnnotation, AtTitle, Counted, MarkedFirst
<1> QED BY <1>1, <1>3, <1>6, GoesOn

LEMMA StoreImpactStep ==
  ASSUME ArticleInv, NEW w \in Lanes, StoreImpact(w), UNCHANGED queued
  PROVE  Effect(w) /\ SoundNext(w)
<1> DEFINE a == Article(w)
           work == [lane[w] EXCEPT !.pc = "count"]
<1>1. /\ Task(w) = "impact" /\ lane[w].pc = "store" /\ "count" \in Places
      /\ UNCHANGED <<annotations, titled, checkpoint, failures, prohibited, lapsed>>
  BY DEF StoreImpact, Busy, Places
<1>2. CASE resolved[a] = Unresolved
  <2>1. resolved' = [resolved EXCEPT ![a] = lane[w].answer] /\ Leave(w) BY <1>2 DEF StoreImpact
  <2>2. a \in Articles /\ lane[w].answer \in Identities /\ Job(w) = <<"impact", a>>
    BY <1>1, OwnSound, WorkFields
  <2>3. resolved' \in [Articles -> Identities] BY <2>1, <2>2, TypedNow
  <2>4. \A c \in Articles : resolved'[c] = resolved[c] \/ Identifies(w, c)
    BY <1>1, <1>2, <2>1, <2>2, TypedNow DEF Identifies
  <2>5. Adds(w) BY <1>1, <2>4 DEF Adds
  <2> QED BY <1>1, <2>1, <2>3, <2>5, LeavesOwn, IdleSound, NoWorkTyped, StoringEffect, TypedNow
<1>3. CASE resolved[a] # Unresolved
  <2>1. Onto(w, "count") /\ UNCHANGED <<resolved, lease>> BY <1>3 DEF StoreImpact
  <2>2. /\ work.pc = "count" /\ work.job = lane[w].job /\ work.terminal = lane[w].terminal
        /\ work.evidence = lane[w].evidence
    BY <1>1, OwnSound, OntoFields
  <2> HIDE DEF work
  <2>3. Sound(work, annotations, resolved, checkpoint, failures, prohibited, lapsed)
    BY <1>1, <2>2, OwnSound
    DEF Sound, AtImpact, AtAnnotation, AtTitle, Repairs, Counted, MarkedFirst
  <2> QED BY <1>1, <2>1, <2>3, GoesOnto DEF work, stored
<1> QED BY <1>2, <1>3

LEMMA StoreAnnotationStep ==
  ASSUME ArticleInv, NEW w \in Lanes, StoreAnnotation(w), UNCHANGED queued
  PROVE  Effect(w) /\ SoundNext(w)
<1> DEFINE a == Article(w)
           model == lane[w].model
           work == [lane[w] EXCEPT !.pc = "title"]
<1>1. /\ Task(w) = "annotation" /\ lane[w].pc = "store" /\ "title" \in Places
      /\ UNCHANGED <<titled, checkpoint, resolved, failures, prohibited, lapsed>>
  BY DEF StoreAnnotation, Busy, Places
<1>2. CASE model \in annotations[a]
  <2>1. lane' = [lane EXCEPT ![w] = NoWork] /\ UNCHANGED <<annotations, lease>>
    BY <1>2 DEF StoreAnnotation, Die
  <2>2. Leases(w) /\ lease' \in [ArticleJobs -> Lanes \cup {Nobody}]
    BY <2>1, KeepsLease DEF NoWork
  <2> QED BY <1>1, <2>1, <2>2, IdleSound, NoWorkTyped, QuietEffect DEF stored
<1>3. CASE model \notin annotations[a]
  <2>1. /\ annotations' = [annotations EXCEPT ![a] = annotations[a] \cup {model}]
        /\ Onto(w, "title") /\ UNCHANGED lease
    BY <1>3 DEF StoreAnnotation
  <2>2. a \in Articles /\ model \in Models /\ Job(w) = <<"annotation", a>>
    BY <1>1, OwnSound, WorkFields
  <2>3. annotations' \in [Articles -> SUBSET Models] /\ model \in annotations'[a]
    BY <2>1, <2>2, TypedNow
  <2>4. \A c \in Articles : annotations'[c] = annotations[c] \/ AddsAnnotation(w, c)
    BY <1>1, <1>3, <2>1, <2>2, TypedNow DEF AddsAnnotation
  <2>5. Adds(w) BY <1>1, <2>4 DEF Adds
  <2>6. /\ work \in Work /\ work.pc = "title" /\ work.job = lane[w].job
        /\ work.model = model /\ work.terminal = lane[w].terminal
    BY <1>1, OwnSound, OntoFields
  <2>7. lane' = [lane EXCEPT ![w] = work] BY <2>1 DEF Onto
  <2> HIDE DEF work
  <2>8. Leases(w) BY <1>1, <2>1, <2>6, <2>7, KeepsLease
  <2>9. AtAnnotation(work, annotations', lapsed) BY <2>2, <2>3, <2>6, OwnSound DEF AtAnnotation
  <2>10. Sound(work, annotations', resolved, checkpoint, failures, prohibited, lapsed)
    BY <1>1, <2>6, <2>9, OwnSound DEF Sound, AtImpact, AtTitle, Repairs, Counted, MarkedFirst
  <2> QED BY <1>1, <2>1, <2>3, <2>5, <2>6, <2>7, <2>8, <2>10, StoringEffect, TypedNow
<1> QED BY <1>2, <1>3

LEMMA StoreItsTitleStep ==
  ASSUME ArticleInv, NEW w \in Lanes, StoreItsTitle(w), UNCHANGED queued
  PROVE  Effect(w) /\ SoundNext(w)
<1> DEFINE a == Article(w)
<1>1. /\ Task(w) = "annotation" /\ lane[w].pc = "title" /\ Leave(w)
      /\ titled' = [titled EXCEPT ![a] = titled[a] \cup {lane[w].model}]
      /\ UNCHANGED <<annotations, checkpoint, resolved, failures, prohibited, lapsed>>
  BY DEF StoreItsTitle, Busy
<1>2. a \in Articles /\ lane[w].model \in Models /\ Job(w) = <<"annotation", a>>
  BY <1>1, OwnSound, WorkFields
<1>3. titled' \in [Articles -> SUBSET (Models \cup {"title"})] BY <1>1, <1>2, TypedNow
<1>4. \A c \in Articles : titled'[c] = titled[c] \/ AddsTitle(w, c)
  BY <1>1, <1>2, TypedNow DEF AddsTitle
<1>5. Adds(w) BY <1>1, <1>4 DEF Adds
<1> QED BY <1>1, <1>3, <1>5, LeavesOwn, IdleSound, NoWorkTyped, StoringEffect, TypedNow

LEMMA StoreTitleStep ==
  ASSUME ArticleInv, NEW w \in Lanes, StoreTitle(w), UNCHANGED queued
  PROVE  Effect(w) /\ SoundNext(w)
<1> DEFINE a == Article(w)
           work == [lane[w] EXCEPT !.pc = "count"]
<1>1. /\ Task(w) = "title" /\ lane[w].pc = "store" /\ "count" \in Places
      /\ UNCHANGED <<annotations, checkpoint, resolved, failures, prohibited, lapsed>>
  BY DEF StoreTitle, Busy, Places
<1>2. CASE "title" \in titled[a]
  <2>1. Onto(w, "count") /\ UNCHANGED <<titled, lease>> BY <1>2 DEF StoreTitle
  <2>2. work.pc = "count" /\ work.job = lane[w].job /\ work.terminal = lane[w].terminal
    BY <1>1, OwnSound, OntoFields
  <2> HIDE DEF work
  <2>3. Sound(work, annotations, resolved, checkpoint, failures, prohibited, lapsed)
    BY <1>1, <2>2, OwnSound
    DEF Sound, AtImpact, AtAnnotation, AtTitle, Repairs, Counted, MarkedFirst
  <2> QED BY <1>1, <2>1, <2>3, GoesOnto DEF work, stored
<1>3. CASE "title" \notin titled[a]
  <2>1. titled' = [titled EXCEPT ![a] = titled[a] \cup {"title"}] /\ Leave(w)
    BY <1>3 DEF StoreTitle
  <2>2. titled' \in [Articles -> SUBSET (Models \cup {"title"})] BY <2>1, OwnSound, TypedNow
  <2>3. \A c \in Articles : titled'[c] = titled[c] \/ AddsTitle(w, c)
    BY <2>1, TypedNow DEF AddsTitle
  <2>4. Adds(w) BY <1>1, <2>3 DEF Adds
  <2> QED BY <1>1, <2>1, <2>2, <2>4, LeavesOwn, IdleSound, NoWorkTyped, StoringEffect, TypedNow
<1> QED BY <1>2, <1>3

\* The failures of a job by a model are as many as the last attempt says.
LEMMA AttemptsAreCounted ==
  ASSUME ArticleInv, NEW item \in ArticleJobs, NEW model \in Models
  PROVE  /\ Attempts(item, model) = 1..Cardinality(Mine(item, model, failures))
         /\ Cardinality(Mine(item, model, failures)) \in Nat
         /\ Cardinality(Attempts(item, model)) = Cardinality(Mine(item, model, failures))
<1> DEFINE mine == Mine(item, model, failures)
<1>1. Attempts(item, model) = 1..Cardinality(mine)
  BY DEF ArticleInv, FailuresNumbered, Models, Attempts, Mine
<1>2. IsFiniteSet(mine) BY TypedNow, FS_Subset DEF Mine
<1>3. Cardinality(mine) \in Nat BY <1>2, FS_CardinalityType
<1> HIDE DEF mine
<1>4. Cardinality(1..Cardinality(mine)) = Cardinality(mine) BY <1>3, FS_Interval
<1> QED BY <1>1, <1>3, <1>4 DEF mine

LEMMA CountFailuresStep ==
  ASSUME ArticleInv, NEW w \in Lanes, CountFailures(w), UNCHANGED queued
  PROVE  Effect(w) /\ SoundNext(w)
<1> DEFINE pc == IF lane[w].terminal /\ Task(w) # "impact" THEN "mark" ELSE "log"
           n == Cardinality(Mine(Job(w), lane[w].model, failures))
           attempt == Cardinality(Attempts(Job(w), lane[w].model)) + 1
           work == [lane[w] EXCEPT !.pc = pc, !.attempt = attempt]
<1>1. /\ lane[w].pc = "count" /\ lane' = [lane EXCEPT ![w] = work]
      /\ UNCHANGED <<stored, lease, lapsed>>
  BY DEF CountFailures
<1>2. n \in Nat /\ attempt = n + 1 BY OwnSound, WorkFields, AttemptsAreCounted
<1>3. attempt \in Nat /\ attempt \in 1..(n + 1) BY <1>2
<1> HIDE DEF attempt
<1>4. /\ work \in Work /\ work.pc = pc /\ work.job = lane[w].job /\ work.model = lane[w].model
      /\ work.attempt = attempt /\ work.terminal = lane[w].terminal
      /\ work.evidence = lane[w].evidence
  BY <1>3, OwnSound DEF Work, Places
<1> HIDE DEF work
<1>5. Counted(work, failures) BY <1>3, <1>4, OwnSound DEF Counted
<1> HIDE DEF n
<1>6. pc \in {"mark", "log"} /\ (pc = "log" <=> ~(lane[w].terminal /\ Task(w) # "impact"))
  OBVIOUS
<1> HIDE DEF pc
<1>7. MarkedFirst(work, prohibited)
  BY <1>1, <1>4, <1>6, OwnSound DEF MarkedFirst, Sound
<1>8. Sound(work, annotations, resolved, checkpoint, failures, prohibited, lapsed)
  BY <1>1, <1>4, <1>5, <1>6, <1>7, OwnSound DEF Sound, AtImpact, AtAnnotation, AtTitle, Repairs
<1> QED BY <1>1, <1>4, <1>8, GoesOn

LEMMA LogFailureStep ==
  ASSUME ArticleInv, NEW w \in Lanes, LogFailure(w), UNCHANGED queued
  PROVE  Effect(w) /\ SoundNext(w)
<1>1. /\ lane[w].pc = "log"
      /\ UNCHANGED <<annotations, titled, checkpoint, resolved, prohibited, lapsed>>
  BY DEF LogFailure
<1>2. CASE lane[w].attempt \in Attempts(Job(w), lane[w].model)
  <2>1. lane' = [lane EXCEPT ![w] = NoWork] /\ UNCHANGED <<failures, lease>>
    BY <1>2 DEF LogFailure, Die
  <2>2. Leases(w) /\ lease' \in [ArticleJobs -> Lanes \cup {Nobody}]
    BY <2>1, KeepsLease DEF NoWork
  <2> QED BY <1>1, <2>1, <2>2, IdleSound, NoWorkTyped, QuietEffect DEF stored
<1>3. CASE lane[w].attempt \notin Attempts(Job(w), lane[w].model)
  <2>1. failures' = failures \cup {Row(lane[w])} /\ LeaveOrAgain(w)
    BY <1>3 DEF LogFailure, Row, Job
  <2>2. Adds(w) BY <1>1, <1>3, <2>1 DEF Adds, Logs
  <2>3. IsFiniteSet(failures') BY <2>1, TypedNow, FS_AddElement
  <2>4. CASE Leave(w)
    BY <1>1, <2>2, <2>3, <2>4, LeavesOwn, IdleSound, NoWorkTyped, StoringEffect, TypedNow
  <2>5. CASE Begin(w, Job(w)) /\ UNCHANGED lease
    <3>1. PICK work \in Work :
            /\ lane' = [lane EXCEPT ![w] = work] /\ work.job = Job(w)
            /\ Sound(work, annotations, resolved, checkpoint, failures', prohibited, lapsed)
      BY <2>5, OwnSound, BegunWork
    <3>2. Leases(w) /\ lease' \in [ArticleJobs -> Lanes \cup {Nobody}]
      BY <1>1, <2>5, <3>1, OwnSound, KeepsLease
    <3> QED BY <1>1, <2>2, <2>3, <3>1, <3>2, StoringEffect, TypedNow
  <2> QED BY <2>1, <2>4, <2>5 DEF LeaveOrAgain
<1> QED BY <1>2, <1>3

LEMMA StepEffect ==
  ASSUME ArticleInv, NEW w \in Lanes, ArticleStep(w), UNCHANGED queued
  PROVE  Effect(w) /\ SoundNext(w)
<1>1. CASE \E item \in queued : Take(w, item) BY <1>1, TakeStep
<1>2. CASE Retrieve(w) \/ Defer(w) \/ Fail(w) \/ Refuse(w) \/ Mark(w)
  BY <1>2, RetrieveStep, DeferStep, FailStep, RefuseStep, MarkStep
<1>3. CASE AskedAnnotation(w) \/ AskedTitle(w) \/ AnswerImpact(w)
  BY <1>3, AskedAnnotationStep, AskedTitleStep, AnswerImpactStep
<1>4. CASE \E output \in Outputs : RejectImpact(w, output) BY <1>4, RejectImpactStep
<1>5. CASE SaveCheckpoint(w) \/ Resolve(w) \/ StoreImpact(w)
  BY <1>5, SaveCheckpointStep, ResolveStep, StoreImpactStep
<1>6. CASE StoreAnnotation(w) \/ StoreItsTitle(w) \/ StoreTitle(w)
  BY <1>6, StoreAnnotationStep, StoreItsTitleStep, StoreTitleStep
<1>7. CASE CountFailures(w) \/ LogFailure(w) BY <1>7, CountFailuresStep, LogFailureStep
<1> QED BY <1>1, <1>2, <1>3, <1>4, <1>5, <1>6, <1>7 DEF ArticleStep

-----------------------------------------------------------------------------
(* What that effect keeps.                                                 *)

LEMMA AddsGrow ==
  ASSUME ArticleInv, NEW w \in Lanes, Adds(w)
  PROVE  /\ EvidenceOnlyGrows
         /\ \A c \in Articles : annotations[c] \subseteq annotations'[c]
         /\ \A c \in Articles : resolved[c] # Unresolved => resolved'[c] = resolved[c]
         /\ failures \subseteq failures' /\ prohibited \subseteq prohibited' /\ lapsed' = lapsed
<1>1. \A c \in Articles : annotations[c] \subseteq annotations'[c] BY DEF Adds, AddsAnnotation
<1>2. \A c \in Articles : titled[c] \subseteq titled'[c] BY DEF Adds, AddsTitle
<1>3. \A c \in Articles : checkpoint[c] # NoEvidence => checkpoint'[c] = checkpoint[c]
  BY DEF Adds, KeepsAnswer
<1>4. \A c \in Articles : resolved[c] # Unresolved => resolved'[c] = resolved[c]
  BY DEF Adds, Identifies
<1>5. failures \subseteq failures' BY DEF Adds, Logs
<1>6. prohibited \subseteq prohibited' /\ lapsed' = lapsed BY DEF Adds
<1> QED BY <1>1, <1>2, <1>3, <1>4, <1>5, <1>6 DEF EvidenceOnlyGrows

\* Two workers on one job that was not disturbed are one.
LEMMA OneOfThem ==
  ASSUME ArticleInv, NEW w \in Lanes, NEW x \in Lanes, Job(w) = Job(x),
         lane[w].pc # "idle", lane[x].pc # "idle", Job(w) \notin lapsed
  PROVE  w = x
BY DEF ArticleInv, HoldsItsLease

LEMMA LeasesAreHeld ==
  ASSUME ArticleInv, NEW w \in Lanes, Effect(w)
  PROVE  HoldsItsLease'
<1> SUFFICES ASSUME NEW x \in Lanes, lane'[x].pc # "idle", lane'[x].job \notin lapsed
             PROVE  lease'[lane'[x].job] = x
  BY DEF HoldsItsLease, Job, Effect, Adds
<1>1. CASE x = w
  BY <1>1, OwnSound DEF Effect, Leases, ArticleInv, HoldsItsLease
<1>2. CASE x # w
  <2>1. lane'[x] = lane[x] /\ lane[x].job = Job(x) /\ Job(x) \in ArticleJobs
    BY <1>2, OwnSound DEF Effect
  <2>2. lease[Job(x)] = x BY <2>1 DEF ArticleInv, HoldsItsLease
  <2>3. lease'[Job(x)] = lease[Job(x)] BY <1>2, <2>1, <2>2, Constants DEF Effect, Leases
  <2> QED BY <2>1, <2>2, <2>3
<1> QED BY <1>1, <1>2

LEMMA AllWorkIsSound ==
  ASSUME ArticleInv, NEW w \in Lanes, Effect(w), SoundNext(w)
  PROVE  WorkSound'
<1> SUFFICES ASSUME NEW x \in Lanes
             PROVE  Sound(lane'[x], annotations', resolved', checkpoint', failures',
                          prohibited', lapsed')
  BY DEF WorkSound
<1>1. CASE x = w BY <1>1 DEF SoundNext
<1>2. CASE x # w
  <2> DEFINE a == Article(x)
  <2>1. /\ lane'[x] = lane[x] /\ lane[x] \in Work /\ a \in Articles /\ a = lane[x].job[2]
        /\ Job(x) = lane[x].job /\ Job(x) = <<Job(x)[1], a>>
        /\ Sound(lane[x], annotations, resolved, checkpoint, failures, prohibited, lapsed)
    BY <1>2, OwnSound, WorkFields DEF Effect
  <2>2. IsFiniteSet(failures') /\ Adds(w) BY DEF Effect, ArticleTyped
  <2>3. ASSUME Job(x)[1] = "annotation", Job(x) \notin lapsed'
        PROVE  annotations'[a] = annotations[a]
    <3>1. lane[x].pc # "idle" BY <2>1, <2>3 DEF Sound, AtAnnotation
    <3>2. ~AddsAnnotation(w, a)
      BY <1>2, <2>1, <2>2, <2>3, <3>1, OneOfThem DEF AddsAnnotation, Adds
    <3> QED BY <2>1, <2>2, <3>2 DEF Adds
  <2>4. ASSUME Job(x)[1] = "impact", Job(x) \notin lapsed'
        PROVE  checkpoint'[a] = checkpoint[a]
    <3>1. lane[x].pc # "idle" BY <2>1, <2>4 DEF Sound, AtImpact
    <3>2. ~KeepsAnswer(w, a)
      BY <1>2, <2>1, <2>2, <2>4, <3>1, OneOfThem DEF KeepsAnswer, Adds
    <3> QED BY <2>1, <2>2, <3>2 DEF Adds
  <2> HIDE DEF a
  <2>5. /\ lane[x].job[1] = "annotation" /\ lane[x].job \notin lapsed' =>
             annotations'[lane[x].job[2]] = annotations[lane[x].job[2]]
        /\ lane[x].job[1] = "impact" /\ lane[x].job \notin lapsed' =>
             checkpoint'[lane[x].job[2]] = checkpoint[lane[x].job[2]]
    BY <2>1, <2>3, <2>4
  <2>6. /\ \A c \in Articles : annotations[c] \subseteq annotations'[c]
        /\ \A c \in Articles : resolved[c] # Unresolved => resolved'[c] = resolved[c]
        /\ failures \subseteq failures' /\ prohibited \subseteq prohibited' /\ lapsed \subseteq lapsed'
    BY <2>2, AddsGrow
  <2> QED BY <2>1, <2>2, <2>5, <2>6, SoundGrows
<1> QED BY <1>1, <1>2

LEMMA CheckpointsStayOffered ==
  ASSUME ArticleInv, NEW w \in Lanes, Effect(w)
  PROVE  CheckpointsOffered'
<1> SUFFICES ASSUME NEW a \in Articles
             PROVE  WellOffered(a, checkpoint'[a], annotations', resolved')
  BY DEF CheckpointsOffered
<1>1. Adds(w) /\ checkpoint[a] \in Evidence BY TypedNow DEF Effect
<1>2. /\ \A c \in Articles : annotations[c] \subseteq annotations'[c]
      /\ \A c \in Articles : resolved[c] # Unresolved => resolved'[c] = resolved[c]
  BY <1>1, AddsGrow
<1>3. CASE checkpoint'[a] = checkpoint[a]
  <2>1. WellOffered(a, checkpoint[a], annotations, resolved)
    BY DEF ArticleInv, CheckpointsOffered
  <2> QED BY <1>1, <1>2, <1>3, <2>1, OfferedGrows
<1>4. CASE KeepsAnswer(w, a)
  <2>1. /\ lane[w].evidence \in Evidence /\ checkpoint'[a] = lane[w].evidence
        /\ WellOffered(a, lane[w].evidence, annotations, resolved)
    BY <1>4, OwnSound, WorkFields DEF KeepsAnswer, Sound, AtImpact
  <2> QED BY <1>2, <2>1, OfferedGrows
<1> QED BY <1>1, <1>3, <1>4 DEF Adds

\* The promise about identities, with the article's identity as a parameter.
LEMMA IdentityKept ==
  ASSUME NEW a \in Articles
  PROVE  WellIdentified(a) <=> Grounded(a, resolved[a], annotations, resolved)
BY DEF WellIdentified, Grounded, Matches

LEMMA IdentitiesStayGrounded ==
  ASSUME ArticleInv, NEW w \in Lanes, Effect(w)
  PROVE  IdentityGrounded'
<1> SUFFICES ASSUME NEW a \in Articles, resolved'[a] # Unresolved
             PROVE  annotations'[a] # {} /\ Grounded(a, resolved'[a], annotations', resolved')
  BY DEF IdentityGrounded, WellIdentified, Grounded, Matches
<1>1. Adds(w) BY DEF Effect
<1>2. /\ \A c \in Articles : annotations[c] \subseteq annotations'[c]
      /\ \A c \in Articles : resolved[c] # Unresolved => resolved'[c] = resolved[c]
  BY <1>1, AddsGrow
<1>3. CASE resolved'[a] = resolved[a]
  <2>1. annotations[a] # {} /\ Grounded(a, resolved[a], annotations, resolved)
    BY <1>3, IdentityKept DEF ArticleInv, IdentityGrounded
  <2>2. Grounded(a, resolved[a], annotations', resolved') BY <1>2, <2>1, GroundedGrows
  <2> QED BY <1>2, <1>3, <2>1, <2>2
<1>4. CASE Identifies(w, a)
  <2>1. /\ resolved'[a] = lane[w].answer /\ annotations[a] # {}
        /\ Grounded(a, lane[w].answer, annotations, resolved)
    BY <1>4, OwnSound DEF Identifies, Sound, AtImpact
  <2>2. Grounded(a, lane[w].answer, annotations', resolved') BY <1>2, <2>1, GroundedGrows
  <2> QED BY <1>2, <2>1, <2>2
<1> QED BY <1>1, <1>3, <1>4 DEF Adds

LEMMA NumbersStayWhole ==
  ASSUME ArticleInv, NEW w \in Lanes, Effect(w)
  PROVE  FailuresNumbered'
<1> SUFFICES ASSUME NEW item \in ArticleJobs, NEW model \in Models
             PROVE  {f.attempt : f \in Mine(item, model, failures')}
                      = 1..Cardinality(Mine(item, model, failures'))
  BY DEF FailuresNumbered, Mine, Models
<1> DEFINE mine == Mine(item, model, failures)
           n == Cardinality(mine)
           row == Row(lane[w])
<1>1. /\ {f.attempt : f \in mine} = 1..n /\ n \in Nat
      /\ Attempts(item, model) = {f.attempt : f \in mine}
  BY AttemptsAreCounted DEF Attempts, Mine
<1>2. IsFiniteSet(mine) BY TypedNow, FS_Subset DEF Mine
<1>3. CASE Mine(item, model, failures') = mine BY <1>1, <1>3
<1>4. CASE Mine(item, model, failures') # mine
  <2>1. Logs(w) BY <1>4 DEF Effect, Adds
  <2>2. row.job = lane[w].job /\ row.model = lane[w].model /\ row.attempt = lane[w].attempt
    BY DEF Row
  <2> HIDE DEF row
  <2>3. failures' = failures \cup {row} BY <2>1 DEF Logs, row
  <2>4. Mine(item, model, failures') = mine \cup {row} /\ item = row.job /\ model = row.model
    BY <1>4, <2>3 DEF Mine
  <2>5. row.attempt \notin 1..n BY <1>1, <2>1, <2>2, <2>4, OwnSound DEF Logs
  <2>6. row.attempt \in 1..(n + 1) BY <2>1, <2>2, <2>4, OwnSound DEF Logs, Sound, Counted
  <2>7. row \notin mine BY <1>1, <2>5
  <2>8. Cardinality(mine \cup {row}) = n + 1 BY <1>2, <2>7, FS_AddElement
  <2>9. {f.attempt : f \in mine \cup {row}} = {f.attempt : f \in mine} \cup {row.attempt}
    OBVIOUS
  <2> HIDE DEF n, mine
  <2>10. (1..n) \cup {row.attempt} = 1..(n + 1) BY <1>1, <2>5, <2>6
  <2> QED BY <1>1, <2>4, <2>8, <2>9, <2>10 DEF mine
<1> QED BY <1>3, <1>4

LEMMA MarksAndAnnotationsStay ==
  ASSUME ArticleInv, NEW w \in Lanes, Effect(w)
  PROVE  TerminalMarked' /\ OneAnnotation'
<1>1. Adds(w) /\ prohibited \subseteq prohibited' /\ lapsed' = lapsed
  BY DEF Effect, Adds
<1>2. TerminalMarked'
  <2> SUFFICES ASSUME NEW f \in failures', f.terminal PROVE f.job[2] \in prohibited'
    BY DEF TerminalMarked
  <2>1. CASE f \in failures BY <1>1, <2>1 DEF ArticleInv, TerminalMarked
  <2>2. CASE f \notin failures
    <3>1. f = Row(lane[w]) /\ lane[w].pc = "log" BY <1>1, <2>2 DEF Adds, Logs
    <3>2. f.job = lane[w].job /\ f.terminal = lane[w].terminal BY <3>1 DEF Row
    <3> QED BY <1>1, <3>1, <3>2, OwnSound DEF Sound, MarkedFirst
  <2> QED BY <2>1, <2>2
<1>3. ASSUME NEW a \in Articles, <<"annotation", a>> \notin lapsed
      PROVE  Cardinality(annotations'[a]) <= 1
  <2>1. CASE annotations'[a] = annotations[a] BY <1>3, <2>1 DEF ArticleInv, OneAnnotation
  <2>2. CASE AddsAnnotation(w, a)
    <3>1. lane[w].job = <<"annotation", a>> /\ lane[w].pc = "store"
      BY <2>2, OwnSound DEF AddsAnnotation
    <3>2. AtAnnotation(lane[w], annotations, lapsed) BY OwnSound DEF Sound
    <3>3. lane[w].job[1] = "annotation" /\ lane[w].job[2] = a /\ lane[w].job \notin lapsed
      BY <1>3, <3>1
    <3>4. annotations[a] = {} BY <3>1, <3>2, <3>3 DEF AtAnnotation
    <3>5. annotations'[a] = {lane[w].model} BY <2>2, <3>4 DEF AddsAnnotation
    <3>6. Cardinality({lane[w].model}) = 1 BY FS_Singleton
    <3> QED BY <3>5, <3>6
  <2> QED BY <1>1, <2>1, <2>2 DEF Adds
<1>4. ASSUME NEW a \in Articles PROVE titled'[a] \ {"title"} \subseteq annotations'[a]
  <2>1. titled[a] \ {"title"} \subseteq annotations[a] BY DEF ArticleInv, OneAnnotation
  <2>2. annotations[a] \subseteq annotations'[a] BY <1>1, AddsGrow
  <2>3. CASE titled'[a] \subseteq titled[a] \cup {"title"} BY <2>1, <2>2, <2>3
  <2>4. CASE ~(titled'[a] \subseteq titled[a] \cup {"title"})
    <3>1. /\ Job(w) = <<"annotation", a>> /\ lane[w].pc = "title"
          /\ titled'[a] = titled[a] \cup {lane[w].model}
      BY <1>1, <2>4 DEF Adds, AddsTitle
    <3>2. lane[w].job[1] = "annotation" /\ lane[w].job[2] = a BY <3>1, OwnSound
    <3>3. AtAnnotation(lane[w], annotations, lapsed) BY OwnSound DEF Sound
    <3>4. lane[w].model \in annotations[a] BY <3>1, <3>2, <3>3 DEF AtAnnotation
    <3> QED BY <2>1, <2>2, <3>1, <3>4
  <2> QED BY <2>3, <2>4
<1> QED BY <1>1, <1>2, <1>3, <1>4 DEF OneAnnotation

LEMMA StepKeepsArticles ==
  ASSUME ArticleInv, NEW w \in Lanes, ArticleStep(w), UNCHANGED queued
  PROVE  ArticleInv' /\ EvidenceOnlyGrows
<1>1. Effect(w) /\ SoundNext(w) BY StepEffect
<1>2. ArticleTyped' /\ Adds(w) BY <1>1 DEF Effect
<1>3. HoldsItsLease' /\ WorkSound' BY <1>1, LeasesAreHeld, AllWorkIsSound
<1>4. CheckpointsOffered' /\ IdentityGrounded' BY <1>1, CheckpointsStayOffered, IdentitiesStayGrounded
<1>5. FailuresNumbered' /\ TerminalMarked' /\ OneAnnotation'
  BY <1>1, NumbersStayWhole, MarksAndAnnotationsStay
<1>6. EvidenceOnlyGrows BY <1>2, AddsGrow
<1> QED BY <1>2, <1>3, <1>4, <1>5, <1>6 DEF ArticleInv

-----------------------------------------------------------------------------
(* The environment.                                                        *)

LEMMA LapseKeepsArticles ==
  ASSUME ArticleInv, NEW item \in queued, Lapse(item), UNCHANGED queued
  PROVE  ArticleInv' /\ EvidenceOnlyGrows
<1>1. /\ UNCHANGED <<annotations, titled, checkpoint, resolved, failures, prohibited, lane, queued>>
      /\ item \in ArticleJobs /\ lease' = [lease EXCEPT ![item] = Nobody]
      /\ lapsed \subseteq lapsed'
  BY DEF Lapse, stored, ArticleInv, ArticleTyped
<1>2. ArticleTyped' BY <1>1 DEF ArticleInv, ArticleTyped
<1>3. HoldsItsLease'
  <2> SUFFICES ASSUME NEW x \in Lanes, lane[x].pc # "idle", Job(x) \notin lapsed'
               PROVE  lease'[Job(x)] = x
    BY <1>1 DEF HoldsItsLease, Job
  <2>1. lease[Job(x)] = x /\ Job(x) \in ArticleJobs BY <1>1, OwnSound DEF ArticleInv, HoldsItsLease
  <2>2. Job(x) # item BY DEF Lapse
  <2> QED BY <1>1, <2>1, <2>2, TypedNow
<1>4. WorkSound'
  <2> SUFFICES ASSUME NEW x \in Lanes
               PROVE  Sound(lane[x], annotations, resolved, checkpoint, failures, prohibited, lapsed')
    BY <1>1 DEF WorkSound
  <2>1. /\ lane[x] \in Work /\ IsFiniteSet(failures)
        /\ Sound(lane[x], annotations, resolved, checkpoint, failures, prohibited, lapsed)
    BY OwnSound, TypedNow
  <2> QED BY <1>1, <2>1, SoundGrows
<1>5. CheckpointsOffered' /\ TerminalMarked'
  BY <1>1 DEF ArticleInv, CheckpointsOffered, TerminalMarked
<1>6. IdentityGrounded' BY <1>1 DEF ArticleInv, IdentityGrounded, WellIdentified
<1>7. FailuresNumbered' BY <1>1 DEF ArticleInv, FailuresNumbered
<1>8. OneAnnotation' BY <1>1 DEF ArticleInv, OneAnnotation
<1>9. EvidenceOnlyGrows BY <1>1 DEF EvidenceOnlyGrows
<1> QED BY <1>2, <1>3, <1>4, <1>5, <1>6, <1>7, <1>8, <1>9 DEF ArticleInv

LEMMA RestartKeepsArticles ==
  ASSUME ArticleInv, StartAgain, UNCHANGED queued
  PROVE  ArticleInv' /\ EvidenceOnlyGrows
<1>1. /\ UNCHANGED <<annotations, titled, checkpoint, resolved, failures, prohibited, lease, lapsed>>
      /\ lane' = [w \in Lanes |-> NoWork] /\ UNCHANGED queued
  BY DEF StartAgain, stored
<1>2. ArticleTyped' BY <1>1, NoWorkTyped DEF ArticleInv, ArticleTyped
<1>3. HoldsItsLease' BY <1>1 DEF HoldsItsLease, NoWork
<1>4. WorkSound' BY <1>1, IdleSound DEF WorkSound
<1>5. CheckpointsOffered' /\ TerminalMarked'
  BY <1>1 DEF ArticleInv, CheckpointsOffered, TerminalMarked
<1>6. IdentityGrounded' BY <1>1 DEF ArticleInv, IdentityGrounded, WellIdentified
<1>7. FailuresNumbered' BY <1>1 DEF ArticleInv, FailuresNumbered
<1>8. OneAnnotation' BY <1>1 DEF ArticleInv, OneAnnotation
<1>9. EvidenceOnlyGrows BY <1>1 DEF EvidenceOnlyGrows
<1> QED BY <1>2, <1>3, <1>4, <1>5, <1>6, <1>7, <1>8, <1>9 DEF ArticleInv

LEMMA IdleKeepsArticles ==
  ASSUME ArticleInv, UNCHANGED articleVars
  PROVE  ArticleInv' /\ EvidenceOnlyGrows
<1>1. UNCHANGED <<annotations, titled, checkpoint, resolved, failures, prohibited, queued, lease,
                  lapsed, lane>>
  BY DEF articleVars, stored
<1>2. ArticleTyped' /\ HoldsItsLease' /\ CheckpointsOffered' /\ WorkSound'
  BY <1>1 DEF ArticleInv, ArticleTyped, HoldsItsLease, CheckpointsOffered, WorkSound, Job
<1>3. IdentityGrounded' BY <1>1 DEF ArticleInv, IdentityGrounded, WellIdentified
<1>4. FailuresNumbered' /\ TerminalMarked' /\ OneAnnotation'
  BY <1>1 DEF ArticleInv, FailuresNumbered, TerminalMarked, OneAnnotation
<1>5. EvidenceOnlyGrows BY <1>1 DEF EvidenceOnlyGrows
<1> QED BY <1>2, <1>3, <1>4, <1>5 DEF ArticleInv

LEMMA ArticlesBegin == ArticleInit => ArticleInv
<1> SUFFICES ASSUME ArticleInit PROVE ArticleInv OBVIOUS
<1>1. ArticleTyped BY InitTyped
<1>2. /\ annotations = [a \in Articles |-> {}] /\ titled = [a \in Articles |-> {}]
      /\ checkpoint = [a \in Articles |-> NoEvidence]
      /\ resolved = [a \in Articles |-> Unresolved] /\ failures = {}
      /\ lane = [w \in Lanes |-> NoWork]
  BY DEF ArticleInit
<1>3. HoldsItsLease BY <1>2 DEF HoldsItsLease, NoWork
<1>4. WorkSound BY <1>2, IdleSound DEF WorkSound
<1>5. CheckpointsOffered BY <1>2, UnresolvedIdentity DEF CheckpointsOffered, WellOffered
<1>6. IdentityGrounded BY <1>2 DEF IdentityGrounded
<1>7. FailuresNumbered
  <2>1. Cardinality({}) = 0 BY FS_EmptySet
  <2> QED BY <1>2, <2>1 DEF FailuresNumbered
<1>8. TerminalMarked BY <1>2 DEF TerminalMarked
<1>9. OneAnnotation
  <2>1. Cardinality({}) = 0 BY FS_EmptySet
  <2> QED BY <1>2, <2>1 DEF OneAnnotation
<1> QED BY <1>1, <1>3, <1>4, <1>5, <1>6, <1>7, <1>8, <1>9 DEF ArticleInv

LEMMA ArticlesGoOn ==
  ASSUME ArticleInv, [ArticleNext]_articleVars
  PROVE  ArticleInv' /\ EvidenceOnlyGrows
<1>1. CASE (\E w \in Lanes : ArticleStep(w)) /\ UNCHANGED queued BY <1>1, StepKeepsArticles
<1>2. CASE (\E item \in queued : Lapse(item)) /\ UNCHANGED queued BY <1>2, LapseKeepsArticles
<1>3. CASE StartAgain /\ UNCHANGED queued BY <1>3, RestartKeepsArticles
<1>4. CASE UNCHANGED articleVars BY <1>4, IdleKeepsArticles
<1> QED BY <1>1, <1>2, <1>3, <1>4 DEF ArticleNext

LEMMA ArticlesKeep == ArticleInv => ArticleKept
<1> SUFFICES ASSUME ArticleInv PROVE RepairsTheCapture
  BY DEF ArticleInv, ArticleKept
<1> SUFFICES ASSUME NEW w \in Lanes, Task(w) = "impact", Undisturbed(w)
             PROVE  /\ lane[w].pc \in {"retrieve", "ask", "checkpoint"} =>
                         checkpoint[Article(w)] = NoEvidence
                    /\ lane[w].pc = "repair" =>
                         /\ checkpoint[Article(w)] = lane[w].evidence
                         /\ checkpoint[Article(w)] # NoEvidence
                    /\ lane[w].pc \in {"resolve", "store"} =>
                         checkpoint[Article(w)] \in {NoEvidence, lane[w].evidence}
  BY DEF RepairsTheCapture
<1> QED BY OwnSound DEF Undisturbed, Sound, Repairs

\* Whatever the models answer, however requests, leases and processes fail: a rejected impact
\* answer is repaired as it was kept, an identity is grounded in an article that was assessed or
\* stands alone, failures are numbered without a gap, a refused article is marked before the
\* failure that ends it, a lease gives one annotation, and nothing stored is replaced.
THEOREM ArticlesAreSound == ArticleSpec => ArticleSound
<1>1. ArticleInit => ArticleInv BY ArticlesBegin
<1>2. ArticleInv /\ [ArticleNext]_articleVars => ArticleInv' BY ArticlesGoOn
<1>3. ArticleInv => ArticleKept BY ArticlesKeep
<1>4. ArticleInv /\ [ArticleNext]_articleVars => [EvidenceOnlyGrows]_articleVars BY ArticlesGoOn
<1> QED BY <1>1, <1>2, <1>3, <1>4, PTL DEF ArticleSpec, ArticleSound
=============================================================================
