------------------- MODULE AdmissionAndMigrationProofs -------------------
(*****************************************************************************)
(* Proofs about what the scheduler keeps beside its queue.                   *)
(*                                                                           *)
(* ProviderAdmission: the variables stay in their types, dispatches keep     *)
(* their distance, recorded Retry-After deadlines hold, and no limit of an   *)
(* account's quota is exceeded, for any number of lanes, accounts, classes   *)
(* and requests.                                                             *)
(*                                                                           *)
(* ContractMigration: for every population of rows, every page size and      *)
(* every number of crashes.                                                  *)
(*****************************************************************************)
EXTENDS ProviderAdmission, ContractMigration, FiniteSetTheorems, WellFoundedInduction,
  TLAPS

UsageRec == [account : Accounts, class : Classes, count : Nat,
             tokens : Nat, urgent : BOOLEAN, reserved : BOOLEAN,
             work : WORKLOADS, at : Nat, gap : Nat,
             outcome : OUTCOMES \cup {"none"}, reported : Nat]
LaneRec == [pc : {"idle", "reserved", "attempted", "answered"},
            usage : Nat, at : Nat, outcome : OUTCOMES \cup {"none"},
            retry : Nat \cup {Absent}]

\* What the governor's arithmetic returns.
LEMMA WaitIsNat ==
  ASSUME NEW retry \in Nat \cup {Absent}, NEW f \in Nat
  PROVE  Wait(retry, f) \in Nat
  BY AdmissionAssumption DEF Wait, Larger, Smaller

LEMMA EasedIsNat ==
  ASSUME NEW i \in Nat
  PROVE  Eased(i) \in Nat /\ Eased(i) <= i
<1> DEFINE n == i * 9
           w == n \div 10
           p == n % 10
<1>1. n \in Nat /\ n = 9 * i
  OBVIOUS
<1>2. Eased(i) = IF p > 5 \/ (p = 5 /\ w % 2 = 1) THEN w + 1 ELSE w
  BY DEF Eased
<1>3. w \in Nat /\ p \in 0..9 /\ n = 10 * w + p
  <2> HIDE DEF n
  <2> QED
    BY <1>1
<1> HIDE DEF n, w, p
<1>4. CASE Eased(i) = w
  BY <1>1, <1>3, <1>4
<1>5. CASE p >= 5 /\ Eased(i) = w + 1
  BY <1>1, <1>3, <1>5
<1> QED
  BY <1>2, <1>3, <1>4, <1>5

LEMMA SlowerInRange ==
  ASSUME interval \in MINIMUM..MAXIMUM
  PROVE  Slower \in MINIMUM..MAXIMUM /\ Slower \in Nat
  BY AdmissionAssumption DEF Slower, Smaller, Larger

\* The initial state is well typed.
LEMMA InitTyped == Init => TypeOK
<1> SUFFICES ASSUME Init PROVE TypeOK
  OBVIOUS
<1>1. /\ now \in Nat /\ next \in Nat /\ cooldown \in Nat /\ deadline \in Nat
      /\ interval \in MINIMUM..MAXIMUM
  BY AdmissionAssumption DEF Init
<1>2. /\ demand \in [Classes -> Nat] /\ last \in [Classes -> Nat]
      /\ pressure \in [Classes -> Pressures] /\ livePressure \in BOOLEAN
      /\ passed \in [Classes -> [Classes -> Nat]]
  BY DEF Init
<1>3. usage \in Seq(UsageRec)
  <2>1. usage = << >>
    BY DEF Init
  <2> QED
    BY <2>1
<1>4. lane \in [Lanes -> LaneRec]
  <2>1. Resting \in LaneRec
    BY DEF Resting, InFlight, LaneRec, OUTCOMES
  <2> QED
    BY <2>1 DEF Init
<1> QED
  BY <1>1, <1>2, <1>3, <1>4 DEF TypeOK, UsageRec, LaneRec

\* A change to one lane's record keeps the table of lanes typed.
LEMMA LaneTableTyped ==
  ASSUME lane \in [Lanes -> LaneRec], NEW l \in Lanes, NEW r \in LaneRec,
         lane' = [lane EXCEPT ![l] = r]
  PROVE  lane' \in [Lanes -> LaneRec]
  OBVIOUS

\* Pacing outcomes keep the governor typed.
LEMMA PacingTyped ==
  ASSUME TypeOK, NEW l \in Lanes,
         Throttled(l) \/ FailedWithRetry(l) \/ Succeeded(l) \/ NoPacingChange(l)
  PROVE  /\ next' \in Nat /\ cooldown' \in Nat /\ deadline' \in Nat
         /\ interval' \in MINIMUM..MAXIMUM
<1>1. /\ lane[l].at \in Nat /\ lane[l].retry \in Nat \cup {Absent}
      /\ next \in Nat /\ cooldown \in Nat /\ deadline \in Nat
      /\ interval \in MINIMUM..MAXIMUM /\ interval \in Nat
  BY AdmissionAssumption DEF TypeOK
<1>2. CASE Throttled(l)
  <2>1. Wait(lane[l].retry, Slower) \in Nat /\ Slower \in MINIMUM..MAXIMUM
    BY <1>1, SlowerInRange, WaitIsNat
  <2> DEFINE w == Wait(lane[l].retry, Slower)
  <2> HIDE DEF w
  <2>2. /\ interval' = Slower /\ cooldown' = lane[l].at + w
        /\ next' = HeldUntil(lane[l].at + w)
        /\ deadline' \in {deadline, Larger(deadline, lane[l].at + w)}
    BY <1>2 DEF Throttled, w
  <2>3. w \in Nat
    BY <2>1 DEF w
  <2> QED
    BY <1>1, <2>1, <2>2, <2>3 DEF HeldUntil, Larger
<1>3. CASE FailedWithRetry(l)
  <2>1. Wait(lane[l].retry, 0) \in Nat
    BY <1>1, WaitIsNat
  <2> QED
    BY <1>1, <1>3, <2>1 DEF FailedWithRetry, HeldUntil, Larger
<1>4. CASE Succeeded(l)
  <2>1. Eased(interval) \in Nat /\ Eased(interval) <= interval
    BY <1>1, EasedIsNat
  <2> QED
    BY <1>1, <1>4, <2>1, AdmissionAssumption DEF Succeeded, Larger
<1>5. CASE NoPacingChange(l)
  BY <1>1, <1>5 DEF NoPacingChange
<1> QED
  BY <1>2, <1>3, <1>4, <1>5

\* A step of a lane keeps every type.
LEMMA LaneTyped ==
  ASSUME TypeOK, NEW l \in Lanes, LaneStep(l)
  PROVE  TypeOK'
<1> USE AdmissionAssumption
<1>0. /\ lane \in [Lanes -> LaneRec] /\ lane[l] \in LaneRec
      /\ usage \in Seq(UsageRec) /\ now \in Nat /\ TTL \in Nat
      /\ interval \in MINIMUM..MAXIMUM /\ interval \in Nat
  BY DEF TypeOK, LaneRec, UsageRec
<1>1. ASSUME NEW q \in Asks, Reserve(l, q) PROVE TypeOK'
  <2>0. /\ q.account \in Accounts /\ q.class \in Classes /\ q.count \in Nat
        /\ q.tokens \in Nat /\ q.urgent \in BOOLEAN /\ q.reserved \in BOOLEAN
        /\ q.work \in WORKLOADS
    OBVIOUS
  <2> DEFINE u == [account |-> q.account, class |-> q.class, count |-> q.count,
        tokens |-> q.tokens, urgent |-> q.urgent, reserved |-> q.reserved,
        work |-> q.work, at |-> now, gap |-> interval,
        outcome |-> "none", reported |-> 0]
  <2>1. u \in UsageRec
    BY <1>0, <2>0 DEF UsageRec
  <2>2. usage' = Append(usage, u)
    BY <1>1 DEF Reserve
  <2> HIDE DEF u
  <2>3. usage' \in Seq(UsageRec)
    BY <1>0, <2>1, <2>2
  <2>4. lane' \in [Lanes -> LaneRec]
    <3>1. InFlight("reserved", Len(usage) + 1) \in LaneRec
      BY <1>0 DEF InFlight, LaneRec, OUTCOMES
    <3>2. lane' = [lane EXCEPT ![l] = InFlight("reserved", Len(usage) + 1)]
      BY <1>1 DEF Reserve
    <3> QED
      BY <1>0, <3>1, <3>2
  <2>5. passed' \in [Classes -> [Classes -> Nat]]
    <3>1. passed \in [Classes -> [Classes -> Nat]]
      BY DEF TypeOK
    <3>2. passed' = [c \in Classes |->
             IF c = q.class THEN [d \in Classes |-> 0]
             ELSE IF c \in Frontier(demand')
                  THEN [passed[c] EXCEPT ![q.class] = @ + 1] ELSE passed[c]]
      BY <1>1 DEF Reserve
    <3>3. ASSUME NEW c \in Classes
          PROVE  [passed[c] EXCEPT ![q.class] = @ + 1] \in [Classes -> Nat]
      BY <3>1, <2>0
    <3> QED
      BY <3>1, <3>2, <3>3
  <2>6. demand' \in [Classes -> Nat] /\ last' \in [Classes -> Nat] /\ next' \in Nat
    BY <1>0, <1>1, <2>0 DEF Reserve, Asking, TypeOK
  <2> QED
    BY <1>1, <2>3, <2>4, <2>5, <2>6 DEF Reserve, TypeOK, UsageRec, LaneRec
<1>2. ASSUME NEW q \in Asks, DispatchDeferred(l, q) PROVE TypeOK'
  <2>1. demand' \in [Classes -> Nat]
    BY <1>0, <1>2 DEF DispatchDeferred, Asking, TypeOK
  <2> QED
    BY <1>2, <2>1 DEF DispatchDeferred, TypeOK
<1>3. CASE MarkAttempted(l)
  <2>1. [lane[l] EXCEPT !.pc = "attempted"] \in LaneRec
    BY <1>0 DEF LaneRec
  <2>2. lane' \in [Lanes -> LaneRec]
    BY <1>0, <1>3, <2>1, LaneTableTyped DEF MarkAttempted
  <2> QED
    BY <1>3, <2>2 DEF MarkAttempted, TypeOK, LaneRec
<1>4. ASSUME NEW o \in Answers, NEW reported \in Reports,
             NEW retry \in RetryAfters, RecordOutcome(l, o, reported, retry)
      PROVE  TypeOK'
  <2>1. o \in OUTCOMES /\ reported \in Nat /\ retry \in Nat \cup {Absent}
    OBVIOUS
  <2>2. [lane[l] EXCEPT !.pc = "answered", !.at = now, !.outcome = o,
                        !.retry = retry] \in LaneRec
    BY <1>0, <2>1 DEF LaneRec
  <2>3. lane' \in [Lanes -> LaneRec]
    BY <1>0, <1>4, <2>2, LaneTableTyped DEF RecordOutcome
  <2> DEFINE i == lane[l].usage
             u == [usage[i] EXCEPT !.outcome = o, !.reported = reported]
  <2>4. usage' \in Seq(UsageRec)
    <3>1. usage' = [usage EXCEPT ![i] = u]
      BY <1>4 DEF RecordOutcome
    <3>2. CASE i \in 1..Len(usage)
      <4>1. usage[i] \in UsageRec
        BY <1>0, <3>2
      <4>2. u \in UsageRec
        BY <2>1, <4>1 DEF UsageRec
      <4> HIDE DEF u
      <4> QED
        BY <1>0, <3>1, <3>2, <4>2
    <3>3. CASE i \notin 1..Len(usage)
      <4> HIDE DEF u, i
      <4>1. DOMAIN usage = 1..Len(usage) /\ usage = [k \in DOMAIN usage |-> usage[k]]
        BY <1>0
      <4>2. usage' = usage
        BY <4>1, <3>1, <3>3
      <4> QED
        BY <1>0, <4>2
    <3> QED
      BY <3>2, <3>3
  <2> QED
    BY <1>4, <2>3, <2>4 DEF RecordOutcome, TypeOK, UsageRec, LaneRec
<1>5. CASE RecordPacing(l)
  <2>1. Resting \in LaneRec
    BY DEF Resting, InFlight, LaneRec, OUTCOMES
  <2>2. lane' \in [Lanes -> LaneRec]
    BY <1>0, <1>5, <2>1, LaneTableTyped DEF RecordPacing
  <2>3. /\ next' \in Nat /\ cooldown' \in Nat /\ deadline' \in Nat
        /\ interval' \in MINIMUM..MAXIMUM
    BY <1>5, PacingTyped DEF RecordPacing
  <2> QED
    BY <1>5, <2>2, <2>3 DEF RecordPacing, TypeOK, LaneRec
<1>6. CASE Crash(l)
  <2>1. Resting \in LaneRec
    BY DEF Resting, InFlight, LaneRec, OUTCOMES
  <2>2. lane' \in [Lanes -> LaneRec]
    BY <1>0, <1>6, <2>1, LaneTableTyped DEF Crash
  <2> QED
    BY <1>6, <2>2 DEF Crash, TypeOK, LaneRec
<1> QED
  BY <1>1, <1>2, <1>3, <1>4, <1>5, <1>6 DEF LaneStep

\* Every step keeps every type.
LEMMA StepTyped == TypeOK /\ [Next]_vars => TypeOK'
<1> SUFFICES ASSUME TypeOK, [Next]_vars PROVE TypeOK'
  OBVIOUS
<1>1. ASSUME NEW c \in Classes, RegisterDemand(c) PROVE TypeOK'
  <2>1. demand' \in [Classes -> Nat]
    BY <1>1, AdmissionAssumption DEF RegisterDemand, Asking, TypeOK
  <2> QED
    BY <1>1, <2>1 DEF RegisterDemand, TypeOK
<1>2. CASE QueueChanges
  <2>1. ASSUME NEW c \in Classes, NEW p \in Pressures,
               pressure' = [pressure EXCEPT ![c] = p], UNCHANGED livePressure
        PROVE  pressure' \in [Classes -> Pressures] /\ livePressure' \in BOOLEAN
    BY <2>1 DEF TypeOK
  <2>2. ASSUME livePressure' \in LiveSignals, UNCHANGED pressure
        PROVE  pressure' \in [Classes -> Pressures] /\ livePressure' \in BOOLEAN
    <3>1. LiveSignals \subseteq BOOLEAN
      BY AdmissionAssumption
    <3>2. livePressure' \in BOOLEAN
      BY <2>2, <3>1
    <3> QED
      BY <2>2, <3>2 DEF TypeOK
  <2>3. pressure' \in [Classes -> Pressures] /\ livePressure' \in BOOLEAN
    BY <1>2, <2>1, <2>2 DEF QueueChanges, TypeOK
  <2> QED
    BY <1>2, <2>3 DEF QueueChanges, TypeOK
<1>3. CASE Tick
  <2>1. PICK t \in {now + s : s \in Steps} \cup {next}
                     \cup {usage[i].at + WINDOW : i \in Rows} : now' = t
    BY <1>3 DEF Tick
  <2>2. \A i \in Rows : usage[i].at \in Nat
    <3>1. usage \in Seq(UsageRec)
      BY DEF TypeOK, UsageRec
    <3>2. \A i \in 1..Len(usage) : usage[i] \in UsageRec
      BY <3>1
    <3> QED
      BY <3>2 DEF Rows, UsageRec
  <2>3. now \in Nat /\ next \in Nat /\ (\A s \in Steps : s \in Nat) /\ WINDOW \in Nat
    <3>1. Steps \subseteq Nat \ {0} /\ WINDOW \in Nat \ {0}
      BY AdmissionAssumption
    <3> QED
      BY <3>1 DEF TypeOK
  <2>4. ASSUME  \E s \in Steps : t = now + s PROVE now' \in Nat
    BY <2>1, <2>3, <2>4
  <2>5. ASSUME  t = next PROVE now' \in Nat
    BY <2>1, <2>3, <2>5
  <2>6. ASSUME  \E i \in Rows : t = usage[i].at + WINDOW PROVE now' \in Nat
    BY <2>1, <2>2, <2>3, <2>6
  <2>7. now' \in Nat
    BY <2>1, <2>4, <2>5, <2>6
  <2> QED
    BY <1>3, <2>7 DEF Tick, TypeOK
<1>4. CASE UNCHANGED vars
  BY <1>4 DEF vars, TypeOK
<1> QED
  BY <1>1, <1>2, <1>3, <1>4, LaneTyped DEF Next

\* Every variable stays in its type and the interval in its range, whatever
\* the providers answer and in whatever order lanes report it.
THEOREM TypeCorrect == Spec => []TypeOK
  BY InitTyped, StepTyped, PTL DEF Spec

-----------------------------------------------------------------------------
\* What ties the governor's next slot to the past: it lies behind every
\* recorded deadline and a full gap behind the last dispatch.
Paced ==
  /\ deadline <= next
  /\ Len(usage) > 0 => usage[Len(usage)].at + usage[Len(usage)].gap <= next
  /\ DispatchSpacing

\* A step that admits nothing and moves the next slot only forward, past any
\* deadline it records, keeps the pacing.
LEMMA QuietStep ==
  ASSUME TypeOK, TypeOK', Paced, next <= next', deadline' <= next',
         Len(usage') = Len(usage),
         \A i \in 1..Len(usage) :
           usage'[i].at = usage[i].at /\ usage'[i].gap = usage[i].gap
  PROVE  Paced'
<1>1. /\ usage \in Seq(UsageRec) /\ usage' \in Seq(UsageRec)
      /\ next \in Nat /\ next' \in Nat
  BY DEF TypeOK, UsageRec
<1>2. /\ Len(usage) \in Nat
      /\ \A i \in 1..Len(usage) : usage[i].at \in Nat /\ usage[i].gap \in Nat
  <2>1. \A i \in 1..Len(usage) : usage[i] \in UsageRec
    BY <1>1
  <2> QED
    BY <1>1, <2>1 DEF UsageRec
<1>3. Len(usage') > 0 => usage'[Len(usage')].at + usage'[Len(usage')].gap <= next'
  <2> SUFFICES ASSUME Len(usage) > 0
      PROVE usage'[Len(usage)].at + usage'[Len(usage)].gap <= next'
    OBVIOUS
  <2>1. Len(usage) \in 1..Len(usage)
    BY <1>2
  <2>2. usage[Len(usage)].at + usage[Len(usage)].gap <= next
    BY DEF Paced
  <2> DEFINE a == usage[Len(usage)].at
             g == usage[Len(usage)].gap
  <2>3. /\ a \in Nat /\ g \in Nat /\ a + g <= next
        /\ usage'[Len(usage)].at = a /\ usage'[Len(usage)].gap = g
    BY <1>2, <2>1, <2>2
  <2> HIDE DEF a, g
  <2> QED
    BY <1>1, <2>3
<1>4. DispatchSpacing'
  <2> SUFFICES ASSUME NEW i \in 1..Len(usage'), i > 1
      PROVE  usage'[i - 1].at + usage'[i - 1].gap <= usage'[i].at
    BY DEF DispatchSpacing, Rows
  <2>1. i \in 1..Len(usage) /\ i - 1 \in 1..Len(usage)
    BY <1>2
  <2>2. usage[i - 1].at + usage[i - 1].gap <= usage[i].at
    BY <2>1 DEF Paced, DispatchSpacing, Rows
  <2> QED
    BY <2>1, <2>2
<1> QED
  BY <1>3, <1>4 DEF Paced

\* An admission waits for the next slot and puts the new one a gap later.
LEMMA ReservePaced ==
  ASSUME TypeOK, TypeOK', Paced, NEW l \in Lanes, NEW q \in Asks, Reserve(l, q)
  PROVE  Paced' /\ deadline <= now
<1>1. /\ usage \in Seq(UsageRec) /\ next \in Nat /\ now \in Nat
      /\ deadline \in Nat /\ interval \in Nat
  BY AdmissionAssumption DEF TypeOK, UsageRec
<1>2. next <= now /\ deadline <= next
  BY DEF Reserve, SlotOpen, Paced
<1>3. next' = now + interval /\ deadline' = deadline
  BY DEF Reserve
<1> DEFINE n == Len(usage)
<1>4. PICK u : usage' = Append(usage, u) /\ u.at = now /\ u.gap = interval
  BY DEF Reserve
<1>5. /\ n \in Nat /\ Len(usage') = n + 1 /\ usage'[n + 1] = u
      /\ \A i \in 1..n : usage'[i] = usage[i]
  BY <1>1, <1>4
<1>6. DispatchSpacing'
  <2> SUFFICES ASSUME NEW i \in 1..Len(usage'), i > 1
      PROVE  usage'[i - 1].at + usage'[i - 1].gap <= usage'[i].at
    BY DEF DispatchSpacing, Rows
  <2>1. CASE i = n + 1
    <3>1. n \in 1..n /\ i - 1 = n
      BY <1>5, <2>1
    <3>2. usage[n].at + usage[n].gap <= next
      BY <3>1 DEF Paced
    <3>3. usage[n] \in UsageRec
      BY <1>1, <3>1
    <3>4. usage[n].at \in Nat /\ usage[n].gap \in Nat
      BY <3>3 DEF UsageRec
    <3>5. usage'[i].at = now /\ usage'[i - 1] = usage[n]
      BY <1>4, <1>5, <2>1, <3>1
    <3> DEFINE s == usage[n].at + usage[n].gap
    <3>6. s \in Int /\ s <= next
      BY <3>2, <3>4
    <3>7. s <= now
      <4> HIDE DEF s
      <4> QED
        BY <1>1, <1>2, <3>6
    <3> QED
      BY <3>5, <3>7
  <2>2. CASE i # n + 1
    <3>1. i \in 1..n /\ i - 1 \in 1..n
      BY <1>5, <2>2
    <3>2. usage[i - 1].at + usage[i - 1].gap <= usage[i].at
      BY <3>1 DEF Paced, DispatchSpacing, Rows
    <3> QED
      BY <1>5, <3>1, <3>2
  <2> QED
    BY <2>1, <2>2
<1>7. usage'[Len(usage')].at + usage'[Len(usage')].gap <= next'
  BY <1>1, <1>3, <1>4, <1>5
<1>8. deadline' <= next'
  BY <1>1, <1>2, <1>3
<1>9. deadline <= now
  BY <1>1, <1>2
<1> QED
  BY <1>6, <1>7, <1>8, <1>9 DEF Paced

\* Recording a pacing outcome only moves the next slot forward, and to or past
\* the deadline it records.
LEMMA PacingForward ==
  ASSUME TypeOK, Paced, NEW l \in Lanes,
         Throttled(l) \/ FailedWithRetry(l) \/ Succeeded(l) \/ NoPacingChange(l)
  PROVE  next <= next' /\ deadline' <= next'
<1>1. /\ lane[l].at \in Nat /\ lane[l].retry \in Nat \cup {Absent}
      /\ next \in Nat /\ deadline \in Nat /\ deadline <= next
      /\ interval \in MINIMUM..MAXIMUM
  BY DEF TypeOK, Paced
<1>2. CASE Throttled(l)
  <2>1. Wait(lane[l].retry, Slower) \in Nat
    BY <1>1, SlowerInRange, WaitIsNat
  <2> DEFINE until == lane[l].at + Wait(lane[l].retry, Slower)
  <2>2. until \in Nat
    BY <1>1, <2>1
  <2>3. /\ next' = HeldUntil(until)
        /\ deadline' \in {deadline, Larger(deadline, until)}
    BY <1>2 DEF Throttled
  <2> HIDE DEF until
  <2> QED
    BY <1>1, <2>2, <2>3 DEF HeldUntil, Larger
<1>3. CASE FailedWithRetry(l)
  <2>1. Wait(lane[l].retry, 0) \in Nat
    BY <1>1, WaitIsNat
  <2> QED
    BY <1>1, <1>3, <2>1 DEF FailedWithRetry, HeldUntil, Larger
<1>4. CASE Succeeded(l) \/ NoPacingChange(l)
  BY <1>1, <1>4 DEF Succeeded, NoPacingChange
<1> QED
  BY <1>2, <1>3, <1>4

\* Every step keeps the pacing, and one that admits waited for the deadline.
LEMMA PacedStep ==
  ASSUME TypeOK, TypeOK', Paced, [Next]_vars
  PROVE  Paced' /\ (Len(usage) < Len(usage') => deadline <= now)
<1>0. /\ usage \in Seq(UsageRec) /\ next \in Nat /\ deadline <= next
      /\ Len(usage) \in Nat
  BY DEF TypeOK, UsageRec, Paced
<1>1. ASSUME NEW l \in Lanes, NEW q \in Asks, Reserve(l, q)
      PROVE  Paced' /\ deadline <= now
  BY <1>1, ReservePaced
<1>2. ASSUME UNCHANGED <<usage, next, deadline>>
      PROVE  Paced' /\ ~(Len(usage) < Len(usage'))
  BY <1>0, <1>2, QuietStep
<1>3. ASSUME NEW l \in Lanes, RecordPacing(l)
      PROVE  Paced' /\ ~(Len(usage) < Len(usage'))
  <2>1. next <= next' /\ deadline' <= next'
    BY <1>3, PacingForward DEF RecordPacing
  <2>2. UNCHANGED usage
    BY <1>3 DEF RecordPacing
  <2> QED
    BY <1>0, <2>1, <2>2, QuietStep
<1>4. ASSUME NEW l \in Lanes, NEW o \in Answers, NEW reported \in Reports,
             NEW retry \in RetryAfters, RecordOutcome(l, o, reported, retry)
      PROVE  Paced' /\ ~(Len(usage) < Len(usage'))
  <2> DEFINE i == lane[l].usage
             u == [usage[i] EXCEPT !.outcome = o, !.reported = reported]
  <2>1. usage' = [usage EXCEPT ![i] = u] /\ UNCHANGED <<next, deadline>>
    BY <1>4 DEF RecordOutcome
  <2>2. Len(usage') = Len(usage)
    BY <1>0, <2>1
  <2>3. \A k \in 1..Len(usage) :
          usage'[k].at = usage[k].at /\ usage'[k].gap = usage[k].gap
    <3> SUFFICES ASSUME NEW k \in 1..Len(usage)
        PROVE usage'[k].at = usage[k].at /\ usage'[k].gap = usage[k].gap
      OBVIOUS
    <3>1. usage[k] \in UsageRec
      BY <1>0
    <3>2. CASE k = i
      <4>1. u.at = usage[k].at /\ u.gap = usage[k].gap
        BY <3>1, <3>2 DEF UsageRec
      <4> HIDE DEF u
      <4>2. usage'[k] = u
        BY <1>0, <2>1, <3>2
      <4> QED
        BY <4>1, <4>2
    <3>3. CASE k # i
      BY <1>0, <2>1, <3>3
    <3> QED
      BY <3>2, <3>3
  <2> HIDE DEF i, u
  <2> QED
    BY <1>0, <2>1, <2>2, <2>3, QuietStep
<1>5. CASE \E l \in Lanes : LaneStep(l)
  <2>1. PICK l \in Lanes : LaneStep(l)
    BY <1>5
  <2>2. CASE \E q \in Asks : Reserve(l, q)
    BY <1>1, <2>2
  <2>3. CASE \E q \in Asks : DispatchDeferred(l, q)
    BY <1>2, <2>3 DEF DispatchDeferred
  <2>4. CASE MarkAttempted(l) \/ Crash(l)
    BY <1>2, <2>4 DEF MarkAttempted, Crash
  <2>5. CASE RecordPacing(l)
    BY <1>3, <2>5
  <2>6. CASE \E o \in Answers, reported \in Reports, retry \in RetryAfters :
               RecordOutcome(l, o, reported, retry)
    BY <1>4, <2>6
  <2> QED
    BY <2>1, <2>2, <2>3, <2>4, <2>5, <2>6 DEF LaneStep
<1>6. CASE (\E c \in Classes : RegisterDemand(c)) \/ QueueChanges \/ Tick
  BY <1>2, <1>6 DEF RegisterDemand, QueueChanges, Tick
<1>7. CASE UNCHANGED vars
  BY <1>2, <1>7 DEF vars
<1> QED
  BY <1>5, <1>6, <1>7 DEF Next

\* The governor starts paced.
LEMMA InitPaced == Init => Paced
<1> SUFFICES ASSUME Init PROVE Paced
  OBVIOUS
<1>1. usage = << >> /\ deadline = 0 /\ next = 0
  BY DEF Init
<1>2. Len(usage) = 0
  BY <1>1
<1> QED
  BY <1>1, <1>2 DEF Paced, DispatchSpacing, Rows

\* reserve_account_request grants no dispatch before the interval that held at
\* the previous one has passed, whichever lane, account or class asks.
THEOREM SpacingHolds == Spec => []DispatchSpacing
<1>1. Init => TypeOK /\ Paced
  BY InitTyped, InitPaced
<1>2. TypeOK /\ Paced /\ [Next]_vars => (TypeOK /\ Paced)'
  BY StepTyped, PacedStep
<1>3. TypeOK /\ Paced => DispatchSpacing
  BY DEF Paced
<1> QED
  BY <1>1, <1>2, <1>3, PTL DEF Spec

\* Nothing is dispatched before the latest deadline a provider asked for, even
\* when a later answer of another lane asks for less.
THEOREM RetryAfterHolds == Spec => RetryAfterHonoured
<1>1. Init => TypeOK /\ Paced
  BY InitTyped, InitPaced
<1>2. TypeOK /\ Paced /\ [Next]_vars => (TypeOK /\ Paced)'
  BY StepTyped, PacedStep
<1>3. TypeOK /\ Paced /\ [Next]_vars
        => [Len(usage) < Len(usage') => deadline <= now]_vars
  BY StepTyped, PacedStep
<1> QED
  BY <1>1, <1>2, <1>3, PTL DEF Spec, RetryAfterHonoured

\* Whoever was served last comes after whoever waits.
Rotates ==
  /\ now >= 1
  /\ \A c \in Classes : last[c] = 0 \/ last[c] < next
  /\ \A c, d \in Classes :
       passed[c][d] <= 1 /\ (passed[c][d] = 1 => last[c] < last[d])

\* A dispatch goes to a class that no waiting class was served before.
LEMMA ReserveRotates ==
  ASSUME TypeOK, TypeOK', Rotates, NEW l \in Lanes, NEW q \in Asks, Reserve(l, q)
  PROVE  Rotates'
<1> DEFINE e == q.class
           front == Frontier(Asking(e))
<1>0. /\ e \in Classes /\ now \in Nat /\ next \in Nat /\ now' = now
      /\ last \in [Classes -> Nat] /\ passed \in [Classes -> [Classes -> Nat]]
      /\ interval \in Nat /\ interval > 0 /\ next' = now + interval
  <2>1. /\ e \in Classes /\ now \in Nat /\ next \in Nat
        /\ last \in [Classes -> Nat] /\ passed \in [Classes -> [Classes -> Nat]]
        /\ interval \in MINIMUM..MAXIMUM
    BY AdmissionAssumption DEF TypeOK
  <2>2. MINIMUM \in Nat /\ MAXIMUM \in Nat /\ 0 < MINIMUM
    BY AdmissionAssumption
  <2> QED
    BY <2>1, <2>2 DEF Reserve
<1>1. next <= now /\ \A c \in front : last[e] < last[c] \/ last[e] = last[c]
  BY DEF Reserve, SlotOpen, HasTurn
<1>2. last' = [last EXCEPT ![e] = now]
  BY DEF Reserve
<1>3. passed' = [c \in Classes |->
       IF c = e THEN [d \in Classes |-> 0]
       ELSE IF c \in front
            THEN [passed[c] EXCEPT ![e] = @ + 1] ELSE passed[c]]
  BY DEF Reserve
<1> HIDE DEF e, front
<1>4. \A c \in Classes : last[c] \in Nat /\ last[c] < now
  BY <1>0, <1>1 DEF Rotates
<1>5. \A c \in Classes : last'[c] = 0 \/ last'[c] < next'
  BY <1>0, <1>2, <1>4
<1>6. ASSUME NEW c \in Classes, NEW d \in Classes
      PROVE  passed'[c][d] <= 1 /\ (passed'[c][d] = 1 => last'[c] < last'[d])
  <2>0. /\ passed[c] \in [Classes -> Nat] /\ passed[c][d] \in Nat /\ passed[c][e] \in Nat
        /\ passed[c][d] <= 1 /\ (passed[c][d] = 1 => last[c] < last[d])
        /\ passed[c][e] <= 1 /\ (passed[c][e] = 1 => last[c] < last[e])
    BY <1>0 DEF Rotates
  <2>1. CASE c = e
    <3>1. passed'[c] = [x \in Classes |-> 0]
      BY <2>1, <1>3
    <3>2. passed'[c][d] = 0
      BY <3>1
    <3> QED
      BY <3>2
  <2>2. CASE c # e /\ c \in front
    <3>1. passed'[c] = [passed[c] EXCEPT ![e] = @ + 1]
      BY <1>3, <2>2
    <3>2. passed[c][e] = 0
      <4>1. last[e] < last[c] \/ last[e] = last[c]
        BY <1>1, <2>2
      <4>2. last[e] \in Nat /\ last[c] \in Nat
        BY <1>0, <1>4
      <4>3. ~(last[c] < last[e])
        BY <4>1, <4>2
      <4>4. passed[c][e] # 1 /\ passed[c][e] \in Nat /\ passed[c][e] <= 1
        BY <2>0, <4>3
      <4> QED
        BY <4>4
    <3>3. CASE d = e
      <4>1. passed'[c][d] = 1
        BY <1>0, <2>0, <3>1, <3>2, <3>3
      <4>2. last'[c] = last[c] /\ last'[d] = now
        BY <1>0, <1>2, <2>2, <3>3
      <4> QED
        BY <1>4, <4>1, <4>2
    <3>4. CASE d # e
      <4>1. passed'[c][d] = passed[c][d]
        BY <2>0, <3>1, <3>4
      <4>2. last'[c] = last[c] /\ last'[d] = last[d]
        BY <1>0, <1>2, <2>2, <3>4
      <4> QED
        BY <2>0, <4>1, <4>2
    <3> QED
      BY <3>3, <3>4
  <2>3. CASE c # e /\ c \notin front
    <3>1. passed'[c] = passed[c] /\ last'[c] = last[c]
      BY <1>0, <1>2, <1>3, <2>3
    <3>2. last'[d] = IF d = e THEN now ELSE last[d]
      BY <1>0, <1>2
    <3> QED
      BY <1>4, <2>0, <3>1, <3>2
  <2> QED
    BY <2>1, <2>2, <2>3
<1> QED
  BY <1>0, <1>5, <1>6 DEF Rotates

\* Every step keeps the rotation.
LEMMA StepRotates ==
  ASSUME TypeOK, TypeOK', Paced, Rotates, [Next]_vars
  PROVE  Rotates'
<1>0. now \in Nat /\ next \in Nat /\ next' \in Nat /\ last \in [Classes -> Nat]
  BY DEF TypeOK
<1>1. ASSUME UNCHANGED <<last, passed>>, now' >= now, now' \in Nat, next <= next'
      PROVE  Rotates'
  BY <1>0, <1>1 DEF Rotates
<1>2. CASE \E l \in Lanes, q \in Asks : Reserve(l, q)
  BY <1>2, ReserveRotates
<1>3. CASE \E l \in Lanes : RecordPacing(l)
  <2>1. PICK l \in Lanes : RecordPacing(l)
    BY <1>3
  <2>2. next <= next' /\ UNCHANGED <<last, passed, now>>
    BY <2>1, PacingForward DEF RecordPacing
  <2> QED
    BY <1>0, <1>1, <2>2
<1>4. CASE Tick
  <2>1. UNCHANGED <<last, passed, next>> /\ now < now' /\ now' \in Nat
    BY <1>4 DEF Tick, TypeOK
  <2> QED
    BY <1>0, <1>1, <2>1
<1>5. CASE UNCHANGED <<last, passed, next, now>>
  BY <1>0, <1>1, <1>5
<1>6. CASE \E l \in Lanes : \/ \E q \in Asks : DispatchDeferred(l, q)
                            \/ MarkAttempted(l) \/ Crash(l)
                            \/ \E o \in Answers, reported \in Reports, retry \in RetryAfters :
                                 RecordOutcome(l, o, reported, retry)
  BY <1>5, <1>6 DEF DispatchDeferred, MarkAttempted, Crash, RecordOutcome
<1>7. CASE (\E c \in Classes : RegisterDemand(c)) \/ QueueChanges \/ UNCHANGED vars
  BY <1>5, <1>7 DEF RegisterDemand, QueueChanges, vars
<1> QED
  BY <1>2, <1>3, <1>4, <1>6, <1>7 DEF Next, LaneStep

\* The least-recent choice of _selected_provider_task rotates: between two dispatches
\* of a class, every class that waited undominated throughout was served, so none is
\* passed over twice by the same class.
THEOREM RotationIsFair == Spec => []FairRotation
<1>1. Init => TypeOK /\ Paced /\ Rotates
  <2>1. Init => Rotates
    BY DEF Init, Rotates
  <2> QED
    BY <2>1, InitTyped, InitPaced
<1>2. TypeOK /\ Paced /\ Rotates /\ [Next]_vars => (TypeOK /\ Paced /\ Rotates)'
  BY StepTyped, PacedStep, StepRotates
<1>3. Rotates => FairRotation
  BY DEF Rotates, FairRotation
<1> QED
  BY <1>1, <1>2, <1>3, PTL DEF Spec

-----------------------------------------------------------------------------
(* Counters. *)

\* A nonempty set of naturals has a least element.
LEMMA HasLeast ==
  ASSUME NEW T \in SUBSET Nat, T # {}
  PROVE  \E m \in T : \A n \in T : m <= n
<1> DEFINE R == {s \in Nat \X Nat : s[1] < s[2]}
<1>1. R = OpToRel(<, Nat)
  BY DEF OpToRel
<1>2. IsWellFoundedOn(R, Nat)
  BY <1>1, NatLessThanWellFounded
<1> HIDE DEF R
<1>3. PICK x \in T : \A y \in T : ~(<<y, x>> \in R)
  BY <1>2, WFMin
<1>4. \A y \in T : x <= y
  <2> TAKE y \in T
  <2>1. x \in Nat /\ y \in Nat /\ <<y, x>> \in Nat \X Nat
    OBVIOUS
  <2>2. y < x => <<y, x>> \in R
    BY <2>1 DEF R
  <2> QED
    BY <1>3, <2>1, <2>2
<1> QED
  BY <1>4

\* A set of indices that holds 0, and with an index the next one, holds all.
LEMMA Upward ==
  ASSUME NEW n \in Nat, NEW P, 0 \in P,
         \A k \in 0..n : k \in P /\ k < n => k + 1 \in P
  PROVE  0..n \subseteq P
<1> SUFFICES ASSUME ~(0..n \subseteq P) PROVE FALSE
  OBVIOUS
<1> DEFINE bad == {k \in 0..n : k \notin P}
<1>1. bad \in SUBSET Nat /\ bad # {}
  OBVIOUS
<1>2. PICK m \in bad : \A k \in bad : m <= k
  BY <1>1, HasLeast
<1>3. m \in 0..n /\ m \notin P /\ m # 0
  OBVIOUS
<1>4. m - 1 \in 0..n /\ m - 1 < n /\ ~(m <= m - 1) /\ (m - 1) + 1 = m
  BY <1>3
<1>5. m - 1 \in P
  BY <1>2, <1>4
<1> QED
  BY <1>3, <1>4, <1>5

\* The partial sums of n rows.
SumsOf(g, n, f) ==
  /\ g \in [0..n -> Nat] /\ g[0] = 0
  /\ \A k \in 1..n : g[k] = g[k - 1] + f[k]

\* The partial sums exist.
LEMMA SumsExist ==
  ASSUME NEW n \in Nat, NEW f, \A i \in 1..n : f[i] \in Nat
  PROVE  \E g : SumsOf(g, n, f)
<1> DEFINE P == {k \in 0..n : \E g : SumsOf(g, k, f)}
<1>1. 0 \in P
  <2>1. SumsOf([j \in 0..0 |-> 0], 0, f)
    BY DEF SumsOf
  <2> QED
    BY <2>1
<1>2. ASSUME NEW k \in 0..n, k \in P, k < n PROVE k + 1 \in P
  <2>1. PICK g : SumsOf(g, k, f)
    BY <1>2
  <2> DEFINE h == [j \in 0..(k + 1) |-> IF j <= k THEN g[j] ELSE g[k] + f[k + 1]]
  <2>2. k + 1 \in 1..n /\ f[k + 1] \in Nat /\ k \in 0..k
    BY <1>2
  <2>3. g \in [0..k -> Nat] /\ g[0] = 0 /\ \A j \in 1..k : g[j] = g[j - 1] + f[j]
    BY <2>1 DEF SumsOf
  <2>4. h \in [0..(k + 1) -> Nat]
    <3>1. ASSUME NEW j \in 0..(k + 1)
          PROVE  (IF j <= k THEN g[j] ELSE g[k] + f[k + 1]) \in Nat
      <4>1. CASE j <= k
        BY <4>1, <2>3
      <4>2. CASE ~(j <= k)
        BY <4>2, <2>2, <2>3
      <4> QED
        BY <4>1, <4>2
    <3> QED
      BY <3>1
  <2>5. h[0] = 0
    BY <2>3
  <2>6. ASSUME NEW j \in 1..(k + 1) PROVE h[j] = h[j - 1] + f[j]
    <3>1. CASE j <= k
      <4>1. j - 1 \in 0..k /\ j \in 1..k
        BY <3>1
      <4> QED
        BY <3>1, <4>1, <2>3
    <3>2. CASE j = k + 1
      BY <3>2
    <3> QED
      BY <3>1, <3>2
  <2> HIDE DEF h
  <2>7. SumsOf(h, k + 1, f)
    BY <2>4, <2>5, <2>6 DEF SumsOf
  <2> QED
    BY <2>2, <2>7
<1> HIDE DEF P
<1>3. 0..n \subseteq P
  BY <1>1, <1>2, Upward
<1>4. n \in P
  BY <1>3
<1> QED
  BY <1>4 DEF P

\* The counter is the last of the partial sums.
LEMMA TotalIsSum ==
  ASSUME NEW n \in Nat, NEW f, \A i \in 1..n : f[i] \in Nat
  PROVE  \E g : SumsOf(g, n, f) /\ Total(n, f) = g[n]
<1> DEFINE Def(g) == [k \in 0..n |-> IF k = 0 THEN 0 ELSE g[k - 1] + f[k]]
           s == CHOOSE g : g = Def(g)
<1>1. PICK g : SumsOf(g, n, f)
  BY SumsExist
<1>2. g = Def(g)
  BY <1>1 DEF SumsOf
<1>3. s = Def(s)
  BY <1>2
<1>4. Total(n, f) = s[n]
  BY DEF Total
<1> HIDE DEF s
<1>5. s[0] = 0 /\ \A k \in 1..n : s[k] = s[k - 1] + f[k]
  BY <1>3
<1>6. s = [k \in 0..n |-> s[k]]
  BY <1>3
<1>7. \A k \in 0..n : s[k] \in Nat
  <2> DEFINE P == {k \in 0..n : s[k] \in Nat}
  <2>1. 0 \in P
    BY <1>5
  <2>2. ASSUME NEW k \in 0..n, k \in P, k < n PROVE k + 1 \in P
    <3>1. k + 1 \in 1..n /\ (k + 1) - 1 = k
      BY <2>2
    <3>2. s[k + 1] = s[k] + f[k + 1]
      BY <3>1, <1>5
    <3> QED
      BY <2>2, <3>1, <3>2
  <2> HIDE DEF P
  <2>3. 0..n \subseteq P
    BY <2>1, <2>2, Upward
  <2> QED
    BY <2>3 DEF P
<1>8. SumsOf(s, n, f)
  BY <1>5, <1>6, <1>7 DEF SumsOf
<1> QED
  BY <1>4, <1>8

\* Larger rows, larger counter.
LEMMA TotalCompares ==
  ASSUME NEW n \in Nat, NEW f, NEW h,
         \A i \in 1..n : f[i] \in Nat /\ h[i] \in Nat /\ f[i] <= h[i]
  PROVE  Total(n, f) \in Nat /\ Total(n, h) \in Nat /\ Total(n, f) <= Total(n, h)
<1>1. PICK a : SumsOf(a, n, f) /\ Total(n, f) = a[n]
  BY TotalIsSum
<1>2. PICK b : SumsOf(b, n, h) /\ Total(n, h) = b[n]
  BY TotalIsSum
<1> DEFINE P == {k \in 0..n : a[k] <= b[k]}
<1>3. 0 \in P
  BY <1>1, <1>2 DEF SumsOf
<1>4. ASSUME NEW k \in 0..n, k \in P, k < n PROVE k + 1 \in P
  <2>1. k + 1 \in 1..n /\ (k + 1) - 1 = k
    BY <1>4
  <2>2. a[k + 1] = a[k] + f[k + 1] /\ b[k + 1] = b[k] + h[k + 1]
    BY <2>1, <1>1, <1>2 DEF SumsOf
  <2>3. a[k] \in Nat /\ b[k] \in Nat
    BY <1>1, <1>2 DEF SumsOf
  <2> QED
    BY <1>4, <2>1, <2>2, <2>3
<1>5. 0..n \subseteq P
  <2> HIDE DEF P
  <2> QED
    BY <1>3, <1>4, Upward
<1>6. a[n] <= b[n] /\ a[n] \in Nat /\ b[n] \in Nat
  BY <1>5, <1>1, <1>2 DEF SumsOf
<1> QED
  BY <1>1, <1>2, <1>6

\* Rows that add up, counters that add up.
LEMMA TotalAdds ==
  ASSUME NEW n \in Nat, NEW f, NEW h, NEW e,
         \A i \in 1..n : h[i] \in Nat /\ e[i] \in Nat /\ f[i] = h[i] + e[i]
  PROVE  Total(n, f) = Total(n, h) + Total(n, e)
<1>0. \A i \in 1..n : f[i] \in Nat
  OBVIOUS
<1>1. PICK a : SumsOf(a, n, f) /\ Total(n, f) = a[n]
  BY <1>0, TotalIsSum
<1>2. PICK b : SumsOf(b, n, h) /\ Total(n, h) = b[n]
  BY TotalIsSum
<1>3. PICK c : SumsOf(c, n, e) /\ Total(n, e) = c[n]
  BY TotalIsSum
<1> DEFINE P == {k \in 0..n : a[k] = b[k] + c[k]}
<1>4. 0 \in P
  BY <1>1, <1>2, <1>3 DEF SumsOf
<1>5. ASSUME NEW k \in 0..n, k \in P, k < n PROVE k + 1 \in P
  <2>1. k + 1 \in 1..n /\ (k + 1) - 1 = k
    BY <1>5
  <2>2. /\ a[k + 1] = a[k] + f[k + 1] /\ b[k + 1] = b[k] + h[k + 1]
        /\ c[k + 1] = c[k] + e[k + 1]
    BY <2>1, <1>1, <1>2, <1>3 DEF SumsOf
  <2>3. a[k] \in Nat /\ b[k] \in Nat /\ c[k] \in Nat
    BY <1>1, <1>2, <1>3 DEF SumsOf
  <2> QED
    BY <1>5, <2>1, <2>2, <2>3
<1>6. 0..n \subseteq P
  <2> HIDE DEF P
  <2> QED
    BY <1>4, <1>5, Upward
<1> QED
  BY <1>1, <1>2, <1>3, <1>6

\* One more row.
LEMMA TotalGrows ==
  ASSUME NEW n \in Nat, NEW f, NEW h,
         \A i \in 1..n : f[i] \in Nat /\ h[i] = f[i], h[n + 1] \in Nat
  PROVE  /\ Total(n, f) \in Nat
         /\ Total(n + 1, h) = Total(n, f) + h[n + 1]
<1>0. n + 1 \in Nat /\ \A i \in 1..(n + 1) : h[i] \in Nat
  OBVIOUS
<1>1. PICK a : SumsOf(a, n, f) /\ Total(n, f) = a[n]
  BY TotalIsSum
<1>2. PICK b : SumsOf(b, n + 1, h) /\ Total(n + 1, h) = b[n + 1]
  BY <1>0, TotalIsSum
<1> DEFINE P == {k \in 0..n : a[k] = b[k]}
<1>3. 0 \in P
  BY <1>1, <1>2 DEF SumsOf
<1>4. ASSUME NEW k \in 0..n, k \in P, k < n PROVE k + 1 \in P
  <2>1. k + 1 \in 1..n /\ k + 1 \in 1..(n + 1) /\ (k + 1) - 1 = k
    BY <1>4
  <2>2. a[k + 1] = a[k] + f[k + 1] /\ b[k + 1] = b[k] + h[k + 1]
    BY <2>1, <1>1, <1>2 DEF SumsOf
  <2> QED
    BY <1>4, <2>1, <2>2
<1>5. 0..n \subseteq P
  <2> HIDE DEF P
  <2> QED
    BY <1>3, <1>4, Upward
<1>6. n + 1 \in 1..(n + 1) /\ (n + 1) - 1 = n /\ n \in 0..n
  OBVIOUS
<1>7. b[n + 1] = b[n] + h[n + 1] /\ a[n] = b[n] /\ a[n] \in Nat
  BY <1>1, <1>2, <1>5, <1>6 DEF SumsOf
<1> QED
  BY <1>1, <1>2, <1>7
-----------------------------------------------------------------------------
(* The quota. *)

\* The tables of the proof, of any usage rows.
CountsOf(u, S) == [i \in 1..Len(u) |-> IF i \in S THEN u[i].count ELSE 0]
HeldRow(r) == Smaller(Effective(r), r.tokens)
HeldsOf(u, S) == [i \in 1..Len(u) |-> IF i \in S THEN HeldRow(u[i]) ELSE 0]
RecentOf(u, a, t) ==
  {i \in 1..Len(u) : u[i].account = a /\ t - WINDOW < u[i].at /\ u[i].at <= t}
BeforeOf(u, i) ==
  {k \in 1..Len(u) : /\ u[k].account = u[i].account
                     /\ u[k].at \div DAY = u[i].at \div DAY /\ k <= i}
RequestsOf(u, S) == Total(Len(u), CountsOf(u, S))
HeldOf(u, S) == Total(Len(u), HeldsOf(u, S))

Open(l) == lane[l].pc \in {"reserved", "attempted"}

\* No row is later than the clock.
PastRows == \A i \in Rows : usage[i].at <= now
\* No trailing minute that has ended holds more than RPM requests.
MinutesKept ==
  \A a \in Accounts : \A t \in 0..now : RequestsOf(usage, RecentOf(usage, a, t)) <= RPM
\* What the rows of the minute hold of their estimates is within TPM.
EstimatesKept ==
  \A a \in Accounts : HeldOf(usage, RecentOf(usage, a, now)) <= TPM
\* The day's limits, as of each admission.
DaysKept ==
  \A i \in Rows :
    /\ RequestsOf(usage, BeforeOf(usage, i))
         <= IF usage[i].urgent \/ ~usage[i].reserved THEN DAILY ELSE DAILY - RESERVE
    /\ usage[i].work = "CONTRACT_BACKFILL"
         => RequestsOf(usage, BeforeOf(usage, i)) <= DAILY - FORECAST - HEADROOM
\* A request in flight has a row of its own, still open.
OpenRows ==
  \A l \in Lanes : Open(l) =>
    /\ lane[l].usage \in Rows /\ usage[lane[l].usage].outcome = "none"
    /\ \A m \in Lanes : m # l /\ Open(m) => lane[m].usage # lane[l].usage

QuotaInv == PastRows /\ MinutesKept /\ EstimatesKept /\ DaysKept /\ OpenRows

\* What a typed table says of its rows.
LEMMA RowFacts ==
  ASSUME NEW u \in Seq(UsageRec)
  PROVE  /\ Len(u) \in Nat
         /\ \A i \in 1..Len(u) :
              /\ u[i].count \in Nat /\ u[i].tokens \in Nat /\ u[i].at \in Nat
              /\ u[i].reported \in Nat /\ u[i].account \in Accounts
              /\ Effective(u[i]) \in Nat /\ HeldRow(u[i]) \in Nat
              /\ HeldRow(u[i]) <= u[i].tokens
<1>1. Len(u) \in Nat /\ \A i \in 1..Len(u) : u[i] \in UsageRec
  OBVIOUS
<1>2. ASSUME NEW r \in UsageRec
      PROVE  /\ r.count \in Nat /\ r.tokens \in Nat /\ r.at \in Nat
             /\ r.reported \in Nat /\ r.account \in Accounts
  BY DEF UsageRec
<1>3. ASSUME NEW r \in UsageRec
      PROVE  Effective(r) \in Nat /\ HeldRow(r) \in Nat /\ HeldRow(r) <= r.tokens
  BY <1>2 DEF Effective, HeldRow, Smaller
<1> QED
  BY <1>1, <1>2, <1>3

\* The sums of the model are the sums of the tables.
LEMMA SumsAgree ==
  ASSUME NEW S
  PROVE  Requests(S) = RequestsOf(usage, S)
  BY DEF Requests, RequestsOf, CountsOf, Rows

\* Fewer rows, fewer requests.
LEMMA FewerRequests ==
  ASSUME NEW u \in Seq(UsageRec), NEW S, NEW T, S \subseteq T
  PROVE  /\ RequestsOf(u, S) \in Nat /\ RequestsOf(u, T) \in Nat
         /\ RequestsOf(u, S) <= RequestsOf(u, T)
<1> DEFINE f == CountsOf(u, S)
           h == CountsOf(u, T)
<1>1. Len(u) \in Nat
  BY RowFacts
<1>2. \A i \in 1..Len(u) : f[i] \in Nat /\ h[i] \in Nat /\ f[i] <= h[i]
  BY RowFacts DEF CountsOf
<1> HIDE DEF f, h
<1>3. Total(Len(u), f) \in Nat /\ Total(Len(u), h) \in Nat /\ Total(Len(u), f) <= Total(Len(u), h)
  BY <1>1, <1>2, TotalCompares
<1> QED
  BY <1>3 DEF RequestsOf, f, h

\* Rows that agree on their counts have the same sums.
LEMMA SameRequests ==
  ASSUME NEW u \in Seq(UsageRec), NEW v, Len(v) = Len(u), NEW S,
         \A i \in 1..Len(u) : v[i].count = u[i].count
  PROVE  RequestsOf(v, S) = RequestsOf(u, S)
<1>1. CountsOf(v, S) = CountsOf(u, S)
  BY DEF CountsOf
<1> QED
  BY <1>1 DEF RequestsOf

\* Less held by fewer or shorter rows.
LEMMA LessHeld ==
  ASSUME NEW u \in Seq(UsageRec), NEW v \in Seq(UsageRec), Len(v) = Len(u),
         NEW S, NEW T, S \subseteq T,
         \A i \in 1..Len(u) : HeldRow(v[i]) <= HeldRow(u[i])
  PROVE  /\ HeldOf(v, S) \in Nat /\ HeldOf(u, T) \in Nat
         /\ HeldOf(v, S) <= HeldOf(u, T)
<1> DEFINE f == HeldsOf(v, S)
           h == HeldsOf(u, T)
<1>1. Len(u) \in Nat
  BY RowFacts
<1>2. \A i \in 1..Len(u) : f[i] \in Nat /\ h[i] \in Nat /\ f[i] <= h[i]
  BY RowFacts DEF HeldsOf
<1> HIDE DEF f, h
<1>3. Total(Len(u), f) \in Nat /\ Total(Len(u), h) \in Nat /\ Total(Len(u), f) <= Total(Len(u), h)
  BY <1>1, <1>2, TotalCompares
<1> QED
  BY <1>3 DEF HeldOf, f, h

\* A new row adds to the sums it belongs to.
LEMMA AppendedRequests ==
  ASSUME NEW u \in Seq(UsageRec), NEW r \in UsageRec, NEW S
  PROVE  /\ RequestsOf(u, S) \in Nat
         /\ RequestsOf(Append(u, r), S)
              = RequestsOf(u, S) + (IF Len(u) + 1 \in S THEN r.count ELSE 0)
<1> DEFINE n == Len(u)
           v == Append(u, r)
           f == CountsOf(u, S)
           h == CountsOf(v, S)
<1>1. n \in Nat /\ Len(v) = n + 1 /\ v[n + 1] = r /\ \A i \in 1..n : v[i] = u[i]
  <2>1. n \in Nat /\ Len(v) = n + 1
    OBVIOUS
  <2>2. v[n + 1] = r
    OBVIOUS
  <2>3. \A i \in 1..n : v[i] = u[i]
    OBVIOUS
  <2> QED
    BY <2>1, <2>2, <2>3
<1>2. \A i \in 1..n : f[i] \in Nat /\ h[i] = f[i]
  BY <1>1, RowFacts DEF CountsOf
<1>3. h[n + 1] = IF n + 1 \in S THEN r.count ELSE 0
  <2>1. n + 1 \in 1..Len(v)
    BY <1>1
  <2> HIDE DEF v
  <2> QED
    BY <1>1, <2>1 DEF CountsOf
<1>4. h[n + 1] \in Nat
  <2>1. r.count \in Nat
    BY DEF UsageRec
  <2> QED
    BY <1>3, <2>1
<1>5. RequestsOf(u, S) = Total(n, f) /\ RequestsOf(v, S) = Total(n + 1, h)
  BY <1>1 DEF RequestsOf
<1> HIDE DEF n, v, f, h
<1>6. Total(n, f) \in Nat /\ Total(n + 1, h) = Total(n, f) + h[n + 1]
  BY <1>1, <1>2, <1>4, TotalGrows
<1> QED
  BY <1>3, <1>5, <1>6 DEF n, v

\* The same of the estimates it holds.
LEMMA AppendedHeld ==
  ASSUME NEW u \in Seq(UsageRec), NEW r \in UsageRec, NEW S
  PROVE  /\ HeldOf(u, S) \in Nat
         /\ HeldOf(Append(u, r), S)
              = HeldOf(u, S) + (IF Len(u) + 1 \in S THEN HeldRow(r) ELSE 0)
<1> DEFINE n == Len(u)
           v == Append(u, r)
           f == HeldsOf(u, S)
           h == HeldsOf(v, S)
<1>1. n \in Nat /\ Len(v) = n + 1 /\ v[n + 1] = r /\ \A i \in 1..n : v[i] = u[i]
  <2>1. n \in Nat /\ Len(v) = n + 1
    OBVIOUS
  <2>2. v[n + 1] = r
    OBVIOUS
  <2>3. \A i \in 1..n : v[i] = u[i]
    OBVIOUS
  <2> QED
    BY <2>1, <2>2, <2>3
<1>2. \A i \in 1..n : f[i] \in Nat /\ h[i] = f[i]
  BY <1>1, RowFacts DEF HeldsOf
<1>3. h[n + 1] = IF n + 1 \in S THEN HeldRow(r) ELSE 0
  <2>1. n + 1 \in 1..Len(v)
    BY <1>1
  <2> HIDE DEF v
  <2> QED
    BY <1>1, <2>1 DEF HeldsOf
<1>4. h[n + 1] \in Nat
  <2>1. HeldRow(r) \in Nat
    BY DEF HeldRow, Smaller, Effective, UsageRec
  <2> QED
    BY <1>3, <2>1
<1>5. HeldOf(u, S) = Total(n, f) /\ HeldOf(v, S) = Total(n + 1, h)
  BY <1>1 DEF HeldOf
<1> HIDE DEF n, v, f, h
<1>6. Total(n, f) \in Nat /\ Total(n + 1, h) = Total(n, f) + h[n + 1]
  BY <1>1, <1>2, <1>4, TotalGrows
<1> QED
  BY <1>3, <1>5, <1>6 DEF n, v

\* A step that changes no row and opens none keeps the quota.
LEMMA QuietQuota ==
  ASSUME TypeOK, TypeOK', QuotaInv, usage' = usage, now <= now',
         \A l \in Lanes : Open(l)' => Open(l) /\ lane'[l].usage = lane[l].usage
  PROVE  QuotaInv'
<1>0. /\ usage \in Seq(UsageRec) /\ now \in Nat /\ now' \in Nat
      /\ Len(usage) \in Nat
      /\ \A i \in 1..Len(usage) : usage[i].at \in Nat /\ usage[i].at <= now
  <2>1. usage \in Seq(UsageRec) /\ now \in Nat /\ now' \in Nat
    BY DEF TypeOK, UsageRec
  <2> QED
    BY <2>1, RowFacts DEF QuotaInv, PastRows, Rows
<1>1. PastRows'
  BY <1>0 DEF PastRows, Rows
<1>2. MinutesKept'
  <2> SUFFICES ASSUME NEW a \in Accounts, NEW t \in 0..now'
               PROVE  RequestsOf(usage, RecentOf(usage, a, t)) <= RPM
    BY DEF MinutesKept
  <2>1. CASE t <= now
    BY <1>0, <2>1 DEF QuotaInv, MinutesKept
  <2>2. CASE ~(t <= now)
    <3>1. RecentOf(usage, a, t) \subseteq RecentOf(usage, a, now)
      BY <1>0, <2>2, AdmissionAssumption DEF RecentOf
    <3>2. RequestsOf(usage, RecentOf(usage, a, now)) <= RPM
      BY <1>0 DEF QuotaInv, MinutesKept
    <3>3. RPM \in Nat
      BY AdmissionAssumption
    <3>4. /\ RequestsOf(usage, RecentOf(usage, a, t)) \in Nat
          /\ RequestsOf(usage, RecentOf(usage, a, now)) \in Nat
          /\ RequestsOf(usage, RecentOf(usage, a, t))
               <= RequestsOf(usage, RecentOf(usage, a, now))
      BY <1>0, <3>1, FewerRequests
    <3> QED
      BY <3>2, <3>3, <3>4
  <2> QED
    BY <2>1, <2>2
<1>3. EstimatesKept'
  <2> SUFFICES ASSUME NEW a \in Accounts
               PROVE  HeldOf(usage, RecentOf(usage, a, now')) <= TPM
    BY DEF EstimatesKept
  <2>1. RecentOf(usage, a, now') \subseteq RecentOf(usage, a, now)
    BY <1>0, AdmissionAssumption DEF RecentOf
  <2>2. HeldOf(usage, RecentOf(usage, a, now)) <= TPM
    BY DEF QuotaInv, EstimatesKept
  <2>3. TPM \in Nat
    BY AdmissionAssumption
  <2>4. \A i \in 1..Len(usage) : HeldRow(usage[i]) <= HeldRow(usage[i])
    BY <1>0, RowFacts
  <2>5. /\ HeldOf(usage, RecentOf(usage, a, now')) \in Nat
        /\ HeldOf(usage, RecentOf(usage, a, now)) \in Nat
        /\ HeldOf(usage, RecentOf(usage, a, now'))
             <= HeldOf(usage, RecentOf(usage, a, now))
    BY <1>0, <2>1, <2>4, LessHeld
  <2> QED
    BY <2>2, <2>3, <2>5
<1>4. DaysKept'
  BY DEF QuotaInv, DaysKept, Rows
<1>5. OpenRows'
  BY DEF QuotaInv, OpenRows, Rows
<1> QED
  BY <1>1, <1>2, <1>3, <1>4, <1>5 DEF QuotaInv

\* An answer closes its own row: the counts stay, and the row holds no more.
LEMMA OutcomeQuota ==
  ASSUME TypeOK, TypeOK', QuotaInv, NEW l \in Lanes, NEW o, NEW reported, NEW retry,
         RecordOutcome(l, o, reported, retry)
  PROVE  QuotaInv'
<1> DEFINE i == lane[l].usage
<1>0. /\ usage \in Seq(UsageRec) /\ usage' \in Seq(UsageRec) /\ now \in Nat
      /\ Len(usage) \in Nat /\ now' = now
      /\ lane \in [Lanes -> LaneRec]
  <2>1. usage \in Seq(UsageRec) /\ usage' \in Seq(UsageRec) /\ now \in Nat
        /\ lane \in [Lanes -> LaneRec]
    BY DEF TypeOK, UsageRec, LaneRec
  <2> QED
    BY <2>1, RowFacts DEF RecordOutcome
<1>1. Open(l) /\ i \in 1..Len(usage) /\ usage[i].outcome = "none"
  BY DEF RecordOutcome, Open, QuotaInv, OpenRows, Rows
<1> DEFINE v == [usage[i] EXCEPT !.outcome = o, !.reported = reported]
<1>2. usage' = [usage EXCEPT ![i] = v]
  BY DEF RecordOutcome
<1>3. /\ Len(usage') = Len(usage)
      /\ \A k \in 1..Len(usage) : k # i => usage'[k] = usage[k]
      /\ usage'[i] = v
  <2> HIDE DEF v
  <2> QED
    BY <1>0, <1>1, <1>2
<1>4. usage[i] \in UsageRec
  BY <1>0, <1>1
<1> HIDE DEF i
<1>5. /\ usage'[i].account = usage[i].account /\ usage'[i].count = usage[i].count
      /\ usage'[i].tokens = usage[i].tokens /\ usage'[i].at = usage[i].at
      /\ usage'[i].urgent = usage[i].urgent /\ usage'[i].reserved = usage[i].reserved
      /\ usage'[i].work = usage[i].work
  BY <1>3, <1>4 DEF UsageRec
<1>6. \A k \in 1..Len(usage) :
        /\ usage'[k].account = usage[k].account /\ usage'[k].count = usage[k].count
        /\ usage'[k].at = usage[k].at /\ usage'[k].urgent = usage[k].urgent
        /\ usage'[k].reserved = usage[k].reserved /\ usage'[k].work = usage[k].work
  BY <1>3, <1>5
<1>7. \A k \in 1..Len(usage) : HeldRow(usage'[k]) <= HeldRow(usage[k])
  <2> SUFFICES ASSUME NEW k \in 1..Len(usage)
               PROVE  HeldRow(usage'[k]) <= HeldRow(usage[k])
    OBVIOUS
  <2>0. HeldRow(usage[k]) \in Nat
    BY <1>0, RowFacts
  <2>1. CASE k # i
    BY <2>0, <2>1, <1>3
  <2>2. CASE k = i
    <3>1. HeldRow(usage'[i]) <= usage'[i].tokens
      BY <1>0, <1>1, <1>3, <2>2, RowFacts
    <3>2. usage[i].tokens \in Nat
      BY <1>4 DEF UsageRec
    <3>3. HeldRow(usage[i]) = usage[i].tokens
      BY <1>1, <3>2 DEF HeldRow, Effective, Smaller
    <3> QED
      BY <2>2, <3>1, <3>3, <1>5
  <2> QED
    BY <2>1, <2>2
<1>8. \A S : RequestsOf(usage', S) = RequestsOf(usage, S)
  <2> SUFFICES ASSUME NEW S PROVE RequestsOf(usage', S) = RequestsOf(usage, S)
    OBVIOUS
  <2> QED
    BY <1>0, <1>3, <1>6, SameRequests
<1>9. \A a, t : RecentOf(usage', a, t) = RecentOf(usage, a, t)
  BY <1>3, <1>6 DEF RecentOf
<1>10. \A k \in 1..Len(usage) : BeforeOf(usage', k) = BeforeOf(usage, k)
  <2> SUFFICES ASSUME NEW k \in 1..Len(usage)
               PROVE  BeforeOf(usage', k) = BeforeOf(usage, k)
    OBVIOUS
  <2> QED
    BY <1>3, <1>6 DEF BeforeOf
<1>11. PastRows'
  BY <1>0, <1>3, <1>6 DEF QuotaInv, PastRows, Rows
<1>12. MinutesKept'
  BY <1>0, <1>8, <1>9 DEF QuotaInv, MinutesKept
<1>13. EstimatesKept'
  <2> SUFFICES ASSUME NEW a \in Accounts
               PROVE  HeldOf(usage', RecentOf(usage, a, now)) <= TPM
    BY <1>0, <1>9 DEF EstimatesKept
  <2> DEFINE S == RecentOf(usage, a, now)
  <2>1. HeldOf(usage, S) <= TPM
    BY DEF QuotaInv, EstimatesKept
  <2> HIDE DEF S
  <2>2. S \subseteq S
    OBVIOUS
  <2>3. /\ HeldOf(usage', S) \in Nat /\ HeldOf(usage, S) \in Nat
        /\ HeldOf(usage', S) <= HeldOf(usage, S)
    BY <1>0, <1>3, <1>7, <2>2, LessHeld
  <2>4. TPM \in Nat
    BY AdmissionAssumption
  <2> QED
    BY <2>1, <2>3, <2>4 DEF S
<1>14. DaysKept'
  BY <1>3, <1>6, <1>8, <1>10 DEF QuotaInv, DaysKept, Rows
<1>15. OpenRows'
  <2> SUFFICES ASSUME NEW m \in Lanes, Open(m)'
               PROVE  /\ lane'[m].usage \in Rows' /\ usage'[lane'[m].usage].outcome = "none"
                      /\ \A p \in Lanes : p # m /\ Open(p)' => lane'[p].usage # lane'[m].usage
    BY DEF OpenRows
  <2>1. \A p \in Lanes : Open(p)' => p # l /\ lane'[p] = lane[p] /\ Open(p)
    <3>1. lane' = [lane EXCEPT ![l].pc = "answered", ![l].at = now,
                          ![l].outcome = o, ![l].retry = retry]
      BY DEF RecordOutcome
    <3>2. lane'[l].pc = "answered" /\ \A p \in Lanes : p # l => lane'[p] = lane[p]
      <4>1. lane[l] \in LaneRec
        BY <1>0
      <4>2. lane'[l] = [lane[l] EXCEPT !.pc = "answered", !.at = now,
                          !.outcome = o, !.retry = retry]
        BY <1>0, <3>1
      <4>3. lane'[l].pc = "answered"
        BY <4>1, <4>2 DEF LaneRec
      <4> QED
        BY <1>0, <3>1, <4>3
    <3> QED
      BY <3>2 DEF Open
  <2>2. /\ lane[m].usage \in 1..Len(usage) /\ usage[lane[m].usage].outcome = "none"
        /\ \A p \in Lanes : p # m /\ Open(p) => lane[p].usage # lane[m].usage
    BY <2>1 DEF QuotaInv, OpenRows, Rows
  <2>3. lane[m].usage # i
    BY <2>1, <2>2, <1>1 DEF i
  <2> QED
    BY <2>1, <2>2, <2>3, <1>3 DEF Rows
<1> QED
  BY <1>11, <1>12, <1>13, <1>14, <1>15 DEF QuotaInv

\* What admission checks: the minute, the day, and the room backfill must leave.
LEMMA AdmittedWithin ==
  ASSUME TypeOK, NEW q \in Asks, QuotaAdmits(q)
  PROVE  LET recent == RecentOf(usage, q.account, now)
             today == Today(q.account, now)
         IN /\ RequestsOf(usage, recent) + q.count <= RPM
            /\ HeldOf(usage, recent) + q.tokens <= TPM
            /\ RequestsOf(usage, today) + q.count
                 <= IF q.urgent \/ ~q.reserved THEN DAILY ELSE DAILY - RESERVE
            /\ q.work = "CONTRACT_BACKFILL" =>
                 RequestsOf(usage, today) + q.count <= DAILY - FORECAST - HEADROOM
<1> DEFINE recent == RecentOf(usage, q.account, now)
           today == Today(q.account, now)
<1>0. /\ usage \in Seq(UsageRec) /\ now \in Nat /\ Len(usage) \in Nat
      /\ q.count \in Nat /\ q.count >= 1 /\ q.tokens \in Nat
      /\ RPM \in Nat /\ TPM \in Nat /\ DAILY \in Nat
      /\ RESERVE \in Nat /\ FORECAST \in Nat /\ HEADROOM \in Nat
  <2>1. usage \in Seq(UsageRec) /\ now \in Nat
    BY DEF TypeOK, UsageRec
  <2>2. q.count \in Nat \ {0} /\ q.tokens \in Nat
    BY AdmissionAssumption
  <2> QED
    BY <2>1, <2>2, RowFacts, AdmissionAssumption
<1>1. Recent(q.account, now) = recent
  BY DEF Recent, RecentOf, Rows
<1>2. recent \subseteq recent /\ today \subseteq today
  OBVIOUS
<1> HIDE DEF recent, today
<1>3. RequestsOf(usage, recent) \in Nat /\ RequestsOf(usage, today) \in Nat
  BY <1>0, <1>2, FewerRequests
<1>4. RequestsOf(usage, recent) + q.count <= RPM
  BY <1>1, SumsAgree DEF QuotaAdmits, MinuteAdmits
<1>5. HeldOf(usage, recent) + q.tokens <= TPM
  <2> DEFINE f == HeldsOf(usage, recent)
             h == [i \in Rows |-> IF i \in recent THEN Effective(usage[i]) ELSE 0]
  <2>1. \A i \in 1..Len(usage) : f[i] \in Nat /\ h[i] \in Nat /\ f[i] <= h[i]
    BY <1>0, RowFacts DEF HeldsOf, HeldRow, Smaller, Rows
  <2>2. HeldOf(usage, recent) = Total(Len(usage), f) /\ Tokens(recent) = Total(Len(usage), h)
    BY DEF HeldOf, Tokens
  <2> HIDE DEF f, h
  <2>3. /\ Total(Len(usage), f) \in Nat /\ Total(Len(usage), h) \in Nat
        /\ Total(Len(usage), f) <= Total(Len(usage), h)
    BY <1>0, <2>1, TotalCompares
  <2>4. Tokens(recent) + q.tokens <= TPM
    BY <1>1 DEF QuotaAdmits, MinuteAdmits
  <2> QED
    BY <1>0, <2>2, <2>3, <2>4
<1>6. RequestsOf(usage, today) + q.count <= UsableDaily(q)
  BY SumsAgree DEF QuotaAdmits, today
<1>7. RequestsOf(usage, today) + q.count
        <= IF q.urgent \/ ~q.reserved THEN DAILY ELSE DAILY - RESERVE
  BY <1>0, <1>3, <1>6 DEF UsableDaily, Larger
<1>8. ASSUME q.work = "CONTRACT_BACKFILL"
      PROVE  RequestsOf(usage, today) + q.count <= DAILY - FORECAST - HEADROOM
  <2>1. SafeBudget(q.account) >= q.count
    BY <1>8 DEF QuotaAdmits, BackfillAdmits
  <2>2. SafeBudget(q.account)
          = Larger(0, Larger(0, DAILY - RequestsOf(usage, today)) - FORECAST - HEADROOM)
    BY SumsAgree DEF SafeBudget, today
  <2> QED
    BY <1>0, <1>3, <2>1, <2>2 DEF Larger
<1> QED
  BY <1>4, <1>5, <1>7, <1>8 DEF recent, today

\* An admission within the limits leaves them kept.
LEMMA ReserveQuota ==
  ASSUME TypeOK, TypeOK', QuotaInv, NEW l \in Lanes, NEW q \in Asks, Reserve(l, q)
  PROVE  QuotaInv'
<1> DEFINE r == [account |-> q.account, class |-> q.class, count |-> q.count,
        tokens |-> q.tokens, urgent |-> q.urgent, reserved |-> q.reserved,
        work |-> q.work, at |-> now, gap |-> interval,
        outcome |-> "none", reported |-> 0]
           n == Len(usage)
<1>0. /\ usage \in Seq(UsageRec) /\ now \in Nat /\ now' = now /\ n \in Nat
      /\ lane \in [Lanes -> LaneRec] /\ interval \in Nat
      /\ \A i \in 1..n : usage[i].at \in Nat /\ usage[i].at <= now
  <2>1. usage \in Seq(UsageRec) /\ now \in Nat /\ lane \in [Lanes -> LaneRec]
        /\ interval \in Nat
    BY AdmissionAssumption DEF TypeOK, UsageRec, LaneRec
  <2> QED
    BY <2>1, RowFacts DEF Reserve, QuotaInv, PastRows, Rows
<1>1. r \in UsageRec /\ q.tokens \in Nat /\ q.count \in Nat
  <2>1. /\ q.account \in Accounts /\ q.class \in Classes /\ q.count \in Nat
        /\ q.tokens \in Nat /\ q.urgent \in BOOLEAN /\ q.reserved \in BOOLEAN
        /\ q.work \in WORKLOADS
    BY AdmissionAssumption
  <2> QED
    BY <1>0, <2>1 DEF UsageRec
<1>2. usage' = Append(usage, r)
  BY DEF Reserve
<1>3. /\ r.account = q.account /\ r.count = q.count /\ r.tokens = q.tokens
      /\ r.urgent = q.urgent /\ r.reserved = q.reserved /\ r.work = q.work
      /\ r.at = now /\ r.outcome = "none"
  OBVIOUS
<1>4. HeldRow(r) = q.tokens
  BY <1>1, <1>3 DEF HeldRow, Effective, Smaller
<1> HIDE DEF r
<1>5. /\ Len(usage') = n + 1 /\ usage'[n + 1] = r
      /\ \A i \in 1..n : usage'[i] = usage[i]
  BY <1>0, <1>2
<1> HIDE DEF n
<1>6. /\ \A S : RequestsOf(usage, S) \in Nat /\ HeldOf(usage, S) \in Nat
      /\ \A S : RequestsOf(usage', S)
                  = RequestsOf(usage, S) + (IF n + 1 \in S THEN q.count ELSE 0)
      /\ \A S : HeldOf(usage', S)
                  = HeldOf(usage, S) + (IF n + 1 \in S THEN q.tokens ELSE 0)
  BY <1>0, <1>1, <1>2, <1>3, <1>4, AppendedRequests, AppendedHeld DEF n
<1>7. QuotaAdmits(q)
  BY DEF Reserve
<1> DEFINE recent == RecentOf(usage, q.account, now)
           today == Today(q.account, now)
<1>8. /\ RequestsOf(usage, recent) + q.count <= RPM
      /\ HeldOf(usage, recent) + q.tokens <= TPM
      /\ RequestsOf(usage, today) + q.count
           <= IF q.urgent \/ ~q.reserved THEN DAILY ELSE DAILY - RESERVE
      /\ q.work = "CONTRACT_BACKFILL" =>
           RequestsOf(usage, today) + q.count <= DAILY - FORECAST - HEADROOM
  BY <1>7, AdmittedWithin
\* Rows that are not in the table count for nothing.
<1>9. \A S : RequestsOf(usage, S \cup {n + 1}) = RequestsOf(usage, S)
             /\ HeldOf(usage, S \cup {n + 1}) = HeldOf(usage, S)
  <2> SUFFICES ASSUME NEW S
               PROVE  RequestsOf(usage, S \cup {n + 1}) = RequestsOf(usage, S)
                      /\ HeldOf(usage, S \cup {n + 1}) = HeldOf(usage, S)
    OBVIOUS
  <2>1. \A i \in 1..Len(usage) : i # n + 1
    BY <1>0 DEF n
  <2>2. CountsOf(usage, S \cup {n + 1}) = CountsOf(usage, S)
    BY <2>1 DEF CountsOf
  <2>3. HeldsOf(usage, S \cup {n + 1}) = HeldsOf(usage, S)
    BY <2>1 DEF HeldsOf
  <2> QED
    BY <2>2, <2>3 DEF RequestsOf, HeldOf
\* The new row is in the minutes of its account that end now.
<1>10. ASSUME NEW a, NEW t \in 0..now
       PROVE  RecentOf(usage', a, t)
                = IF a = q.account /\ t = now
                  THEN RecentOf(usage, a, t) \cup {n + 1} ELSE RecentOf(usage, a, t)
  <2>1. 1..Len(usage') = 1..n \cup {n + 1} /\ n + 1 \notin 1..n
    BY <1>0, <1>5
  <2>2. usage'[n + 1].account = q.account /\ usage'[n + 1].at = now
    BY <1>3, <1>5
  <2>3. t - WINDOW < now /\ (now <= t <=> t = now)
    BY <1>0, AdmissionAssumption
  <2>3a. now - WINDOW < now
    BY <1>0, AdmissionAssumption
  <2>4. RecentOf(usage', a, t) =
          {k \in 1..n : usage[k].account = a /\ t - WINDOW < usage[k].at /\ usage[k].at <= t}
            \cup (IF a = q.account /\ t = now THEN {n + 1} ELSE {})
    <3> DEFINE w == t - WINDOW
    <3>1. w < now
      BY <2>3
    <3>2. RecentOf(usage', a, t)
            = {k \in 1..Len(usage') : usage'[k].account = a /\ w < usage'[k].at /\ usage'[k].at <= t}
      BY DEF RecentOf
    <3> HIDE DEF w
    <3>3. RecentOf(usage', a, t)
            = {k \in 1..n : usage[k].account = a /\ w < usage[k].at /\ usage[k].at <= t}
                \cup {k \in {n + 1} : a = q.account /\ t = now}
      BY <2>1, <2>2, <2>3, <3>1, <3>2, <1>5
    <3> QED
      BY <3>3 DEF w
  <2> QED
    BY <2>4 DEF RecentOf, n
<1>11. PastRows'
  BY <1>0, <1>3, <1>5 DEF PastRows, Rows
<1>12. MinutesKept'
  <2> SUFFICES ASSUME NEW a \in Accounts, NEW t \in 0..now
               PROVE  RequestsOf(usage', RecentOf(usage', a, t)) <= RPM
    BY <1>0 DEF MinutesKept
  <2>1. RequestsOf(usage, RecentOf(usage, a, t)) <= RPM
    BY DEF QuotaInv, MinutesKept
  <2>2. CASE a = q.account /\ t = now
    <3>1. RecentOf(usage', a, t) = recent \cup {n + 1}
      BY <1>10, <2>2
    <3>2. RequestsOf(usage', recent \cup {n + 1})
            = RequestsOf(usage, recent \cup {n + 1}) + q.count
      BY <1>6
    <3> QED
      BY <3>1, <3>2, <1>8, <1>9
  <2>3. CASE ~(a = q.account /\ t = now)
    <3>1. RecentOf(usage', a, t) = RecentOf(usage, a, t)
      BY <1>10, <2>3
    <3>2. n + 1 \notin RecentOf(usage, a, t)
      BY <1>0 DEF RecentOf, n
    <3>3. RequestsOf(usage', RecentOf(usage, a, t)) = RequestsOf(usage, RecentOf(usage, a, t)) + 0
      BY <1>6, <3>2
    <3>4. RequestsOf(usage, RecentOf(usage, a, t)) \in Nat
      BY <1>6
    <3> QED
      BY <2>1, <3>1, <3>3, <3>4
  <2> QED
    BY <2>2, <2>3
<1>13. EstimatesKept'
  <2> SUFFICES ASSUME NEW a \in Accounts
               PROVE  HeldOf(usage', RecentOf(usage', a, now)) <= TPM
    BY <1>0 DEF EstimatesKept
  <2>0. now \in 0..now
    BY <1>0
  <2>1. HeldOf(usage, RecentOf(usage, a, now)) <= TPM
    BY DEF QuotaInv, EstimatesKept
  <2>2. CASE a = q.account
    <3>1. RecentOf(usage', a, now) = recent \cup {n + 1}
      BY <1>10, <2>0, <2>2
    <3>2. HeldOf(usage', recent \cup {n + 1})
            = HeldOf(usage, recent \cup {n + 1}) + q.tokens
      BY <1>6
    <3> QED
      BY <3>1, <3>2, <1>8, <1>9
  <2>3. CASE a # q.account
    <3>1. RecentOf(usage', a, now) = RecentOf(usage, a, now)
      BY <1>10, <2>0, <2>3
    <3>2. n + 1 \notin RecentOf(usage, a, now)
      BY <1>0 DEF RecentOf, n
    <3>3. HeldOf(usage', RecentOf(usage, a, now)) = HeldOf(usage, RecentOf(usage, a, now)) + 0
      BY <1>6, <3>2
    <3>4. HeldOf(usage, RecentOf(usage, a, now)) \in Nat
      BY <1>6
    <3> QED
      BY <2>1, <3>1, <3>3, <3>4
  <2> QED
    BY <2>2, <2>3
<1>14. DaysKept'
  <2> SUFFICES ASSUME NEW i \in 1..(n + 1)
       PROVE  /\ RequestsOf(usage', BeforeOf(usage', i))
                   <= IF usage'[i].urgent \/ ~usage'[i].reserved THEN DAILY ELSE DAILY - RESERVE
              /\ usage'[i].work = "CONTRACT_BACKFILL"
                   => RequestsOf(usage', BeforeOf(usage', i)) <= DAILY - FORECAST - HEADROOM
    BY <1>5 DEF DaysKept, Rows
  <2>1. CASE i \in 1..n
    <3>1. BeforeOf(usage', i) = BeforeOf(usage, i)
      <4>0. n \in Nat /\ Len(usage') = n + 1 /\ Len(usage) = n
        BY <1>0, <1>5 DEF n
      <4>1. 1..Len(usage') = 1..n \cup {n + 1} /\ ~(n + 1 <= i) /\ Len(usage) = n
        BY <4>0, <2>1
      <4> QED
        BY <4>1, <1>5, <2>1 DEF BeforeOf
    <3>2. n + 1 \notin BeforeOf(usage, i)
      BY <1>0 DEF BeforeOf, n
    <3>3. RequestsOf(usage', BeforeOf(usage, i)) = RequestsOf(usage, BeforeOf(usage, i)) + 0
      BY <1>6, <3>2
    <3>4. RequestsOf(usage, BeforeOf(usage, i)) \in Nat
      BY <1>6
    <3>5. RequestsOf(usage', BeforeOf(usage', i)) = RequestsOf(usage, BeforeOf(usage, i))
      BY <3>1, <3>3, <3>4
    <3>6. usage'[i] = usage[i]
      BY <1>5, <2>1
    <3> QED
      BY <2>1, <3>5, <3>6 DEF QuotaInv, DaysKept, Rows, n
  <2>2. CASE i = n + 1
    <3>1. BeforeOf(usage', i) = today \cup {n + 1}
      <4>0. n \in Nat /\ Len(usage') = n + 1 /\ Len(usage) = n
        BY <1>0, <1>5 DEF n
      <4>1. 1..Len(usage') = 1..n \cup {n + 1} /\ n + 1 \notin 1..n /\ Len(usage) = n
            /\ \A k \in 1..(n + 1) : k <= n + 1
        BY <4>0
      <4>2. usage'[i].account = q.account /\ usage'[i].at = now
        BY <1>3, <1>5, <2>2
      <4>3. BeforeOf(usage', i) = {k \in 1..n : usage[k].account = q.account
                                       /\ usage[k].at \div DAY = now \div DAY} \cup {n + 1}
        BY <4>1, <4>2, <1>5, <2>2 DEF BeforeOf
      <4> QED
        BY <4>1, <4>3 DEF Today, Rows
    <3>2. RequestsOf(usage', today \cup {n + 1})
            = RequestsOf(usage, today \cup {n + 1}) + q.count
      BY <1>6
    <3>3. RequestsOf(usage', BeforeOf(usage', i)) = RequestsOf(usage, today) + q.count
      BY <3>1, <3>2, <1>9
    <3>4. /\ usage'[i].urgent = q.urgent /\ usage'[i].reserved = q.reserved
          /\ usage'[i].work = q.work
      BY <1>3, <1>5, <2>2
    <3> QED
      BY <3>3, <3>4, <1>8
  <2> QED
    BY <1>0, <2>1, <2>2
<1>15. OpenRows'
  <2>1. /\ lane'[l].usage = n + 1
        /\ \A m \in Lanes : m # l => lane'[m] = lane[m]
    BY <1>0 DEF Reserve, InFlight, n
  <2> SUFFICES ASSUME NEW m \in Lanes, Open(m)'
               PROVE  /\ lane'[m].usage \in 1..(n + 1)
                      /\ usage'[lane'[m].usage].outcome = "none"
                      /\ \A p \in Lanes : p # m /\ Open(p)' => lane'[p].usage # lane'[m].usage
    BY <1>5 DEF OpenRows, Rows
  <2>2. \A p \in Lanes : p # l /\ Open(p)' => Open(p) /\ lane[p].usage \in 1..n
    BY <2>1 DEF Open, QuotaInv, OpenRows, Rows, n
  <2>3. CASE m = l
    <3>1. usage'[n + 1].outcome = "none"
      BY <1>3, <1>5
    <3>2. n + 1 \in 1..(n + 1) /\ n + 1 \notin 1..n
      BY <1>0
    <3> QED
      BY <2>1, <2>2, <2>3, <3>1, <3>2
  <2>4. CASE m # l
    <3>1. /\ lane[m].usage \in 1..n /\ usage[lane[m].usage].outcome = "none"
          /\ \A p \in Lanes : p # m /\ Open(p) => lane[p].usage # lane[m].usage
      BY <2>1, <2>2, <2>4 DEF QuotaInv, OpenRows, Rows, n
    <3>2. lane[m].usage \in 1..(n + 1) /\ n + 1 # lane[m].usage
      BY <1>0, <3>1
    <3> QED
      BY <2>1, <2>2, <2>4, <3>1, <3>2, <1>5
  <2> QED
    BY <2>3, <2>4
<1> QED
  BY <1>11, <1>12, <1>13, <1>14, <1>15 DEF QuotaInv

\* Every step keeps the quota.
LEMMA StepQuota ==
  ASSUME TypeOK, TypeOK', QuotaInv, [Next]_vars
  PROVE  QuotaInv'
<1>0. now \in Nat /\ lane \in [Lanes -> LaneRec]
  BY DEF TypeOK, LaneRec
<1>1. ASSUME UNCHANGED <<usage, now, lane>> PROVE QuotaInv'
  <2>1. now <= now' /\ \A m \in Lanes : Open(m)' => Open(m) /\ lane'[m].usage = lane[m].usage
    BY <1>0, <1>1 DEF Open
  <2> QED
    BY <1>1, <2>1, QuietQuota
<1>2. ASSUME NEW l \in Lanes, UNCHANGED <<usage, now>>, lane' = [lane EXCEPT ![l] = Resting]
      PROVE  QuotaInv'
  <2>1. lane'[l].pc = "idle" /\ \A m \in Lanes : m # l => lane'[m] = lane[m]
    BY <1>0, <1>2 DEF Resting, InFlight
  <2>2. now <= now' /\ \A m \in Lanes : Open(m)' => Open(m) /\ lane'[m].usage = lane[m].usage
    BY <1>0, <1>2, <2>1 DEF Open
  <2> QED
    BY <1>2, <2>2, QuietQuota
<1>3. ASSUME NEW l \in Lanes, MarkAttempted(l) PROVE QuotaInv'
  <2>1. UNCHANGED <<usage, now>> /\ lane' = [lane EXCEPT ![l].pc = "attempted"]
        /\ lane[l].pc = "reserved"
    BY <1>3 DEF MarkAttempted
  <2>2. lane'[l].usage = lane[l].usage
    <3>1. lane[l] \in LaneRec /\ lane'[l] = [lane[l] EXCEPT !.pc = "attempted"]
      BY <1>0, <2>1
    <3> QED
      BY <3>1 DEF LaneRec
  <2>3. \A m \in Lanes : m # l => lane'[m] = lane[m]
    BY <1>0, <2>1
  <2>4. now <= now' /\ \A m \in Lanes : Open(m)' => Open(m) /\ lane'[m].usage = lane[m].usage
    BY <1>0, <2>1, <2>2, <2>3 DEF Open
  <2> QED
    BY <2>1, <2>4, QuietQuota
<1>4. CASE \E l \in Lanes : LaneStep(l)
  <2>1. PICK l \in Lanes : LaneStep(l)
    BY <1>4
  <2>2. CASE \E q \in Asks : Reserve(l, q)
    BY <2>2, ReserveQuota
  <2>3. CASE \E q \in Asks : DispatchDeferred(l, q)
    BY <1>1, <2>3 DEF DispatchDeferred
  <2>4. CASE MarkAttempted(l)
    BY <1>3, <2>4
  <2>5. CASE RecordPacing(l) \/ Crash(l)
    BY <1>2, <2>5 DEF RecordPacing, Crash
  <2>6. CASE \E o \in Answers, reported \in Reports, retry \in RetryAfters :
               RecordOutcome(l, o, reported, retry)
    BY <2>6, OutcomeQuota
  <2> QED
    BY <2>1, <2>2, <2>3, <2>4, <2>5, <2>6 DEF LaneStep
<1>5. CASE (\E c \in Classes : RegisterDemand(c)) \/ QueueChanges \/ UNCHANGED vars
  BY <1>1, <1>5 DEF RegisterDemand, QueueChanges, vars
<1>6. CASE Tick
  <2>1. UNCHANGED <<usage, lane>> /\ now < now' /\ now' \in Nat
    BY <1>6 DEF Tick, TypeOK
  <2>2. now <= now' /\ \A m \in Lanes : Open(m)' => Open(m) /\ lane'[m].usage = lane[m].usage
    BY <1>0, <2>1 DEF Open
  <2> QED
    BY <2>1, <2>2, QuietQuota
<1> QED
  BY <1>4, <1>5, <1>6 DEF Next

\* Nothing is used at the start.
LEMMA InitQuota == Init => QuotaInv
<1> SUFFICES ASSUME Init PROVE QuotaInv
  OBVIOUS
<1>1. usage = << >> /\ Len(usage) = 0 /\ now = 1 /\ Rows = {} /\ usage \in Seq(UsageRec)
  BY DEF Init, Rows
<1>2. /\ \A a, t : RecentOf(usage, a, t) = {}
  BY <1>1 DEF RecentOf
<1>3. Total(0, CountsOf(usage, {})) = 0 /\ Total(0, HeldsOf(usage, {})) = 0
  <2> SUFFICES ASSUME NEW f PROVE Total(0, f) = 0
    OBVIOUS
  <2>1. \A i \in 1..0 : f[i] \in Nat
    OBVIOUS
  <2>2. PICK g : SumsOf(g, 0, f) /\ Total(0, f) = g[0]
    BY <2>1, TotalIsSum
  <2> QED
    BY <2>2 DEF SumsOf
<1>4. PastRows /\ DaysKept
  BY <1>1 DEF PastRows, DaysKept
<1>5. MinutesKept /\ EstimatesKept
  <2>1. RequestsOf(usage, {}) = 0 /\ HeldOf(usage, {}) = 0
    BY <1>1, <1>3 DEF RequestsOf, HeldOf
  <2>2. RPM \in Nat /\ TPM \in Nat
    BY AdmissionAssumption
  <2> QED
    BY <1>2, <2>1, <2>2 DEF MinutesKept, EstimatesKept
<1>6. OpenRows
  BY DEF Init, OpenRows, Open, Resting, InFlight
<1> QED
  BY <1>4, <1>5, <1>6 DEF QuotaInv

\* What the invariant says of the limits.
LEMMA QuotaFollows ==
  ASSUME TypeOK, QuotaInv
  PROVE  QuotaKept
<1>0. /\ usage \in Seq(UsageRec) /\ now \in Nat /\ Len(usage) \in Nat
      /\ \A i \in 1..Len(usage) : usage[i].at \in 0..now /\ usage[i].account \in Accounts
  <2>1. usage \in Seq(UsageRec) /\ now \in Nat
    BY DEF TypeOK, UsageRec
  <2> QED
    BY <2>1, RowFacts DEF QuotaInv, PastRows, Rows
<1>1. RollingRequests
  <2> SUFFICES ASSUME NEW a \in Accounts, NEW i \in Rows
               PROVE  Requests({k \in Rows : /\ usage[k].account = a
                           /\ usage[i].at - WINDOW < usage[k].at
                           /\ usage[k].at <= usage[i].at}) <= RPM
    BY DEF RollingRequests
  <2> DEFINE S == RecentOf(usage, a, usage[i].at)
  <2>1. RequestsOf(usage, S) <= RPM
    BY <1>0 DEF QuotaInv, MinutesKept, Rows
  <2>2. S = {k \in Rows : /\ usage[k].account = a
                           /\ usage[i].at - WINDOW < usage[k].at
                           /\ usage[k].at <= usage[i].at}
    BY DEF RecentOf, Rows
  <2> HIDE DEF S
  <2> QED
    BY <2>1, <2>2, SumsAgree
<1>2. RollingTokens
  <2> SUFFICES ASSUME NEW a \in Accounts
               PROVE  Tokens(Recent(a, now)) <= TPM + UnderEstimated(Recent(a, now))
    BY DEF RollingTokens
  <2> DEFINE S == RecentOf(usage, a, now)
             f == [i \in Rows |-> IF i \in S THEN Effective(usage[i]) ELSE 0]
             h == HeldsOf(usage, S)
             e == [i \in Rows |->
                    IF i \in S THEN Larger(0, Effective(usage[i]) - usage[i].tokens) ELSE 0]
  <2>1. HeldOf(usage, S) <= TPM
    BY DEF QuotaInv, EstimatesKept
  <2>2. Recent(a, now) = S
    BY DEF Recent, RecentOf, Rows
  <2> HIDE DEF S
  <2>3. \A i \in 1..Len(usage) : h[i] \in Nat /\ e[i] \in Nat /\ f[i] = h[i] + e[i]
    <3> SUFFICES ASSUME NEW i \in 1..Len(usage)
                 PROVE  h[i] \in Nat /\ e[i] \in Nat /\ f[i] = h[i] + e[i]
      OBVIOUS
    <3>1. Effective(usage[i]) \in Nat /\ usage[i].tokens \in Nat
      BY <1>0, RowFacts
    <3> QED
      BY <3>1 DEF HeldsOf, HeldRow, Smaller, Larger, Rows
  <2>4. /\ Tokens(S) = Total(Len(usage), f) /\ UnderEstimated(S) = Total(Len(usage), e)
        /\ HeldOf(usage, S) = Total(Len(usage), h)
    BY DEF Tokens, UnderEstimated, HeldOf
  <2> HIDE DEF f, h, e
  <2>5. Total(Len(usage), f) = Total(Len(usage), h) + Total(Len(usage), e)
    BY <1>0, <2>3, TotalAdds
  <2>6. Total(Len(usage), h) \in Nat /\ Total(Len(usage), e) \in Nat
    <3>1. \A i \in 1..Len(usage) :
            h[i] \in Nat /\ e[i] \in Nat /\ h[i] <= h[i] /\ e[i] <= e[i]
      BY <2>3
    <3> QED
      BY <1>0, <3>1, TotalCompares
  <2> QED
    BY <2>1, <2>2, <2>4, <2>5, <2>6, AdmissionAssumption
<1>3. \A i \in Rows : BeforeOf(usage, i) = {k \in Today(usage[i].account, usage[i].at) : k <= i}
  BY DEF BeforeOf, Today, Rows
<1>4. PriorityReserve
  BY <1>3, SumsAgree DEF PriorityReserve, QuotaInv, DaysKept
<1>5. BackfillHeadroom
  BY <1>3, SumsAgree DEF BackfillHeadroom, QuotaInv, DaysKept
<1> QED
  BY <1>1, <1>2, <1>4, <1>5 DEF QuotaKept

\* reserve_account_request admits nothing past a limit of the account's quota: no
\* trailing minute holds more than RPM requests, the current one no more than TPM
\* tokens beyond what providers reported above the estimates, the day's reserve goes
\* to urgent requests alone, and backfill leaves the room it must, whichever lanes
\* ask and whenever their answers come or fail to.
THEOREM QuotaHolds == Spec => []QuotaKept
<1>1. Init => TypeOK /\ QuotaInv
  BY InitTyped, InitQuota
<1>2. TypeOK /\ QuotaInv /\ [Next]_vars => (TypeOK /\ QuotaInv)'
  BY StepTyped, StepQuota
<1>3. TypeOK /\ QuotaInv => QuotaKept
  BY QuotaFollows
<1> QED
  BY <1>1, <1>2, <1>3, PTL DEF Spec

-----------------------------------------------------------------------------
\* Elements of S before x in the order.
Before(S, order, x) == {y \in S : order[y] < order[x]}

\* What comes before an earlier element comes before a later one.
LEMMA BeforeGrows ==
  ASSUME NEW S, IsFiniteSet(S), NEW D, S \subseteq D, NEW order \in [D -> Nat],
         NEW x \in S, NEW y \in S, order[x] <= order[y]
  PROVE  /\ IsFiniteSet(Before(S, order, y))
         /\ Cardinality(Before(S, order, x)) \in Nat
         /\ Cardinality(Before(S, order, y)) \in Nat
         /\ Cardinality(Before(S, order, x)) <= Cardinality(Before(S, order, y))
         /\ order[x] < order[y] =>
              Cardinality(Before(S, order, x)) < Cardinality(Before(S, order, y))
<1> DEFINE bx == Before(S, order, x)
           by == Before(S, order, y)
<1>1. bx \in SUBSET S /\ by \in SUBSET S
  BY DEF Before
<1>2. IsFiniteSet(bx) /\ IsFiniteSet(by)
  BY <1>1, FS_Subset
<1>3. Cardinality(bx) \in Nat /\ Cardinality(by) \in Nat
  BY <1>2, FS_CardinalityType
<1>4. \A z \in S : order[z] \in Nat
  OBVIOUS
<1>5. bx \in SUBSET by
  BY <1>4 DEF Before
<1>6. Cardinality(bx) <= Cardinality(by)
  BY <1>2, <1>5, FS_Subset
<1>7. ASSUME order[x] < order[y]
      PROVE  Cardinality(bx) < Cardinality(by)
  <2>1. x \in by /\ x \notin bx
    BY <1>4, <1>7 DEF Before
  <2>2. Cardinality(by) # Cardinality(bx)
    BY <2>1, <1>2, <1>5, FS_Subset
  <2> QED
    BY <2>2, <1>6, <1>3
<1> QED
  BY <1>2, <1>3, <1>6, <1>7

\* A page of at most n elements: what it leaves out comes after all of it, and
\* if it is short it leaves out nothing.
LEMMA FirstOfIsPage ==
  ASSUME NEW S, IsFiniteSet(S), NEW D, S \subseteq D, NEW order \in [D -> Nat],
         NEW n \in Nat
  PROVE  /\ FirstOf(S, order, n) \subseteq S
         /\ IsFiniteSet(FirstOf(S, order, n))
         /\ \A x \in S \ FirstOf(S, order, n) : \A p \in FirstOf(S, order, n) :
              order[p] < order[x]
         /\ Cardinality(FirstOf(S, order, n)) < n => FirstOf(S, order, n) = S
<1> DEFINE page == FirstOf(S, order, n)
<1>1. page = {x \in S : Cardinality(Before(S, order, x)) < n}
  BY DEF FirstOf, Before
<1> HIDE DEF page
<1>2. page \in SUBSET S /\ IsFiniteSet(page)
  BY <1>1, FS_Subset
<1>3. ASSUME NEW x \in S \ page, NEW p \in page
      PROVE  order[p] < order[x]
  <2>1. order[x] \in Nat /\ order[p] \in Nat /\ p \in S
    BY <1>2
  <2>2. CASE order[x] <= order[p]
    <3>1. /\ Cardinality(Before(S, order, x)) \in Nat
          /\ Cardinality(Before(S, order, p)) \in Nat
          /\ Cardinality(Before(S, order, x)) <= Cardinality(Before(S, order, p))
      BY <2>1, <2>2, BeforeGrows
    <3>2. Cardinality(Before(S, order, p)) < n /\ ~(Cardinality(Before(S, order, x)) < n)
      BY <1>1
    <3> QED
      BY <3>1, <3>2
  <2> QED
    BY <2>1, <2>2
<1>4. ASSUME Cardinality(page) < n, page # S
      PROVE  FALSE
  <2> DEFINE rest == S \ page
             ranks == {order[x] : x \in rest}
  <2>1. rest # {}
    BY <1>2, <1>4
  <2>2. ranks \in SUBSET Nat /\ ranks # {}
    BY <2>1
  <2>3. PICK m \in ranks : \A k \in ranks : m <= k
    BY <2>2, HasLeast
  <2>4. PICK x \in rest : m = order[x]
    BY <2>3
  <2>5. Before(S, order, x) \in SUBSET page
    <3>1. ASSUME NEW y \in S, order[y] < order[x]
          PROVE  y \in page
      BY <3>1, <2>3, <2>4
    <3> QED
      BY <3>1 DEF Before
  <2>6. Cardinality(Before(S, order, x)) <= Cardinality(page)
    BY <2>5, <1>2, FS_Subset
  <2>7. IsFiniteSet(Before(S, order, x))
    BY <2>5, <1>2, FS_Subset
  <2>8. Cardinality(Before(S, order, x)) \in Nat /\ Cardinality(page) \in Nat
    BY <2>7, <1>2, FS_CardinalityType
  <2>9. x \in page
    BY <1>1, <1>4, <2>6, <2>8
  <2> QED
    BY <2>9
<1> QED
  BY <1>2, <1>3, <1>4 DEF page

\* A nonempty page has a last element.
LEMMA PageHasLast ==
  ASSUME NEW S, IsFiniteSet(S), NEW D, S \subseteq D, NEW order \in [D -> Nat],
         NEW n \in Nat, FirstOf(S, order, n) # {}
  PROVE  \E p \in FirstOf(S, order, n) : \A q \in FirstOf(S, order, n) : order[q] <= order[p]
<1> DEFINE page == FirstOf(S, order, n)
           rank(x) == Cardinality(Before(S, order, x))
           room == {n - rank(x) : x \in page}
<1>1. page = {x \in S : rank(x) < n}
  BY DEF FirstOf, Before
<1>2. \A x \in page : rank(x) \in Nat /\ rank(x) < n /\ x \in S
  <2> TAKE x \in page
  <2>1. x \in S /\ rank(x) < n
    BY <1>1
  <2>2. order[x] \in Nat
    BY <2>1
  <2>3. rank(x) \in Nat
    BY <2>1, <2>2, BeforeGrows
  <2> QED
    BY <2>1, <2>3
<1> HIDE DEF page, rank
<1>3. room \in SUBSET Nat /\ room # {}
  BY <1>2 DEF page
<1>4. PICK m \in room : \A k \in room : m <= k
  BY <1>3, HasLeast
<1>5. PICK p \in page : m = n - rank(p)
  BY <1>4
<1>6. ASSUME NEW q \in page
      PROVE  order[q] <= order[p]
  <2>1. n - rank(p) <= n - rank(q)
    BY <1>4, <1>5
  <2>2. rank(q) \in Nat /\ rank(p) \in Nat /\ q \in S /\ p \in S
    BY <1>2
  <2>3. order[q] \in Nat /\ order[p] \in Nat
    BY <2>2
  <2>4. CASE order[p] < order[q]
    <3>1. rank(p) < rank(q)
      BY <2>2, <2>3, <2>4, BeforeGrows DEF rank
    <3> QED
      BY <3>1, <2>1, <2>2
  <2> QED
    BY <2>3, <2>4
<1> QED
  BY <1>6 DEF page
-----------------------------------------------------------------------------
(*****************************************************************************)
(* The inductive invariant.  A row that may be claimed is in the lane of     *)
(* its revision (Placed); an annotation row without a lane lies beyond the   *)
(* cursor (BeyondCursor); and no derived row is stale once the provenance    *)
(* migration is complete.                                                    *)
(*****************************************************************************)
Placed(j) ==
  Owned(j) => /\ rows[j].lane = Side(About(j))
              /\ About(j) \in Historical => rows[j].priority = "BACKGROUND"

RowsTyped ==
  /\ rows \in [Jobs -> Row]
  /\ received \subseteq Revisions
  /\ laneMig \in [state : {"NONE", "ACTIVE", "COMPLETE"}, cursor : Nat]
  /\ DOMAIN down = {"state", "cursor"}

Local ==
  /\ held \subseteq Jobs
  /\ pc # "round" => held = {}
  /\ \A j \in held : Owned(j) /\ rows[j].state # "ABSENT"
  /\ pc = "enqueue" => todo \subseteq Revisions
  /\ pc = "derived" => todo \subseteq Derived

PlacedAll == \A j \in Jobs : Placed(j)

BeyondCursor ==
  \A r \in Revisions :
    rows[r].state # "ABSENT" /\ ~rows[r].classified =>
      laneMig.state # "COMPLETE" /\ laneMig.cursor < Created[r]

NoneStale == down.state = "COMPLETE" => Stale = {}

Inv == RowsTyped /\ Local /\ PlacedAll /\ BeyondCursor /\ NoneStale

\* What settlement, expiry, reconciliation and reopening leave of a row.
SameWork(old, new) ==
  /\ new \in Row
  /\ new.lane = old.lane /\ new.priority = old.priority
  /\ new.classified = old.classified /\ new.provenance = old.provenance
  /\ new.state = "ABSENT" <=> old.state = "ABSENT"

\* Changing a row's state changes nothing but its state.
LEMMA StateChange ==
  ASSUME NEW old \in Row, NEW s \in STATES \ {"ABSENT"}, old.state # "ABSENT"
  PROVE  SameWork(old, [old EXCEPT !.state = s])
  BY DEF SameWork, Row

\* Steps that change only states of rows keep the rows' part of the invariant.
LEMMA SameWorkKeeps ==
  ASSUME Inv, rows' \in [Jobs -> Row],
         \A j \in Jobs : SameWork(rows[j], rows'[j]),
         laneMig' = laneMig, down' = down
  PROVE  /\ PlacedAll' /\ BeyondCursor' /\ NoneStale'
         /\ \A j \in Jobs : Owned(j)' <=> Owned(j)
<1>1. \A j \in Jobs : Owned(j)' <=> Owned(j)
  BY DEF SameWork, Owned
<1>2. PlacedAll'
  BY <1>1 DEF Inv, PlacedAll, Placed, SameWork
<1>3. BeyondCursor'
  BY DEF Inv, BeyondCursor, SameWork, Jobs
<1>4. Stale' = Stale
  BY DEF Stale, SameWork, Jobs
<1>5. NoneStale'
  BY <1>4 DEF Inv, NoneStale
<1> QED
  BY <1>1, <1>2, <1>3, <1>5

\* Enqueueing in the lane of the revision keeps the rows' part of the invariant.
LEMMA EnqueuedKeeps ==
  ASSUME Inv, NEW x \in Jobs, NEW side \in WORK_LANES,
         NEW priority \in {"FAST", "NORMAL", "BACKGROUND"}, NEW reopen \in BOOLEAN,
         side = Side(About(x)), About(x) \in Historical => priority = "BACKGROUND",
         rows' = [rows EXCEPT ![x] = Enqueued(x, side, priority, reopen)],
         laneMig' = laneMig, down' = down
  PROVE  /\ rows' \in [Jobs -> Row]
         /\ PlacedAll' /\ BeyondCursor' /\ NoneStale'
<1> DEFINE new == Enqueued(x, side, priority, reopen)
<1>1. rows \in [Jobs -> Row] /\ rows[x] \in Row
  BY DEF Inv, RowsTyped
<1>2. \/ /\ new = [rows[x] EXCEPT !.state = "WAITING", !.lane = side,
                       !.priority = priority, !.classified = TRUE,
                       !.provenance = "CURRENT"]
        /\ rows[x].state \in {"ABSENT", "WAITING"}
     \/ SameWork(rows[x], new)
  <2>1. CASE rows[x].state \in {"ABSENT", "WAITING"}
    BY <2>1 DEF Enqueued
  <2>2. CASE rows[x].state \notin {"ABSENT", "WAITING"} /\ rows[x].state = "COMPLETED" /\ reopen
    <3>1. new = [rows[x] EXCEPT !.state = "WAITING"]
      BY <2>2 DEF Enqueued
    <3>2. SameWork(rows[x], [rows[x] EXCEPT !.state = "WAITING"])
      BY <1>1, <2>2, StateChange DEF STATES
    <3> QED
      BY <3>1, <3>2
  <2>3. CASE rows[x].state \notin {"ABSENT", "WAITING"} /\ ~(rows[x].state = "COMPLETED" /\ reopen)
    <3>1. new = rows[x]
      BY <2>3 DEF Enqueued
    <3> QED
      BY <1>1, <3>1 DEF SameWork
  <2> QED
    BY <2>1, <2>2, <2>3
<1>3. CASE new = [rows[x] EXCEPT !.state = "WAITING", !.lane = side,
                    !.priority = priority, !.classified = TRUE,
                    !.provenance = "CURRENT"]
  <2>1. /\ new \in Row /\ new.lane = side /\ new.priority = priority
        /\ new.classified = TRUE /\ new.provenance = "CURRENT"
    BY <1>1, <1>3 DEF Row, STATES, PROVENANCE
  <2> HIDE DEF new
  <2>2. rows' = [rows EXCEPT ![x] = new]
    BY DEF new
  <2>3. rows' \in [Jobs -> Row]
    BY <1>1, <2>1, <2>2
  <2>4. \A j \in Jobs : rows'[j] = IF j = x THEN new ELSE rows[j]
    BY <1>1, <2>2
  <2>5. PlacedAll'
    <3>1. ASSUME NEW j \in Jobs, j # x
          PROVE  Placed(j)'
      <4>1. rows'[j] = rows[j]
        BY <3>1, <2>4
      <4>2. Placed(j)
        BY DEF Inv, PlacedAll
      <4> QED
        BY <4>1, <4>2 DEF Placed, Owned
    <3>2. Placed(x)'
      BY <2>1, <2>4 DEF Placed
    <3> QED
      BY <3>1, <3>2 DEF PlacedAll
  <2>6. BeyondCursor'
    BY <2>1, <2>4 DEF Inv, BeyondCursor, Jobs
  <2>7. Stale' \subseteq Stale
    BY <2>1, <2>4 DEF Stale, Jobs
  <2>8. NoneStale'
    BY <2>7 DEF Inv, NoneStale
  <2> QED
    BY <2>3, <2>5, <2>6, <2>8
<1>4. CASE SameWork(rows[x], new)
  <2> HIDE DEF new
  <2>1. rows' = [rows EXCEPT ![x] = new]
    BY DEF new
  <2>2. new \in Row
    BY <1>4 DEF SameWork
  <2>3. rows' \in [Jobs -> Row]
    BY <1>1, <2>1, <2>2
  <2>4. \A j \in Jobs : SameWork(rows[j], rows'[j])
    <3>1. ASSUME NEW j \in Jobs, j # x
          PROVE  SameWork(rows[j], rows'[j])
      BY <1>1, <2>1, <3>1 DEF SameWork
    <3>2. SameWork(rows[x], rows'[x])
      BY <1>1, <1>4, <2>1
    <3> QED
      BY <3>1, <3>2
  <2> QED
    BY <2>3, <2>4, SameWorkKeeps
<1> QED
  BY <1>2, <1>3, <1>4
-----------------------------------------------------------------------------
\* The next cursor is the old one or the rank of a row of the page.
LEMMA NextCursor ==
  ASSUME NEW c \in Nat, NEW S \in SUBSET Jobs, IsFiniteSet(S), NEW n \in Nat
  PROVE  LET page == FirstOf(S, Created, n)
             ranks == {c} \cup {Created[r] : r \in page}
         IN Max(ranks) \in ranks /\ ranks \subseteq Nat
<1> DEFINE page == FirstOf(S, Created, n)
           ranks == {c} \cup {Created[r] : r \in page}
<1>1. Created \in [Jobs -> Nat]
  BY ContractMigrationAssumption
<1>2. page \subseteq S
  BY <1>1, FirstOfIsPage
<1>3. (page # {}) => \E p \in page : \A q \in page : Created[q] <= Created[p]
  BY <1>1, PageHasLast
<1> HIDE DEF page
<1>4. \A r \in page : Created[r] \in Nat
  BY <1>1, <1>2
<1>5. \E x \in ranks : \A y \in ranks : x >= y
  <2>1. CASE page = {}
    <3>1. ranks = {c}
      BY <2>1
    <3> QED
      BY <3>1
  <2>2. CASE page # {}
    <3>1. PICK p \in page : \A q \in page : Created[q] <= Created[p]
      BY <1>3, <2>2
    <3>2. CASE c >= Created[p]
      <4>1. \A y \in ranks : c >= y
        BY <1>4, <3>1, <3>2
      <4> QED
        BY <4>1
    <3>3. CASE Created[p] >= c
      <4>1. \A y \in ranks : Created[p] >= y
        BY <1>4, <3>1, <3>3
      <4>2. Created[p] \in ranks
        OBVIOUS
      <4> QED
        BY <4>1, <4>2
    <3> QED
      BY <1>4, <3>2, <3>3
  <2> QED
    BY <2>1, <2>2
<1>6. ranks \subseteq Nat
  BY <1>4
<1> HIDE DEF ranks
<1>7. Max(ranks) \in ranks
  BY <1>5 DEF Max
<1> QED
  BY <1>6, <1>7 DEF ranks, page

\* A page of the lane migration.
LEMMA ClassifyPageKeeps ==
  ASSUME Inv, ClassifyPage
  PROVE  Inv'
<1> USE DEF Inv
<1>1. Created \in [Jobs -> Nat] /\ LanePage \in Nat /\ IsFiniteSet(Revisions)
      /\ Revisions \cap Derived = {} /\ Revisions \in SUBSET Jobs
      /\ Historical \subseteq Revisions
  BY ContractMigrationAssumption DEF Jobs
<1>2. Local'
  BY DEF ClassifyPage, Local, process, evidence
<1>3. received' = received /\ down' = down
  BY DEF ClassifyPage, evidence
<1>4. CASE laneMig.state = "COMPLETE"
  <2>1. rows' = rows /\ laneMig' = laneMig
    BY <1>4 DEF ClassifyPage
  <2>2. RowsTyped' /\ PlacedAll' /\ BeyondCursor' /\ NoneStale'
    BY <1>3, <2>1 DEF RowsTyped, PlacedAll, Placed, Owned, BeyondCursor, NoneStale, Stale
  <2> QED
    BY <1>2, <2>2
<1>5. CASE laneMig.state # "COMPLETE"
  <2> DEFINE open == {r \in Revisions : /\ rows[r].state # "ABSENT" /\ ~rows[r].classified
                                         /\ Created[r] > laneMig.cursor}
             page == FirstOf(open, Created, LanePage)
             ranks == {laneMig.cursor} \cup {Created[r] : r \in page}
  <2>1. /\ rows' = [j \in Jobs |-> IF j \in page THEN Classified(j) ELSE rows[j]]
        /\ laneMig' = [state |-> IF Cardinality(page) < LanePage THEN "COMPLETE" ELSE "ACTIVE",
                        cursor |-> Max(ranks)]
    BY <1>5 DEF ClassifyPage, LanePageRows
  <2>2. open \in SUBSET Revisions /\ open \in SUBSET Jobs /\ IsFiniteSet(open)
    BY <1>1, FS_Subset
  <2>3. laneMig.cursor \in Nat
    BY DEF RowsTyped
  <2>4. Max(ranks) \in ranks /\ ranks \subseteq Nat
    BY <1>1, <2>2, <2>3, NextCursor
  <2> HIDE DEF open
  <2>5. /\ page \subseteq open
        /\ \A x \in open \ page : \A p \in page : Created[p] < Created[x]
        /\ Cardinality(page) < LanePage => page = open
    BY <1>1, <2>2, FirstOfIsPage
  <2> HIDE DEF page
  <2>6. \A r \in page : /\ Classified(r) \in Row
                         /\ Classified(r).lane = Side(r)
                         /\ Classified(r).priority = SidePriority(r)
                         /\ Classified(r).classified = TRUE
                         /\ Classified(r).state # "ABSENT"
    <3> TAKE r \in page
    <3>1. r \in Revisions /\ rows[r] \in Row /\ rows[r].state # "ABSENT"
      BY <2>2, <2>5 DEF open, RowsTyped, Jobs
    <3>2. Side(r) \in WORK_LANES /\ SidePriority(r) \in {"FAST", "NORMAL", "BACKGROUND"}
      BY DEF Side, SidePriority, WORK_LANES
    <3> QED
      BY <3>1, <3>2 DEF Classified, Row, STATES
  <2>7. \A j \in Jobs : rows'[j] = IF j \in page THEN Classified(j) ELSE rows[j]
    BY <2>1
  <2>8. page \subseteq Revisions
    BY <2>2, <2>5
  <2>9. RowsTyped'
    <3>1. \A j \in Jobs : rows'[j] \in Row
      BY <2>6, <2>7 DEF RowsTyped
    <3>2. rows' \in [Jobs -> Row]
      BY <2>1, <3>1
    <3>3. Max(ranks) \in Nat
      BY <2>4
    <3>4. laneMig' \in [state : {"NONE", "ACTIVE", "COMPLETE"}, cursor : Nat]
      BY <2>1, <3>3
    <3> QED
      BY <1>3, <3>2, <3>4 DEF RowsTyped
  <2>10. PlacedAll'
    <3>1. ASSUME NEW j \in Jobs
          PROVE  Placed(j)'
      <4>1. CASE j \in page
        <5>1. About(j) = j
          BY <4>1, <2>8, <1>1 DEF About
        <5>2. rows'[j].lane = Side(j) /\ rows'[j].priority = SidePriority(j)
          BY <4>1, <2>6, <2>7, <3>1
        <5> QED
          BY <5>1, <5>2 DEF Placed, SidePriority
      <4>2. CASE j \notin page
        <5>1. rows'[j] = rows[j] /\ Placed(j)
          BY <4>2, <2>7, <3>1 DEF PlacedAll
        <5> QED
          BY <5>1 DEF Placed, Owned
      <4> QED
        BY <4>1, <4>2
    <3> QED
      BY <3>1 DEF PlacedAll
  <2>11. BeyondCursor'
    <3>1. ASSUME NEW r \in Revisions, rows'[r].state # "ABSENT", ~rows'[r].classified
          PROVE  laneMig'.state # "COMPLETE" /\ laneMig'.cursor < Created[r]
      <4>1. r \in Jobs
        BY <1>1
      <4>2. r \notin page
        BY <4>1, <2>6, <2>7, <3>1
      <4>3. rows'[r] = rows[r]
        BY <4>1, <4>2, <2>7
      <4>4. laneMig.cursor < Created[r]
        BY <3>1, <4>3 DEF BeyondCursor
      <4>5. Created[r] \in Nat
        BY <1>1, <4>1
      <4>6. r \in open
        BY <3>1, <4>3, <4>4, <4>5, <2>3 DEF open
      <4>7. laneMig'.state # "COMPLETE"
        BY <2>1, <2>5, <4>2, <4>6
      <4>8. \A k \in ranks : k < Created[r]
        BY <2>5, <4>2, <4>4, <4>6
      <4>9. laneMig'.cursor = Max(ranks)
        BY <2>1
      <4> QED
        BY <2>4, <4>7, <4>8, <4>9
    <3> QED
      BY <3>1 DEF BeyondCursor
  <2>12. NoneStale'
    <3>1. \A d \in Derived : rows'[d] = rows[d]
      BY <2>7, <2>8, <1>1 DEF Jobs
    <3>2. Stale' = Stale
      BY <3>1 DEF Stale
    <3> QED
      BY <1>3, <3>2 DEF NoneStale
  <2> QED
    BY <1>2, <2>9, <2>10, <2>11, <2>12
<1> QED
  BY <1>4, <1>5

\* A page of the provenance migration.
LEMMA RepairPageKeeps ==
  ASSUME Inv, RepairPage
  PROVE  Inv'
<1> USE DEF Inv
<1>1. /\ Revisions \cap Derived = {} /\ Revisions \subseteq Jobs /\ Derived \subseteq Jobs
      /\ \A d \in Derived : Parent[d] \in Revisions
  BY ContractMigrationAssumption DEF Jobs
<1>2. Local'
  BY DEF RepairPage, Local, process, evidence
<1>3. received' = received /\ laneMig' = laneMig
  BY DEF RepairPage, evidence
<1>4. CASE down.state = "COMPLETE"
  <2>1. rows' = rows /\ down' = down
    BY <1>4 DEF RepairPage
  <2>2. RowsTyped' /\ PlacedAll' /\ BeyondCursor' /\ NoneStale'
    BY <1>3, <2>1 DEF RowsTyped, PlacedAll, Placed, Owned, BeyondCursor, NoneStale, Stale
  <2> QED
    BY <1>2, <2>2
<1>5. CASE down.state # "COMPLETE"
  <2> DEFINE page == DownPageRows
             final == Finalized(page)
  <2>1. /\ rows' = [j \in Jobs |-> IF j \in final THEN Provenanced(j) ELSE rows[j]]
        /\ down' = DownProgress(page, Stale \ final)
    BY <1>5 DEF RepairPage
  <2>2. final \subseteq Stale /\ Stale \subseteq Derived
    BY DEF Finalized, DownPageRows, FirstOf, Stale
  <2> HIDE DEF final, page
  <2>3. \A j \in Jobs : rows'[j] = IF j \in final THEN Provenanced(j) ELSE rows[j]
    BY <2>1
  <2>4. \A d \in final :
          /\ Provenanced(d) \in Row /\ Provenanced(d).provenance # "NONE"
          /\ Provenanced(d).classified =>
               /\ Provenanced(d).lane = Side(About(d))
               /\ About(d) \in Historical => Provenanced(d).priority = "BACKGROUND"
    <3> TAKE d \in final
    <3>1. d \in Derived /\ d \in Jobs /\ rows[d] \in Row /\ Parent[d] \in Jobs
          /\ Parent[d] \in Revisions
      BY <1>1, <2>2 DEF RowsTyped
    <3>2. CASE Resolvable(d)
      <4>1. Owned(Parent[d])
        BY <1>1, <3>1, <3>2 DEF Resolvable, Owned
      <4>2. rows[Parent[d]].lane = Side(Parent[d])
        <5>1. About(Parent[d]) = Parent[d]
          BY <1>1, <3>1 DEF About
        <5> QED
          BY <3>1, <4>1, <5>1 DEF PlacedAll, Placed
      <4>3. About(d) = Parent[d]
        BY <3>1 DEF About
      <4>4. Side(Parent[d]) \in WORK_LANES
        BY DEF Side, WORK_LANES
      <4>5. Provenanced(d) = [rows[d] EXCEPT !.lane = rows[Parent[d]].lane,
                                !.classified = TRUE, !.provenance = "CURRENT",
                                !.priority = InheritedPriority(rows[Parent[d]].lane, @)]
        BY <3>2 DEF Provenanced
      <4>6. InheritedPriority(rows[Parent[d]].lane, rows[d].priority)
              \in {"FAST", "NORMAL", "BACKGROUND"}
        BY <3>1 DEF InheritedPriority, Row
      <4>7. Parent[d] \in Historical =>
              InheritedPriority(rows[Parent[d]].lane, rows[d].priority) = "BACKGROUND"
        BY <4>2 DEF InheritedPriority, Side
      <4> QED
        BY <3>1, <4>2, <4>3, <4>4, <4>5, <4>6, <4>7 DEF Row, PROVENANCE
    <3>3. CASE ~Resolvable(d)
      <4>1. Provenanced(d) = [rows[d] EXCEPT !.classified = FALSE, !.provenance = "UNRESOLVED"]
        BY <3>3 DEF Provenanced
      <4> QED
        BY <3>1, <4>1 DEF Row, PROVENANCE
    <3> QED
      BY <3>2, <3>3
  <2>5. RowsTyped'
    <3>1. \A j \in Jobs : rows'[j] \in Row
      BY <2>3, <2>4 DEF RowsTyped
    <3>2. rows' \in [Jobs -> Row]
      BY <2>1, <3>1
    <3>3. DOMAIN down' = {"state", "cursor"}
      BY <2>1 DEF DownProgress, RowsTyped
    <3> QED
      BY <1>3, <3>2, <3>3 DEF RowsTyped
  <2>6. PlacedAll'
    <3>1. ASSUME NEW j \in Jobs
          PROVE  Placed(j)'
      <4>1. CASE j \in final
        BY <4>1, <2>3, <2>4, <3>1 DEF Placed, Owned
      <4>2. CASE j \notin final
        <5>1. rows'[j] = rows[j] /\ Placed(j)
          BY <4>2, <2>3, <3>1 DEF PlacedAll
        <5> QED
          BY <5>1 DEF Placed, Owned
      <4> QED
        BY <4>1, <4>2
    <3> QED
      BY <3>1 DEF PlacedAll
  <2>7. BeyondCursor'
    <3>1. \A r \in Revisions : rows'[r] = rows[r]
      BY <1>1, <2>2, <2>3
    <3> QED
      BY <1>3, <3>1 DEF BeyondCursor
  <2>8. NoneStale'
    <3>1. Stale' = Stale \ final
      BY <1>1, <2>2, <2>3, <2>4 DEF Stale
    <3>2. down'.state = "COMPLETE" => Stale \ final = {}
      BY <1>5, <2>1 DEF DownProgress
    <3> QED
      BY <3>1, <3>2 DEF NoneStale
  <2> QED
    BY <1>2, <2>5, <2>6, <2>7, <2>8
<1> QED
  BY <1>4, <1>5
-----------------------------------------------------------------------------
\* Steps that leave the rows alone and complete no migration.
LEMMA SameRows ==
  ASSUME Inv, rows' = rows, received' \subseteq Revisions,
         laneMig' \in [state : {"NONE", "ACTIVE", "COMPLETE"}, cursor : Nat],
         laneMig'.cursor = laneMig.cursor,
         laneMig'.state = "COMPLETE" => laneMig.state = "COMPLETE",
         DOMAIN down' = {"state", "cursor"},
         down'.state = "COMPLETE" => down.state = "COMPLETE"
  PROVE  RowsTyped' /\ PlacedAll' /\ BeyondCursor' /\ NoneStale'
<1>1. RowsTyped'
  BY DEF Inv, RowsTyped
<1>2. PlacedAll'
  BY DEF Inv, PlacedAll, Placed, Owned
<1>3. BeyondCursor'
  BY DEF Inv, BeyondCursor
<1>4. NoneStale'
  BY DEF Inv, NoneStale, Stale
<1> QED
  BY <1>1, <1>2, <1>3, <1>4

\* The rows of the old release have no owner yet.
LEMMA InitInv == MigrationInit => Inv
<1> SUFFICES ASSUME MigrationInit PROVE Inv
  OBVIOUS
<1> USE ContractMigrationAssumption
<1>1. PICK legacy \in Legacies :
        /\ rows = [j \in Jobs |-> LegacyRow(j, legacy[j])]
        /\ received = Historical \cup {r \in Revisions : legacy[r] # "ABSENT"}
                        \cup {Parent[d] : d \in {e \in Derived : legacy[e] # "ABSENT"}}
  BY DEF MigrationInit
<1>2. legacy \in [Jobs -> STATES]
  BY <1>1
<1>3. \A j \in Jobs : LegacyRow(j, legacy[j]) \in Row
  BY <1>2 DEF LegacyRow, Row, WORK_LANES, PROVENANCE
<1>4. received \subseteq Revisions
  BY <1>1
<1>5. RowsTyped
  BY <1>1, <1>3, <1>4 DEF RowsTyped, MigrationInit
<1>6. Local
  BY DEF MigrationInit, Local
<1>7. \A j \in Jobs : ~Owned(j)
  BY <1>1 DEF Owned, LegacyRow
<1>8. PlacedAll
  BY <1>7 DEF PlacedAll, Placed
<1>9. BeyondCursor
  BY DEF MigrationInit, BeyondCursor, Jobs
<1>10. NoneStale
  BY DEF MigrationInit, NoneStale
<1> QED
  BY <1>5, <1>6, <1>8, <1>9, <1>10 DEF Inv

\* Steps of a pass that change no row.
LEMMA QuietSyncKeeps ==
  ASSUME Inv,
         StartSync \/ InstallLanes \/ InstallDownstream \/ Discover \/ DiscoverDerived
           \/ EndRound
  PROVE  Inv'
<1> USE DEF Inv
<1>1. /\ received' = received /\ rows' = rows
      /\ laneMig' \in [state : {"NONE", "ACTIVE", "COMPLETE"}, cursor : Nat]
      /\ laneMig'.cursor = laneMig.cursor
      /\ laneMig'.state = "COMPLETE" => laneMig.state = "COMPLETE"
  <2>1. laneMig \in [state : {"NONE", "ACTIVE", "COMPLETE"}, cursor : Nat]
    BY DEF RowsTyped
  <2>2. CASE InstallLanes
    BY <2>1, <2>2 DEF InstallLanes, evidence
  <2>3. CASE ~InstallLanes
    BY <2>1, <2>3 DEF StartSync, InstallDownstream, Discover, DiscoverDerived, EndRound,
                      evidence, migrations
  <2> QED
    BY <2>2, <2>3
<1>2. /\ DOMAIN down' = {"state", "cursor"}
      /\ down'.state = "COMPLETE" => down.state = "COMPLETE"
  <2>1. DOMAIN down = {"state", "cursor"}
    BY DEF RowsTyped
  <2>2. CASE InstallDownstream
    BY <2>1, <2>2 DEF InstallDownstream
  <2>3. CASE ~InstallDownstream
    BY <2>1, <2>3 DEF StartSync, InstallLanes, Discover, DiscoverDerived, EndRound, migrations
  <2> QED
    BY <2>2, <2>3
<1>3. RowsTyped' /\ PlacedAll' /\ BeyondCursor' /\ NoneStale'
  <2>1. received' \subseteq Revisions
    BY <1>1 DEF RowsTyped
  <2> QED
    BY <1>1, <1>2, <2>1, SameRows
<1>4. \A j \in Jobs : Owned(j)' <=> Owned(j)
  BY <1>1 DEF Owned
<1>5. CASE StartSync \/ InstallLanes \/ InstallDownstream \/ EndRound
  <2>1. Local'
    BY <1>1, <1>4, <1>5 DEF StartSync, InstallLanes, InstallDownstream, EndRound, Local
  <2> QED
    BY <1>3, <2>1
<1>6. CASE Discover
  <2>1. held' = held /\ pc = "discover" /\ pc' = "enqueue"
    BY <1>6 DEF Discover
  <2>2. todo' \subseteq Revisions
    <3>1. Discoverable \subseteq Revisions
      BY DEF Discoverable, RowsTyped
    <3>2. Valued \subseteq Revisions
      BY ContractMigrationAssumption
    <3>3. PICK live \in SUBSET Discoverable, protected \in SUBSET Discoverable, more \in SUBSET Valued :
            todo' = live \cup protected \cup more
      <4>1. PICK days \in SUBSET Days :
              \E live \in Selections(Discoverable \ Historical, LiveCapacity) :
              \E protected \in Selections(Discoverable \cap Historical, ProtectedCapacity(days)) :
                todo' = live \cup protected
                          \cup (ScanRows(OrdinaryCapacity(protected)) \cap Valued)
        BY <1>6 DEF Discover
      <4>2. PICK live \in Selections(Discoverable \ Historical, LiveCapacity),
                 protected \in Selections(Discoverable \cap Historical, ProtectedCapacity(days)) :
                todo' = live \cup protected
                          \cup (ScanRows(OrdinaryCapacity(protected)) \cap Valued)
        BY <4>1
      <4>3. live \in SUBSET Discoverable /\ protected \in SUBSET Discoverable
        BY <4>2 DEF Selections
      <4> QED
        BY <4>2, <4>3
    <3> QED
      BY <3>1, <3>2, <3>3
  <2>3. Local'
    BY <1>1, <1>4, <2>1, <2>2 DEF Local
  <2> QED
    BY <1>3, <2>3
<1>7. CASE DiscoverDerived
  <2>1. held' = held /\ pc = "enqueue" /\ pc' = "derived" /\ todo' \subseteq Derived
    BY <1>7 DEF DiscoverDerived, PendingDerived, Derived
  <2>2. Local'
    BY <1>1, <1>4, <2>1 DEF Local
  <2> QED
    BY <1>3, <2>2
<1> QED
  BY <1>5, <1>6, <1>7
-----------------------------------------------------------------------------
\* The two enqueues of a pass.
LEMMA EnqueueKeeps ==
  ASSUME Inv, Enqueue \/ EnqueueDerived
  PROVE  Inv'
<1> USE DEF Inv
<1>1. /\ received' = received /\ laneMig' = laneMig /\ down' = down
      /\ held' = held /\ held = {} /\ pc' = pc /\ todo' \subseteq todo
  BY DEF Enqueue, EnqueueDerived, Local, evidence, migrations
<1>2. Local'
  BY <1>1 DEF Local
<1>3. /\ Revisions \cap Derived = {} /\ Revisions \subseteq Jobs /\ Derived \subseteq Jobs
      /\ \A d \in Derived : Parent[d] \in Revisions
  BY ContractMigrationAssumption DEF Jobs
<1>4. CASE rows' = rows
  <2>1. RowsTyped' /\ PlacedAll' /\ BeyondCursor' /\ NoneStale'
    BY <1>1, <1>4, SameRows DEF RowsTyped
  <2> QED
    BY <1>2, <2>1
<1>5. ASSUME NEW x \in Jobs, NEW side \in WORK_LANES,
             NEW priority \in {"FAST", "NORMAL", "BACKGROUND"}, NEW reopen \in BOOLEAN,
             side = Side(About(x)), About(x) \in Historical => priority = "BACKGROUND",
             rows' = [rows EXCEPT ![x] = Enqueued(x, side, priority, reopen)]
      PROVE  Inv'
  <2>1. /\ rows' \in [Jobs -> Row]
        /\ PlacedAll' /\ BeyondCursor' /\ NoneStale'
    BY <1>1, <1>5, EnqueuedKeeps
  <2>2. RowsTyped'
    BY <1>1, <2>1 DEF RowsTyped
  <2> QED
    BY <1>2, <2>1, <2>2
<1>6. CASE Enqueue
  <2>1. PICK r \in todo :
          rows' = [rows EXCEPT ![r] = Enqueued(r, Side(r), SidePriority(r), TRUE)]
    BY <1>6 DEF Enqueue
  <2>2. r \in Revisions
    BY <1>6 DEF Enqueue, Local
  <2>3. r \in Jobs /\ About(r) = r
    BY <1>3, <2>2 DEF About
  <2>4. /\ Side(r) \in WORK_LANES /\ SidePriority(r) \in {"FAST", "NORMAL", "BACKGROUND"}
        /\ r \in Historical => SidePriority(r) = "BACKGROUND"
    BY DEF Side, SidePriority, WORK_LANES
  <2> QED
    BY <1>5, <2>1, <2>3, <2>4
<1>7. CASE EnqueueDerived
  <2> DEFINE side(d) == rows[Parent[d]].lane
             priority(d) == InheritedPriority(
               side(d), IF d \in Titles THEN "BACKGROUND" ELSE "NORMAL")
  <2>1. PICK d \in todo :
          rows' = IF ~Resolvable(d) THEN rows
                  ELSE [rows EXCEPT ![d] = Enqueued(d, side(d), priority(d), FALSE)]
    BY <1>7 DEF EnqueueDerived
  <2>2. d \in Derived
    BY <1>7 DEF EnqueueDerived, Local
  <2>3. d \in Jobs /\ About(d) = Parent[d] /\ Parent[d] \in Revisions /\ Parent[d] \in Jobs
    BY <1>3, <2>2 DEF About
  <2>4. CASE Resolvable(d)
    <3>1. Owned(Parent[d]) /\ About(Parent[d]) = Parent[d]
      BY <1>3, <2>3, <2>4 DEF Resolvable, Owned, About
    <3>2. side(d) = Side(Parent[d])
      BY <2>3, <3>1 DEF PlacedAll, Placed
    <3>3. side(d) \in WORK_LANES
      BY <3>2 DEF Side, WORK_LANES
    <3>4. /\ priority(d) \in {"FAST", "NORMAL", "BACKGROUND"}
          /\ Parent[d] \in Historical => priority(d) = "BACKGROUND"
      BY <3>2 DEF InheritedPriority, Side
    <3>5. rows' = [rows EXCEPT ![d] = Enqueued(d, side(d), priority(d), FALSE)]
      BY <2>1, <2>4
    <3> HIDE DEF side, priority
    <3> QED
      BY <1>5, <2>3, <3>2, <3>3, <3>4, <3>5
  <2>5. CASE ~Resolvable(d)
    BY <1>4, <2>1, <2>5
  <2> QED
    BY <2>4, <2>5
<1> QED
  BY <1>6, <1>7

\* Leases that ran out go back to the queue.
LEMMA ExpiredSameWork ==
  ASSUME rows \in [Jobs -> Row], NEW X \in SUBSET Orphans, NEW j \in Jobs
  PROVE  SameWork(rows[j], Expired(X)[j])
<1>1. CASE j \in X
  <2>1. rows[j].state = "LEASED"
    BY <1>1 DEF Orphans
  <2>2. Expired(X)[j] = [rows[j] EXCEPT !.state = "WAITING"]
    BY <1>1 DEF Expired
  <2> QED
    BY <2>1, <2>2, StateChange DEF STATES
<1>2. CASE j \notin X
  <2>1. Expired(X)[j] = rows[j]
    BY <1>2 DEF Expired
  <2> QED
    BY <2>1 DEF SameWork
<1> QED
  BY <1>1, <1>2

LEMMA SameWorkTransitive ==
  ASSUME NEW a, NEW b, NEW c, SameWork(a, b), SameWork(b, c)
  PROVE  SameWork(a, c)
  BY DEF SameWork

\* Steps that change only states of rows.
LEMMA StateStepsKeep ==
  ASSUME Inv,
         \/ Reconcile \/ ReopenProtected \/ Claim
         \/ \E X \in SUBSET Orphans : ClaimNothing(X)
         \/ \E j \in Jobs : CompleteJob(j) \/ ReleaseJob(j)
  PROVE  Inv'
<1> USE DEF Inv
<1>1. received' = received /\ laneMig' = laneMig /\ down' = down
  BY DEF Reconcile, ReopenProtected, Claim, ClaimNothing, CompleteJob, ReleaseJob, Settle,
         evidence, migrations
<1>2. rows \in [Jobs -> Row]
  BY DEF RowsTyped
<1>3. ASSUME rows' \in [Jobs -> Row], \A j \in Jobs : SameWork(rows[j], rows'[j]), Local'
      PROVE  Inv'
  <2>1. PlacedAll' /\ BeyondCursor' /\ NoneStale'
    BY <1>1, <1>3, SameWorkKeeps
  <2>2. RowsTyped'
    BY <1>1, <1>3 DEF RowsTyped
  <2> QED
    BY <1>3, <2>1, <2>2
<1>4. ASSUME rows' \in [Jobs -> Row], \A j \in Jobs : SameWork(rows[j], rows'[j])
      PROVE  \A j \in Jobs : Owned(j)' <=> Owned(j)
  BY <1>1, <1>4, SameWorkKeeps
<1>5. CASE Reconcile
  <2>1. \A j \in Jobs : SameWork(rows[j], Reconciled(j))
    <3> TAKE j \in Jobs
    <3>1. CASE rows[j].state \in {"WAITING", "LEASED"} /\ j \in annotated \cup produced
      <4>1. Reconciled(j) = [rows[j] EXCEPT !.state = "COMPLETED"]
        BY <3>1 DEF Reconciled
      <4> QED
        BY <1>2, <3>1, <4>1, StateChange DEF STATES
    <3>2. CASE /\ ~(rows[j].state \in {"WAITING", "LEASED"} /\ j \in annotated \cup produced)
               /\ rows[j].state = "COMPLETED" /\ j \in Revisions \ annotated
      <4>1. Reconciled(j) = [rows[j] EXCEPT !.state = "OBSOLETE"]
        BY <3>2 DEF Reconciled
      <4> QED
        BY <1>2, <3>2, <4>1, StateChange DEF STATES
    <3>3. CASE /\ ~(rows[j].state \in {"WAITING", "LEASED"} /\ j \in annotated \cup produced)
               /\ ~(rows[j].state = "COMPLETED" /\ j \in Revisions \ annotated)
      <4>1. Reconciled(j) = rows[j]
        BY <3>3 DEF Reconciled
      <4> QED
        BY <1>2, <4>1 DEF SameWork
    <3> QED
      BY <3>1, <3>2, <3>3
  <2>2. rows' = [j \in Jobs |-> Reconciled(j)]
    BY <1>5 DEF Reconcile
  <2>3. \A j \in Jobs : SameWork(rows[j], rows'[j]) /\ rows'[j] \in Row
    BY <2>1, <2>2 DEF SameWork
  <2>4. rows' \in [Jobs -> Row]
    BY <2>2, <2>3
  <2>5. Local'
    BY <1>5 DEF Reconcile, Local
  <2> QED
    BY <1>3, <2>3, <2>4, <2>5
<1>6. CASE ReopenProtected
  <2>1. \A j \in Jobs : SameWork(rows[j], Reopened(j)) /\ SameWork(rows[j], rows[j])
    <3> TAKE j \in Jobs
    <3>1. SameWork(rows[j], rows[j])
      BY <1>2 DEF SameWork
    <3>2. CASE rows[j].state = "OBSOLETE"
      <4>1. Reopened(j) = [rows[j] EXCEPT !.state = "WAITING"]
        BY <3>2 DEF Reopened
      <4> QED
        BY <1>2, <3>1, <3>2, <4>1, StateChange DEF STATES
    <3>3. CASE rows[j].state # "OBSOLETE"
      BY <3>1, <3>3 DEF Reopened
    <3> QED
      BY <3>2, <3>3
  <2>2. rows' = [j \in Jobs |-> IF j \in found.protected THEN Reopened(j) ELSE rows[j]]
    BY <1>6 DEF ReopenProtected
  <2>3. \A j \in Jobs : SameWork(rows[j], rows'[j]) /\ rows'[j] \in Row
    BY <2>1, <2>2 DEF SameWork
  <2>4. rows' \in [Jobs -> Row]
    BY <2>2, <2>3
  <2>5. Local'
    BY <1>6 DEF ReopenProtected, Local
  <2> QED
    BY <1>3, <2>3, <2>4, <2>5
<1>7. CASE Claim
  <2>1. PICK X \in SUBSET Orphans, c \in Jobs :
          /\ Expired(X)[c].state = "WAITING" /\ Owned(c)
          /\ rows' = [Expired(X) EXCEPT ![c].state = "LEASED"]
          /\ held' = held \cup {c}
    BY <1>7 DEF Claim
  <2>2. \A j \in Jobs : SameWork(rows[j], Expired(X)[j])
    BY <1>2, ExpiredSameWork
  <2>3. \A j \in Jobs : rows'[j] = IF j = c THEN [Expired(X)[j] EXCEPT !.state = "LEASED"]
                                   ELSE Expired(X)[j]
    BY <2>1 DEF Expired
  <2>4. \A j \in Jobs : SameWork(rows[j], rows'[j]) /\ rows'[j] \in Row
    <3> TAKE j \in Jobs
    <3>1. CASE j = c
      <4>1. Expired(X)[j] \in Row
        BY <2>2 DEF SameWork
      <4>2. SameWork(Expired(X)[j], [Expired(X)[j] EXCEPT !.state = "LEASED"])
        BY <2>1, <3>1, <4>1, StateChange DEF STATES
      <4> QED
        BY <2>2, <2>3, <3>1, <4>2, SameWorkTransitive DEF SameWork
    <3>2. CASE j # c
      BY <2>2, <2>3, <3>2 DEF SameWork
    <3> QED
      BY <3>1, <3>2
  <2>5. rows' \in [Jobs -> Row]
    BY <2>1, <2>4 DEF Expired
  <2>6. \A j \in Jobs : Owned(j)' <=> Owned(j)
    BY <1>4, <2>4, <2>5
  <2>7. \A j \in held' : Owned(j)' /\ rows'[j].state # "ABSENT"
    <3>1. \A j \in held : Owned(j)' /\ rows'[j].state # "ABSENT" 
      BY <2>4, <2>6 DEF Local, SameWork
    <3>2. Owned(c)' /\ rows'[c].state # "ABSENT"
      <4>1. rows'[c].state = "LEASED"
        <5>1. Expired(X)[c] \in Row
          BY <2>2 DEF SameWork
        <5> QED
          BY <2>3, <5>1 DEF Row
      <4> QED
        BY <2>1, <2>6, <4>1
    <3> QED
      BY <2>1, <3>1, <3>2
  <2>8. Local'
    BY <1>7, <2>1, <2>7 DEF Claim, Local
  <2> QED
    BY <1>3, <2>4, <2>5, <2>8
<1>8. CASE \E X \in SUBSET Orphans : ClaimNothing(X)
  <2>1. PICK X \in SUBSET Orphans : ClaimNothing(X)
    BY <1>8
  <2>2. rows' = Expired(X) /\ held' = held /\ pc' = pc /\ todo' = todo
    BY <2>1 DEF ClaimNothing, process
  <2>3. \A j \in Jobs : SameWork(rows[j], rows'[j]) /\ rows'[j] \in Row
    BY <1>2, <2>2, ExpiredSameWork DEF SameWork
  <2>4. rows' \in [Jobs -> Row]
    BY <2>2, <2>3 DEF Expired
  <2>5. \A j \in Jobs : Owned(j)' <=> Owned(j)
    BY <1>4, <2>3, <2>4
  <2>6. Local'
    BY <2>2, <2>3, <2>5 DEF Local, SameWork
  <2> QED
    BY <1>3, <2>3, <2>4, <2>6
<1>9. CASE \E j \in Jobs : CompleteJob(j) \/ ReleaseJob(j)
  <2>1. PICK c \in Jobs, s \in {"COMPLETED", "WAITING"} : Settle(c, s)
    BY <1>9 DEF CompleteJob, ReleaseJob
  <2>2. /\ c \in held /\ held' = held \ {c} /\ pc' = pc /\ todo' = todo
        /\ rows' = [rows EXCEPT ![c].state = s]
    BY <2>1 DEF Settle
  <2>3. SameWork(rows[c], [rows[c] EXCEPT !.state = s])
    BY <1>2, <2>2, StateChange DEF Local, STATES
  <2>4. \A j \in Jobs : rows'[j] = IF j = c THEN [rows[j] EXCEPT !.state = s] ELSE rows[j]
    BY <1>2, <2>2
  <2>5. \A j \in Jobs : SameWork(rows[j], rows'[j]) /\ rows'[j] \in Row
    BY <1>2, <2>3, <2>4 DEF SameWork
  <2>6. rows' \in [Jobs -> Row]
    BY <1>2, <2>2, <2>5
  <2>7. \A j \in Jobs : Owned(j)' <=> Owned(j)
    BY <1>4, <2>5, <2>6
  <2>8. Local'
    BY <2>2, <2>5, <2>7 DEF Local, SameWork
  <2> QED
    BY <1>3, <2>5, <2>6, <2>8
<1> QED
  BY <1>5, <1>6, <1>7, <1>8, <1>9

\* Products, arrivals and crashes.
LEMMA OtherStepsKeep ==
  ASSUME Inv, \/ \E j \in Jobs : StoreProduct(j)
              \/ \E r \in Revisions : Receive(r)
              \/ RuntimeDies
              \/ UNCHANGED migrationVars
  PROVE  Inv'
<1> USE DEF Inv
<1>1. rows' = rows /\ laneMig' = laneMig /\ down' = down
  BY DEF StoreProduct, Receive, RuntimeDies, migrationVars, migrations
<1>2. received' \subseteq Revisions
  BY DEF StoreProduct, Receive, RuntimeDies, migrationVars, evidence, RowsTyped
<1>3. RowsTyped' /\ PlacedAll' /\ BeyondCursor' /\ NoneStale'
  BY <1>1, <1>2, SameRows DEF RowsTyped
<1>4. \/ held' = held /\ pc' = pc /\ todo' = todo
      \/ held' = {} /\ pc' = "idle" /\ todo' = {}
  BY DEF StoreProduct, Receive, RuntimeDies, migrationVars, process
<1>5. Local'
  BY <1>1, <1>4 DEF Local, Owned
<1> QED
  BY <1>3, <1>5

LEMMA NextKeeps == Inv /\ [MigrationNext]_migrationVars => Inv'
<1> SUFFICES ASSUME Inv, [MigrationNext]_migrationVars PROVE Inv'
  OBVIOUS
<1>1. CASE Sync
  BY <1>1, ClassifyPageKeeps, RepairPageKeeps, QuietSyncKeeps, EnqueueKeeps, StateStepsKeep
     DEF Sync
<1>2. CASE Claim \/ \E X \in SUBSET Orphans : ClaimNothing(X)
  BY <1>2, StateStepsKeep
<1>3. CASE Settlement
  BY <1>3, StateStepsKeep, OtherStepsKeep DEF Settlement
<1>4. CASE (\E r \in Revisions : Receive(r)) \/ RuntimeDies \/ UNCHANGED migrationVars
  BY <1>4, OtherStepsKeep
<1> QED
  BY <1>1, <1>2, <1>3, <1>4 DEF MigrationNext

THEOREM InvHolds == MigrationSpec => []Inv
<1>1. MigrationInit => Inv
  BY InitInv
<1>2. Inv /\ [MigrationNext]_migrationVars => Inv'
  BY NextKeeps
<1> QED
  BY <1>1, <1>2, PTL DEF MigrationSpec

(*****************************************************************************)
(* Whatever path put a row in its lane, claim_job hands out only work that   *)
(* is in the lane of the revision it is about: a claimed row is Owned, and   *)
(* an owned row is Placed.                                                   *)
(*****************************************************************************)
THEOREM OwnershipIsInherited == MigrationSpec => []OwnershipInherited
<1>1. Inv => OwnershipInherited
  <2> SUFFICES ASSUME Inv, NEW j \in held
               PROVE  /\ rows[j].lane = Side(About(j))
                      /\ About(j) \in Historical => rows[j].priority = "BACKGROUND"
    BY DEF OwnershipInherited
  <2>1. j \in Jobs /\ Owned(j)
    BY DEF Inv, Local
  <2> QED
    BY <2>1 DEF Inv, PlacedAll, Placed
<1> QED
  BY <1>1, InvHolds, PTL

(*******************************************************************************)
(* _install_annotation_contract_lanes and _install_downstream_work_provenance  *)
(* report COMPLETE only when no row is left to migrate, and no later step      *)
(* brings one back.                                                            *)
(*******************************************************************************)
THEOREM MigrationsLeaveNothing == MigrationSpec => []CompleteMeansAll
<1>1. Inv => CompleteMeansAll
  BY DEF Inv, BeyondCursor, NoneStale, CompleteMeansAll
<1> QED
  BY <1>1, InvHolds, PTL
-----------------------------------------------------------------------------
LeasedSame ==
  \A d \in Derived :
    rows[d].state = "LEASED" /\ rows'[d].state = "LEASED" => rows'[d] = rows[d]

\* The steps that change derived rows leave leased ones alone or end the lease.
LEMMA LeasedStep == Inv /\ [MigrationNext]_migrationVars => LeasedSame
<1> SUFFICES ASSUME Inv, [MigrationNext]_migrationVars, NEW d \in Derived,
                    rows[d].state = "LEASED", rows'[d].state = "LEASED"
             PROVE  rows'[d] = rows[d]
  BY DEF LeasedSame
<1>1. /\ rows \in [Jobs -> Row] /\ rows[d] \in Row /\ d \in Jobs
      /\ d \notin Revisions
  BY ContractMigrationAssumption DEF Inv, RowsTyped, Jobs
<1>2. CASE \/ StartSync \/ InstallLanes \/ InstallDownstream \/ Discover \/ DiscoverDerived
           \/ EndRound \/ RuntimeDies \/ UNCHANGED migrationVars
           \/ (\E j \in Jobs : StoreProduct(j)) \/ (\E r \in Revisions : Receive(r))
  BY <1>2 DEF StartSync, InstallLanes, InstallDownstream, Discover, DiscoverDerived,
              EndRound, RuntimeDies, migrationVars, StoreProduct, Receive
<1>3. CASE ClassifyPage
  <2>1. d \notin LanePageRows
    BY <1>1 DEF LanePageRows, FirstOf
  <2> QED
    BY <1>1, <1>3, <2>1 DEF ClassifyPage
<1>4. CASE RepairPage
  BY <1>1, <1>4 DEF RepairPage, Finalized
<1>5. CASE Enqueue \/ EnqueueDerived
  <2>1. ASSUME NEW x, NEW side, NEW priority, NEW reopen,
               rows' = [rows EXCEPT ![x] = Enqueued(x, side, priority, reopen)]
        PROVE  rows'[d] = rows[d]
    <3>1. Enqueued(d, side, priority, reopen) = rows[d]
      BY DEF Enqueued
    <3> QED
      BY <1>1, <2>1, <3>1
  <2>2. CASE Enqueue
    <3>1. PICK r \in todo :
            rows' = [rows EXCEPT ![r] = Enqueued(r, Side(r), SidePriority(r), TRUE)]
      BY <2>2 DEF Enqueue
    <3> QED
      BY <2>1, <3>1
  <2>3. CASE EnqueueDerived
    <3> DEFINE side(e) == rows[Parent[e]].lane
               priority(e) == InheritedPriority(
                 side(e), IF e \in Titles THEN "BACKGROUND" ELSE "NORMAL")
    <3>1. PICK e \in todo :
            rows' = IF ~Resolvable(e) THEN rows
                    ELSE [rows EXCEPT ![e] = Enqueued(e, side(e), priority(e), FALSE)]
      BY <2>3 DEF EnqueueDerived
    <3> HIDE DEF side, priority
    <3>2. CASE Resolvable(e)
      <4>1. rows' = [rows EXCEPT ![e] = Enqueued(e, side(e), priority(e), FALSE)]
        BY <3>1, <3>2
      <4> QED
        BY <2>1, <4>1
    <3>3. CASE ~Resolvable(e)
      BY <3>1, <3>3
    <3> QED
      BY <3>2, <3>3
  <2> QED
    BY <1>5, <2>2, <2>3
<1>6. CASE Reconcile
  <2>1. rows'[d] = Reconciled(d)
    BY <1>1, <1>6 DEF Reconcile
  <2>2. CASE d \in annotated \cup produced
    <3>1. Reconciled(d) = [rows[d] EXCEPT !.state = "COMPLETED"]
      BY <2>2 DEF Reconciled
    <3>2. Reconciled(d).state = "COMPLETED"
      BY <1>1, <3>1 DEF Row
    <3> QED
      BY <2>1, <3>2
  <2>3. CASE d \notin annotated \cup produced
    BY <1>1, <2>1, <2>3 DEF Reconciled
  <2> QED
    BY <2>2, <2>3
<1>7. CASE ReopenProtected
  BY <1>1, <1>7 DEF ReopenProtected, Reopened
<1>8. CASE Claim
  <2>1. PICK X \in SUBSET Orphans, c \in Jobs :
          /\ Expired(X)[c].state = "WAITING"
          /\ rows' = [Expired(X) EXCEPT ![c].state = "LEASED"]
    BY <1>8 DEF Claim
  <2>2. rows'[d] = IF d = c THEN [Expired(X)[d] EXCEPT !.state = "LEASED"] ELSE Expired(X)[d]
    BY <1>1, <2>1 DEF Expired
  <2>3. CASE d \in X
    <3>1. Expired(X)[d] = [rows[d] EXCEPT !.state = "WAITING"]
      BY <1>1, <2>3 DEF Expired
    <3>2. d = c
      BY <1>1, <2>2, <3>1 DEF Row
    <3>3. rows'[d] = [[rows[d] EXCEPT !.state = "WAITING"] EXCEPT !.state = "LEASED"]
      BY <2>2, <3>1, <3>2
    <3>4. PICK l \in WORK_LANES, p \in {"FAST", "NORMAL", "BACKGROUND"}, k \in BOOLEAN,
               v \in PROVENANCE :
            rows[d] = [state |-> "LEASED", lane |-> l, priority |-> p,
                       classified |-> k, provenance |-> v]
      BY <1>1 DEF Row
    <3> QED
      BY <3>3, <3>4
  <2>4. CASE d \notin X
    <3>1. Expired(X)[d] = rows[d]
      BY <1>1, <2>4 DEF Expired
    <3> QED
      BY <2>1, <2>2, <3>1
  <2> QED
    BY <2>3, <2>4
<1>9. CASE \E X \in SUBSET Orphans : ClaimNothing(X)
  <2>1. PICK X \in SUBSET Orphans : rows' = Expired(X)
    BY <1>9 DEF ClaimNothing
  <2>2. CASE d \in X
    BY <1>1, <2>1, <2>2 DEF Expired, Row
  <2>3. CASE d \notin X
    BY <1>1, <2>1, <2>3 DEF Expired
  <2> QED
    BY <2>2, <2>3
<1>10. CASE \E j \in Jobs : CompleteJob(j) \/ ReleaseJob(j)
  <2>1. PICK j \in Jobs, s \in {"COMPLETED", "WAITING"} :
          rows' = [rows EXCEPT ![j].state = s]
    BY <1>10 DEF CompleteJob, ReleaseJob, Settle
  <2> QED
    BY <1>1, <2>1 DEF Row
<1> QED
  BY <1>2, <1>3, <1>4, <1>5, <1>6, <1>7, <1>8, <1>9, <1>10 DEF MigrationNext, Sync, Settlement

(*****************************************************************************)
(* A lane that executes a derived job finds its row as it was when claimed:  *)
(* neither a migration page nor another enqueue moves it to another lane.    *)
(*****************************************************************************)
THEOREM LeasedStaysUndisturbed == MigrationSpec => LeasedUndisturbed
<1>1. Inv /\ [MigrationNext]_migrationVars => [LeasedSame]_migrationVars
  BY LeasedStep
<1>2. LeasedUndisturbed <=> [][LeasedSame]_migrationVars
  BY PTL DEF LeasedUndisturbed, LeasedSame
<1> QED
  BY <1>1, <1>2, InvHolds, PTL DEF MigrationSpec
-----------------------------------------------------------------------------
(*****************************************************************************)
(* The backfill.  Its cursor commits before the rows of its page do, so what *)
(* it has passed is annotated, has a row, or is still to be enqueued by the  *)
(* pass in progress, which a crash would forget.                             *)
(*****************************************************************************)
Reached(r) ==
  \/ r \in annotated \/ rows[r].state # "ABSENT"
  \/ pc = "enqueue" /\ r \in todo

Passed(r) == backfill.state = "COMPLETE" \/ backfill.cursor <= Received[r]

Walked ==
  /\ Historical \subseteq received
  /\ crashes \in Nat
  /\ backfill \in [state : {"NONE", "ACTIVE", "COMPLETE"}, cursor : Nat]
  /\ crashes = 0 => \A r \in Valued : Passed(r) => Reached(r)

\* The cursor of a page is the least rank of its rows.
LEMMA LeastCursor ==
  ASSUME NEW c \in Nat, NEW page \in SUBSET Revisions
  PROVE  LET ranks == {c} \cup {Received[r] : r \in page}
         IN Min(ranks) \in Nat /\ Min(ranks) \in ranks /\ \A k \in ranks : Min(ranks) <= k
<1> DEFINE ranks == {c} \cup {Received[r] : r \in page}
<1>1. \A r \in Revisions : Received[r] \in Nat
  BY ContractMigrationAssumption
<1>2. ranks \in SUBSET Nat /\ ranks # {}
  BY <1>1
<1> HIDE DEF ranks
<1>3. \E m \in ranks : \A k \in ranks : m <= k
  BY <1>2, HasLeast
<1>4. Min(ranks) \in ranks /\ \A k \in ranks : Min(ranks) <= k
  BY <1>3 DEF Min
<1>5. Min(ranks) \in Nat
  BY <1>2, <1>4
<1> QED
  BY <1>4, <1>5 DEF ranks

\* A page of the walk: what it leaves out is older than all of it, and a short
\* page leaves out nothing.
LEMMA ScanIsPage ==
  ASSUME Inv, backfill.state # "COMPLETE", backfill.cursor \in Nat,
         NEW size \in Nat \ {0}
  PROVE  LET S == {r \in Discoverable \cap Historical : Received[r] < backfill.cursor}
             scanned == ScanRows(size)
         IN /\ scanned \in SUBSET S /\ S \subseteq Revisions
            /\ \A r \in S \ scanned : \A p \in scanned : Received[r] < Received[p]
            /\ ScanExhausted(scanned, size) => scanned = S
<1> DEFINE S == {r \in Discoverable \cap Historical : Received[r] < backfill.cursor}
           order == [r \in Revisions |-> Latest - Received[r]]
           scanned == ScanRows(size)
<1>1. /\ IsFiniteSet(Revisions) /\ Historical \subseteq Revisions
      /\ Received \in [Revisions -> 1 .. Latest - 1]
  BY ContractMigrationAssumption
<1>2. Latest \in Nat
  BY <1>1, FS_CardinalityType DEF Latest
<1>3. order \in [Revisions -> Nat]
  <2>1. \A r \in Revisions : Latest - Received[r] \in Nat
    BY <1>1, <1>2
  <2> QED
    BY <2>1
<1>4. S \in SUBSET Revisions /\ IsFiniteSet(S)
  BY <1>1, FS_Subset
<1>5. scanned = FirstOf(S, order, size)
  BY DEF ScanRows
<1> HIDE DEF S, order, scanned
<1>6. /\ scanned \subseteq S
      /\ \A r \in S \ scanned : \A p \in scanned : order[p] < order[r]
      /\ Cardinality(scanned) < size => scanned = S
  BY <1>3, <1>4, <1>5, FirstOfIsPage
<1>7. ASSUME NEW r \in S \ scanned, NEW p \in scanned
      PROVE  Received[r] < Received[p]
  <2>1. r \in Revisions /\ p \in Revisions
    BY <1>4, <1>6
  <2>2. order[p] < order[r]
    BY <1>6
  <2>3. Latest - Received[p] < Latest - Received[r]
    BY <2>1, <2>2 DEF order
  <2>4. Received[p] \in Nat /\ Received[r] \in Nat
    BY <1>1, <1>2, <2>1
  <2> QED
    BY <1>2, <2>3, <2>4
<1> QED
  BY <1>4, <1>6, <1>7 DEF S, scanned, ScanExhausted

\* What the walk passes in this step it has read or does not need.
LEMMA DiscoverWalks ==
  ASSUME Inv, Walked, Discover
  PROVE  Walked'
<1>1. PICK days \in SUBSET Days :
        \E live \in Selections(Discoverable \ Historical, LiveCapacity) :
        \E protected \in Selections(Discoverable \cap Historical, ProtectedCapacity(days)) :
          LET size == OrdinaryCapacity(protected)
              scanned == ScanRows(size)
          IN /\ todo' = live \cup protected \cup (scanned \cap Valued)
             /\ backfill' =
               IF backfill.state = "COMPLETE" \/ size <= 0 THEN backfill
               ELSE [cursor |-> Min({backfill.cursor} \cup {Received[r] : r \in scanned}),
                     state |-> IF ScanExhausted(scanned, size) THEN "COMPLETE" ELSE "ACTIVE"]
  BY DEF Discover
<1>2. PICK live \in Selections(Discoverable \ Historical, LiveCapacity),
           protected \in Selections(Discoverable \cap Historical, ProtectedCapacity(days)) :
          LET size == OrdinaryCapacity(protected)
              scanned == ScanRows(size)
          IN /\ todo' = live \cup protected \cup (scanned \cap Valued)
             /\ backfill' =
               IF backfill.state = "COMPLETE" \/ size <= 0 THEN backfill
               ELSE [cursor |-> Min({backfill.cursor} \cup {Received[r] : r \in scanned}),
                     state |-> IF ScanExhausted(scanned, size) THEN "COMPLETE" ELSE "ACTIVE"]
  BY <1>1
<1> DEFINE size == OrdinaryCapacity(protected)
           scanned == ScanRows(size)
           after == Min({backfill.cursor} \cup {Received[r] : r \in scanned})
<1>3. /\ pc = "discover" /\ pc' = "enqueue"
      /\ UNCHANGED <<received, annotated, rows, crashes>>
  BY DEF Discover, evidence
<1>4. size \in Int
  <2>1. BackfillCapacity \in Nat
    BY ContractMigrationAssumption DEF BackfillCapacity, Min2, Max2
  <2>2. protected \in SUBSET Revisions /\ IsFiniteSet(Revisions)
    BY ContractMigrationAssumption DEF Selections
  <2>3. Cardinality(protected) \in Nat
    BY <2>2, FS_Subset, FS_CardinalityType
  <2> QED
    BY <2>1, <2>3 DEF OrdinaryCapacity
<1>5. todo' = live \cup protected \cup (scanned \cap Valued)
  BY <1>2
<1>6. \A r \in Valued : r \in Revisions /\ r \in Historical /\ Received[r] \in Nat
  BY ContractMigrationAssumption
<1>7. ASSUME NEW r \in Valued, r \in annotated \/ rows[r].state # "ABSENT"
      PROVE  Reached(r)'
  BY <1>3, <1>7 DEF Reached
<1>8. ASSUME NEW r \in Valued, crashes = 0, Passed(r)
      PROVE  Reached(r)'
  <2>1. Reached(r)
    BY <1>8 DEF Walked
  <2>2. r \in annotated \/ rows[r].state # "ABSENT"
    BY <1>3, <2>1 DEF Reached
  <2> QED
    BY <1>7, <2>2
<1>9. CASE backfill.state = "COMPLETE" \/ size <= 0
  <2>1. backfill' = backfill
    BY <1>2, <1>9
  <2>2. \A r \in Valued : Passed(r)' <=> Passed(r)
    BY <2>1 DEF Passed
  <2> QED
    BY <1>3, <1>8, <2>1, <2>2 DEF Walked
<1>10. CASE backfill.state # "COMPLETE" /\ size > 0
  <2>1. backfill' = [cursor |-> after,
                     state |-> IF ScanExhausted(scanned, size) THEN "COMPLETE" ELSE "ACTIVE"]
    BY <1>2, <1>4, <1>10
  <2> DEFINE S == {r \in Discoverable \cap Historical : Received[r] < backfill.cursor}
  <2>2. backfill.cursor \in Nat /\ size \in Nat \ {0}
    BY <1>4, <1>10 DEF Walked
  <2> HIDE DEF size
  <2>3. /\ scanned \in SUBSET S /\ S \subseteq Revisions
        /\ \A r \in S \ scanned : \A p \in scanned : Received[r] < Received[p]
        /\ ScanExhausted(scanned, size) => scanned = S
    BY <1>10, <2>2, ScanIsPage
  <2> HIDE DEF scanned
  <2>4. /\ after \in Nat
        /\ after = backfill.cursor \/ \E p \in scanned : after = Received[p]
    <3>1. scanned \in SUBSET Revisions
      BY <2>3
    <3>2. after \in Nat /\ after \in {backfill.cursor} \cup {Received[r] : r \in scanned}
      BY <2>2, <3>1, LeastCursor
    <3> HIDE DEF after
    <3> QED
      BY <3>2
  <2> HIDE DEF after
  <2>5. backfill' \in [state : {"NONE", "ACTIVE", "COMPLETE"}, cursor : Nat]
    BY <2>1, <2>4
  <2>6. backfill'.cursor = after
          /\ (backfill'.state = "COMPLETE" => ScanExhausted(scanned, size))
    BY <2>1
  <2>7. ASSUME NEW r \in Valued, crashes = 0, Passed(r)'
        PROVE  Reached(r)'
    <3>1. CASE r \in annotated \/ rows[r].state # "ABSENT"
      BY <1>7, <3>1
    <3>2. CASE r \in scanned
      BY <1>3, <1>5, <3>2 DEF Reached
    <3>3. CASE backfill.cursor <= Received[r]
      BY <1>8, <2>7, <3>3 DEF Passed
    <3>4. CASE ~(backfill.cursor <= Received[r]) /\ r \notin annotated /\ rows[r].state = "ABSENT"
      <4>1. r \in S
        BY <1>6, <2>2, <3>4 DEF Discoverable, Walked
      <4>2. CASE ScanExhausted(scanned, size)
        BY <2>3, <3>2, <4>1, <4>2
      <4>3. CASE after <= Received[r] /\ r \notin scanned
        <5>1. Received[r] < backfill.cursor /\ Received[r] \in Nat
          BY <1>6, <2>2, <3>4
        <5>2. PICK p \in scanned : after = Received[p]
          BY <2>2, <2>4, <4>3, <5>1
        <5>3. Received[r] < Received[p]
          BY <2>3, <4>1, <4>3
        <5> QED
          BY <2>4, <4>3, <5>1, <5>2, <5>3
      <4> QED
        BY <2>6, <2>7, <3>2, <4>2, <4>3 DEF Passed
    <3> QED
      BY <3>1, <3>3, <3>4
  <2> QED
    BY <1>3, <2>5, <2>7 DEF Walked
<1> QED
  BY <1>4, <1>9, <1>10

\* No step takes a row away.
LEMMA RowsStay ==
  ASSUME Inv, [MigrationNext]_migrationVars, NEW j \in Jobs, rows[j].state # "ABSENT"
  PROVE  rows'[j].state # "ABSENT"
<1>1. rows \in [Jobs -> Row] /\ rows[j] \in Row /\ Revisions \subseteq Jobs /\ Derived \subseteq Jobs
  BY DEF Inv, RowsTyped, Jobs
<1>2. CASE rows' = rows
  BY <1>2
<1>3. CASE ClassifyPage
  <2>1. rows'[j] = rows[j] \/ rows'[j] = Classified(j)
    BY <1>3 DEF ClassifyPage
  <2>2. Classified(j).state \in {rows[j].state, "OBSOLETE"}
    BY <1>1 DEF Classified, Row
  <2> QED
    BY <2>1, <2>2
<1>4. CASE RepairPage
  <2>1. rows'[j] = rows[j] \/ rows'[j] = Provenanced(j)
    BY <1>4 DEF RepairPage
  <2>2. Provenanced(j).state = rows[j].state
    BY <1>1 DEF Provenanced, Row
  <2> QED
    BY <2>1, <2>2
<1>e. ASSUME NEW x \in Jobs, NEW side, NEW priority, NEW reopen
      PROVE  Enqueued(x, side, priority, reopen).state # "ABSENT"
              \/ Enqueued(x, side, priority, reopen) = rows[x]
  BY <1>1 DEF Enqueued, Row, Inv, RowsTyped
<1>5. CASE Enqueue \/ EnqueueDerived
  <2>1. \/ rows' = rows
        \/ \E x \in Jobs : \E side, priority, reopen :
             rows' = [rows EXCEPT ![x] = Enqueued(x, side, priority, reopen)]
    <3>1. todo \subseteq Jobs
      BY <1>1, <1>5 DEF Inv, Local, Enqueue, EnqueueDerived
    <3>2. CASE Enqueue
      <4>1. PICK r \in todo : rows' = [rows EXCEPT ![r] =
                                         Enqueued(r, Side(r), SidePriority(r), TRUE)]
        BY <3>2 DEF Enqueue
      <4> QED
        BY <3>1, <4>1
    <3>3. CASE EnqueueDerived
      BY <3>1, <3>3 DEF EnqueueDerived
    <3> QED
      BY <1>5, <3>2, <3>3
  <2> QED
    BY <1>1, <1>e, <2>1
<1>6. CASE Reconcile
  <2>1. rows'[j] = Reconciled(j)
    BY <1>6 DEF Reconcile
  <2>2. Reconciled(j).state # "ABSENT"
    BY <1>1 DEF Reconciled, Row
  <2> QED
    BY <2>1, <2>2
<1>7. CASE ReopenProtected
  <2>1. rows'[j] = rows[j] \/ rows'[j] = Reopened(j)
    BY <1>7 DEF ReopenProtected
  <2>2. Reopened(j).state # "ABSENT"
    BY <1>1 DEF Reopened, Row
  <2> QED
    BY <2>1, <2>2
<1>8. CASE Claim \/ \E X \in SUBSET Orphans : ClaimNothing(X)
  <2>1. PICK X \in SUBSET Orphans :
          rows' = Expired(X) \/ \E i \in Jobs : rows' = [Expired(X) EXCEPT ![i].state = "LEASED"]
    BY <1>8 DEF Claim, ClaimNothing
  <2>2. \A i \in Jobs : SameWork(rows[i], Expired(X)[i])
    BY <1>1, ExpiredSameWork
  <2>3. Expired(X) \in [Jobs -> Row]
    BY <2>2 DEF Expired, SameWork
  <2>4. \A i \in Jobs : [Expired(X)[i] EXCEPT !.state = "LEASED"].state = "LEASED"
    BY <2>3 DEF Row
  <2> QED
    BY <1>1, <2>1, <2>2, <2>3, <2>4 DEF SameWork
<1>9. CASE \E i \in Jobs : CompleteJob(i) \/ ReleaseJob(i)
  <2>1. PICK i \in Jobs, s \in {"COMPLETED", "WAITING"} : rows' = [rows EXCEPT ![i].state = s]
    BY <1>9 DEF CompleteJob, ReleaseJob, Settle
  <2> QED
    BY <1>1, <2>1 DEF Row
<1>10. CASE \/ StartSync \/ InstallLanes \/ InstallDownstream \/ Discover \/ DiscoverDerived
            \/ EndRound \/ RuntimeDies \/ UNCHANGED migrationVars
            \/ \E i \in Jobs : StoreProduct(i)
            \/ \E r \in Revisions : Receive(r)
  BY <1>2, <1>10 DEF StartSync, InstallLanes, InstallDownstream, Discover, DiscoverDerived,
     EndRound, RuntimeDies, migrationVars, StoreProduct, Receive
<1> QED
  BY <1>3, <1>4, <1>5, <1>6, <1>7, <1>8, <1>9, <1>10 DEF MigrationNext, Sync, Settlement

\* What the pass in progress enqueues has a row.
LEMMA EnqueueReaches ==
  ASSUME Inv, Enqueue, NEW r \in todo, r \notin todo'
  PROVE  rows'[r].state # "ABSENT"
<1>1. PICK x \in todo : /\ rows' = [rows EXCEPT ![x] = Enqueued(x, Side(x), SidePriority(x), TRUE)]
                        /\ todo' = todo \ {x}
  BY DEF Enqueue
<1>2. r = x
  BY <1>1
<1>3. rows \in [Jobs -> Row] /\ r \in Jobs /\ rows[r] \in Row
  BY DEF Inv, RowsTyped, Local, Enqueue, Jobs
<1>4. rows'[r] = Enqueued(r, Side(r), SidePriority(r), TRUE)
  BY <1>1, <1>2, <1>3
<1>5. Enqueued(r, Side(r), SidePriority(r), TRUE).state # "ABSENT"
  BY <1>3 DEF Enqueued, Row
<1> QED
  BY <1>4, <1>5

\* Every other step keeps the cursor and forgets nothing the walk has passed.
LEMMA WalkedStep == Inv /\ Walked /\ [MigrationNext]_migrationVars => Walked'
<1> SUFFICES ASSUME Inv, Walked, [MigrationNext]_migrationVars PROVE Walked'
  OBVIOUS
<1>1. CASE Discover
  BY <1>1, DiscoverWalks
<1>2. CASE ~Discover
  <2>1. /\ backfill'.cursor = backfill.cursor
        /\ backfill'.state = "COMPLETE" <=> backfill.state = "COMPLETE"
        /\ backfill' \in [state : {"NONE", "ACTIVE", "COMPLETE"}, cursor : Nat]
    <3>1. CASE InstallLanes
      BY <3>1 DEF InstallLanes, Walked
    <3>2. CASE ~InstallLanes
      <4>1. backfill' = backfill
        BY <1>2, <3>2 DEF MigrationNext, migrationVars, Sync, StartSync, ClassifyPage, InstallDownstream,
           RepairPage, Enqueue, DiscoverDerived, EnqueueDerived, Reconcile, ReopenProtected,
           EndRound, Claim, Settlement, StoreProduct, CompleteJob, ReleaseJob, Settle,
           ClaimNothing, Receive, RuntimeDies, migrations
      <4> QED
        BY <4>1 DEF Walked
    <3> QED
      BY <3>1, <3>2
  <2>2. received \subseteq received' /\ annotated \subseteq annotated'
    BY DEF MigrationNext, migrationVars, Sync, StartSync, InstallLanes, ClassifyPage, InstallDownstream,
       RepairPage, Discover, Enqueue, DiscoverDerived, EnqueueDerived, Reconcile,
       ReopenProtected, EndRound, Claim, Settlement, StoreProduct, CompleteJob, ReleaseJob,
       Settle, ClaimNothing, Receive, RuntimeDies, evidence
  <2>3. \/ crashes' = crashes /\ ~RuntimeDies
        \/ crashes' = crashes + 1
    BY DEF MigrationNext, migrationVars, Sync, StartSync, InstallLanes, ClassifyPage, InstallDownstream,
       RepairPage, Discover, Enqueue, DiscoverDerived, EnqueueDerived, Reconcile,
       ReopenProtected, EndRound, Claim, Settlement, StoreProduct, CompleteJob, ReleaseJob,
       Settle, ClaimNothing, Receive, RuntimeDies, process
  <2>4. Historical \subseteq received' /\ crashes' \in Nat
    BY <2>2, <2>3 DEF Walked
  <2>5. ASSUME NEW r \in Valued, crashes' = 0, Passed(r)'
        PROVE  Reached(r)'
    <3>1. crashes = 0 /\ ~RuntimeDies
      BY <2>3, <2>5 DEF Walked
    <3>2. Reached(r)
      BY <2>1, <2>5, <3>1 DEF Walked, Passed
    <3>3. CASE r \in annotated
      BY <2>2, <3>3 DEF Reached
    <3>4. CASE rows[r].state # "ABSENT"
      <4>1. r \in Jobs
        BY ContractMigrationAssumption DEF Jobs
      <4> QED
        BY <3>4, <4>1, RowsStay DEF Reached
    <3>5. CASE pc = "enqueue" /\ r \in todo
      <4>1. CASE Enqueue
        <5>1. pc' = "enqueue"
          BY <4>1 DEF Enqueue
        <5> QED
          BY <3>5, <4>1, <5>1, EnqueueReaches DEF Reached
      <4>2. CASE ~Enqueue
        <5>1. pc' = pc /\ todo' = todo
          BY <1>2, <3>1, <3>5, <4>2 DEF MigrationNext, migrationVars, Sync, StartSync, InstallLanes,
             ClassifyPage, InstallDownstream, RepairPage, DiscoverDerived, EnqueueDerived,
             Reconcile, ReopenProtected, EndRound, Claim, Settlement, StoreProduct,
             CompleteJob, ReleaseJob, Settle, ClaimNothing, Receive, process
        <5> QED
          BY <3>5, <5>1 DEF Reached
      <4> QED
        BY <4>1, <4>2
    <3> QED
      BY <3>2, <3>3, <3>4, <3>5 DEF Reached
  <2> QED
    BY <2>1, <2>4, <2>5 DEF Walked
<1> QED
  BY <1>1, <1>2

\* Until a pass is interrupted, the walk over the historical revisions leaves
\* none worth annotating behind: when it is COMPLETE each is annotated or has a
\* row, whatever pages, limits, protected days and arrivals shared the passes.
THEOREM BackfillUnlessInterrupted == MigrationSpec => [](crashes = 0 => BackfillFindsAll)
<1>1. MigrationInit => Walked
  <2> SUFFICES ASSUME MigrationInit PROVE Walked
    OBVIOUS
  <2>1. /\ backfill = [state |-> "NONE", cursor |-> Latest] /\ crashes = 0
        /\ Historical \subseteq received
    BY DEF MigrationInit
  <2>2. Latest \in Nat /\ \A r \in Valued : Received[r] \in 1 .. Latest - 1
    BY ContractMigrationAssumption, FS_CardinalityType DEF Latest
  <2>3. \A r \in Valued : ~(Latest <= Received[r])
    BY <2>2
  <2> QED
    BY <2>1, <2>2, <2>3 DEF Walked, Passed
<1>2. Inv /\ Walked /\ [MigrationNext]_migrationVars => Walked'
  BY WalkedStep
<1>3. Walked => (crashes = 0 => BackfillFindsAll)
  BY DEF Walked, Passed, Reached, BackfillFindsAll
<1> QED
  BY <1>1, <1>2, <1>3, InvHolds, PTL DEF MigrationSpec
=============================================================================
