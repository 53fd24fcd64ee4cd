-------------------------- MODULE ProviderAdmission --------------------------
(*****************************************************************************)
(* Admission of provider requests: the account quota of one quota surface    *)
(* (requests per day, rolling requests and input tokens per minute, the      *)
(* contract backfill gate) and the shared Google dispatch governor.          *)
(* Every action is one BEGIN IMMEDIATE transaction of a lane, or time.       *)
(* Source: xauusd_news/news/scheduler/state.py, model_gateway.py,            *)
(* xauusd_news/ai/model_gateway.py.                                          *)
(*                                                                           *)
(* Times and intervals are milliseconds.  The daily, minute and hourly       *)
(* counters are written with the usage row and only added to, so they are    *)
(* sums over the usage rows here.                                            *)
(*****************************************************************************)
EXTENDS Integers, Sequences, FiniteSetsExt

CONSTANTS
  Lanes, Accounts,
  Classes,       \* provider task classes
  ClassRank,     \* their alphabetical order
  Asks,          \* the requests lanes make in this instance
  Pressures,     \* pressure vectors a class may have
  LiveSignals,   \* whether LIVE work may press on the backfill gate
  Answers,       \* outcomes providers give in this instance
  WINDOW,        \* the rolling minute
  DAY,           \* the quota day
  DAILY, RPM, TPM,
  RESERVE,       \* GEMINI_DAILY_PRIORITY_RESERVE
  FORECAST,      \* predicted LIVE requests of the rest of the day
  HEADROOM,      \* operational reserve and safety buffer of the backfill gate
  SHARE,         \* BACKFILL_MAX_SHARE_DENOMINATOR
  PRESSURE_WINDOW, \* how long a throttle keeps backfill out
  INITIAL, MINIMUM, MAXIMUM,   \* dispatch intervals
  TTL,           \* PROVIDER_DISPATCH_DEMAND_TTL
  SECOND, MAX_WAIT,            \* bounds of an honoured Retry-After
  RetryAfters,   \* Retry-After values providers send, Absent when none
  Reports,       \* prompt tokens providers report, 0 when none
  Absent,
  Steps,         \* amounts of time the clock may advance by
  MaxTime, MaxRequests         \* bounds: the clock, admitted requests

VARIABLES
  now,
  usage,      \* news_ai_account_request_usage_v1, in the order of admission
  next,       \* next_eligible_at of the governor
  interval,   \* interval_ms
  cooldown,   \* cooldown_until, 0 for NULL
  demand,     \* demand_until of each class, 0 when it never asked
  last,       \* last_dispatched_at of each class, 0 when never
  pressure,   \* current pressure of each class
  livePressure, \* the queue shows LIVE work that backfill must yield to
  lane,       \* what each lane has in flight
  deadline,   \* history: the latest Retry-After deadline recorded
  passed      \* history: times d was served while c waited undominated

vars == <<now, usage, next, interval, cooldown, demand, last, pressure,
          livePressure, lane, deadline, passed>>

OUTCOMES == {"PROVIDER_SUCCEEDED", "PROVIDER_THROTTLED", "PROVIDER_FAILED"}
WORKLOADS == {"LIVE_OPERATIONAL", "CONTRACT_BACKFILL"}

ASSUME AdmissionAssumption ==
  /\ \A q \in Asks :
       /\ q.account \in Accounts /\ q.class \in Classes
       /\ q.count \in Nat \ {0} /\ q.tokens \in Nat
       /\ q.urgent \in BOOLEAN /\ q.reserved \in BOOLEAN /\ q.work \in WORKLOADS
  /\ ClassRank \in [Classes -> Nat]
  /\ INITIAL \in Nat /\ MINIMUM \in Nat /\ MAXIMUM \in Nat
  /\ 0 < MINIMUM /\ MINIMUM <= INITIAL /\ INITIAL <= MAXIMUM
  /\ SECOND \in Nat \ {0} /\ MAX_WAIT \in Nat /\ SECOND <= MAX_WAIT
  /\ RPM \in Nat /\ TPM \in Nat /\ DAILY \in Nat
  /\ RESERVE \in Nat /\ FORECAST \in Nat /\ HEADROOM \in Nat
  /\ TTL \in Nat /\ WINDOW \in Nat \ {0} /\ DAY \in Nat \ {0}
  /\ LiveSignals \subseteq BOOLEAN /\ Answers \subseteq OUTCOMES
  /\ RetryAfters \subseteq Nat \cup {Absent} /\ Absent = -1
  /\ Reports \subseteq Nat /\ Steps \subseteq Nat \ {0}

Larger(a, b) == IF a >= b THEN a ELSE b
Smaller(a, b) == IF a <= b THEN a ELSE b

InFlight(pc, i) == [pc |-> pc, usage |-> i, at |-> 0, outcome |-> "none",
                    retry |-> Absent]
Resting == InFlight("idle", 0)

Init ==
  /\ now = 1 /\ usage = <<>>
  /\ next = 0 /\ interval = INITIAL /\ cooldown = 0
  /\ demand = [c \in Classes |-> 0] /\ last = [c \in Classes |-> 0]
  /\ pressure \in [Classes -> Pressures]
  /\ livePressure = FALSE
  /\ lane = [l \in Lanes |-> Resting]
  /\ deadline = 0
  /\ passed = [c \in Classes |-> [d \in Classes |-> 0]]
-----------------------------------------------------------------------------
(* Account quota. *)

Rows == 1..Len(usage)

\* The counter that n rows, the i-th of them worth f[i], have added to.
Total(n, f) ==
  LET sum[k \in 0..n] == IF k = 0 THEN 0 ELSE sum[k - 1] + f[k] IN sum[n]

\* The requests and the input tokens of a set of rows.
Requests(S) == Total(Len(usage), [i \in Rows |-> IF i \in S THEN usage[i].count ELSE 0])

Effective(u) == IF u.outcome = "PROVIDER_SUCCEEDED" /\ u.reported > 0
                THEN u.reported ELSE u.tokens
Tokens(S) ==
  Total(Len(usage), [i \in Rows |-> IF i \in S THEN Effective(usage[i]) ELSE 0])

\* The usage rows of the trailing minute.
Recent(a, t) ==
  {i \in Rows : usage[i].account = a /\ t - WINDOW < usage[i].at /\ usage[i].at <= t}

Today(a, t) ==
  {i \in Rows : usage[i].account = a /\ usage[i].at \div DAY = t \div DAY}

UsableDaily(q) ==
  IF q.urgent \/ ~q.reserved THEN DAILY ELSE Larger(0, DAILY - RESERVE)

MinuteAdmits(q, S) ==
  /\ Requests(S) + q.count <= RPM
  /\ Tokens(S) + q.tokens <= TPM

\* Mutant: the forecast of live requests is left out of the budget.
ReserveOnlyBudget(a) == Larger(0, DAILY - Requests(Today(a, now)) - HEADROOM)

SafeBudget(a) ==
  Larger(0, Larger(0, DAILY - Requests(Today(a, now))) - FORECAST - HEADROOM)

\* _backfill_admission_locked, with enough history to forecast from.
BackfillAdmits(q) ==
  LET recent == Recent(q.account, now)
      backfill == {i \in recent : usage[i].work = "CONTRACT_BACKFILL"}
  IN /\ ~livePressure
     /\ ~\E i \in Rows : /\ usage[i].account = q.account
                         /\ usage[i].at >= now - PRESSURE_WINDOW
                         /\ usage[i].outcome = "PROVIDER_THROTTLED"
     /\ Requests(backfill) < Larger(1, (Requests(recent) + 1) \div SHARE)
     /\ SafeBudget(q.account) >= q.count

QuotaAdmits(q) ==
  /\ q.work = "CONTRACT_BACKFILL" => BackfillAdmits(q)
  /\ Requests(Today(q.account, now)) + q.count <= UsableDaily(q)
  /\ MinuteAdmits(q, Recent(q.account, now))

\* _minute_capacity_next_eligible: the first expiry that admits q, 0 for none.
NextEligible(q) ==
  LET recent == Recent(q.account, now)
      admitting == {i \in recent :
        MinuteAdmits(q, {k \in recent : usage[k].at > usage[i].at})}
  IN IF admitting = {} THEN 0
     ELSE Min({usage[i].at : i \in admitting}) + WINDOW
-----------------------------------------------------------------------------
(* The dispatch governor. *)

Dominates(p, q) ==
  /\ \A k \in DOMAIN p : p[k] >= q[k]
  /\ \E k \in DOMAIN p : p[k] > q[k]

Live(d) == {c \in Classes : d[c] >= now}

Frontier(d) ==
  {c \in Live(d) : ~\E o \in Live(d) : Dominates(pressure[o], pressure[c])}

\* Mutant: undominated classes are served in alphabetical order.
AlphabeticalTurn(c, d) ==
  c \in Frontier(d) /\ \A o \in Frontier(d) : ClassRank[c] <= ClassRank[o]

\* The class _selected_provider_task returns: never dispatched first, then
\* the least recently dispatched.
HasTurn(c, d) ==
  /\ c \in Frontier(d)
  /\ \A o \in Frontier(d) :
       \/ last[c] < last[o]
       \/ last[c] = last[o] /\ ClassRank[c] <= ClassRank[o]

Asking(c) == [demand EXCEPT ![c] = now + TTL]

\* Mutant: only the cooldown is checked, never the next slot.
CooldownOver == cooldown <= now

SlotOpen == next <= now /\ cooldown <= now

Reserve(l, q) ==
  /\ lane[l].pc = "idle" /\ Len(usage) < MaxRequests
  /\ QuotaAdmits(q) /\ SlotOpen /\ HasTurn(q.class, Asking(q.class))
  /\ demand' = Asking(q.class)
  /\ last' = [last EXCEPT ![q.class] = now]
  /\ next' = now + interval
  /\ usage' = Append(usage,
       [account |-> q.account, class |-> q.class, count |-> q.count,
        tokens |-> q.tokens, urgent |-> q.urgent, reserved |-> q.reserved,
        work |-> q.work, at |-> now, gap |-> interval,
        outcome |-> "none", reported |-> 0])
  /\ lane' = [lane EXCEPT ![l] = InFlight("reserved", Len(usage) + 1)]
  /\ passed' = [c \in Classes |->
       IF c = q.class THEN [d \in Classes |-> 0]
       ELSE IF c \in Frontier(demand')
            THEN [passed[c] EXCEPT ![q.class] = @ + 1] ELSE passed[c]]
  /\ UNCHANGED <<now, interval, cooldown, pressure, livePressure, deadline>>

\* A denied slot reserves nothing, but its demand is committed.  A request the
\* quota denies is rolled back whole.
DispatchDeferred(l, q) ==
  /\ lane[l].pc = "idle"
  /\ QuotaAdmits(q) /\ ~(SlotOpen /\ HasTurn(q.class, Asking(q.class)))
  /\ demand' = Asking(q.class)
  /\ UNCHANGED <<now, usage, next, interval, cooldown, last, pressure,
                 livePressure, lane, deadline, passed>>

\* Retrieval and the daily brief announce demand without asking for a slot.
RegisterDemand(c) ==
  /\ demand' = Asking(c)
  /\ UNCHANGED <<now, usage, next, interval, cooldown, last, pressure,
                 livePressure, lane, deadline, passed>>

MarkAttempted(l) ==
  /\ lane[l].pc = "reserved"
  /\ lane' = [lane EXCEPT ![l].pc = "attempted"]
  /\ UNCHANGED <<now, usage, next, interval, cooldown, demand, last, pressure,
                 livePressure, deadline, passed>>

\* record_account_request_outcome: the usage row first, in its own transaction.
\* Tokens reported with a failure are stored but never read.
RecordOutcome(l, o, reported, retry) ==
  /\ lane[l].pc = "attempted"
  /\ IF o = "PROVIDER_SUCCEEDED" THEN retry = Absent ELSE reported = 0
  /\ usage' = [usage EXCEPT ![lane[l].usage].outcome = o,
                            ![lane[l].usage].reported = reported]
  /\ lane' = [lane EXCEPT ![l].pc = "answered", ![l].at = now,
                          ![l].outcome = o, ![l].retry = retry]
  /\ UNCHANGED <<now, next, interval, cooldown, demand, last, pressure,
                 livePressure, deadline, passed>>

\* round(interval * 0.9), ties to even.
Eased(i) ==
  LET whole == (i * 9) \div 10
      part == (i * 9) % 10
  IN IF part > 5 \/ (part = 5 /\ whole % 2 = 1) THEN whole + 1 ELSE whole

Wait(retry, fallback) ==
  IF retry = Absent THEN fallback
  ELSE Larger(SECOND, Smaller(MAX_WAIT, retry * SECOND))

\* Mutant: the cooldown alone holds a deadline, as if it were only extended.
CooldownOnly(until) == next

HeldUntil(until) == Larger(next, until)

Slower == Smaller(MAXIMUM, Larger(INITIAL, interval * 2))

\* record_provider_dispatch_outcome, at the time the usage row was closed.
Throttled(l) ==
  LET until == lane[l].at + Wait(lane[l].retry, Slower)
  IN /\ lane[l].outcome = "PROVIDER_THROTTLED"
     /\ interval' = Slower /\ cooldown' = until /\ next' = HeldUntil(until)
     /\ deadline' = IF lane[l].retry = Absent THEN deadline
                    ELSE Larger(deadline, until)

FailedWithRetry(l) ==
  LET until == lane[l].at + Wait(lane[l].retry, 0)
  IN /\ lane[l].outcome = "PROVIDER_FAILED" /\ lane[l].retry # Absent
     /\ cooldown' = until /\ next' = HeldUntil(until)
     /\ deadline' = Larger(deadline, until)
     /\ UNCHANGED interval

Succeeded(l) ==
  /\ lane[l].outcome = "PROVIDER_SUCCEEDED" /\ cooldown <= lane[l].at
  /\ interval' = Larger(MINIMUM, Eased(interval)) /\ cooldown' = 0
  /\ UNCHANGED <<next, deadline>>

NoPacingChange(l) ==
  /\ \/ lane[l].outcome = "PROVIDER_FAILED" /\ lane[l].retry = Absent
     \/ lane[l].outcome = "PROVIDER_SUCCEEDED" /\ cooldown > lane[l].at
  /\ UNCHANGED <<next, interval, cooldown, deadline>>

RecordPacing(l) ==
  /\ lane[l].pc = "answered"
  /\ Throttled(l) \/ FailedWithRetry(l) \/ Succeeded(l) \/ NoPacingChange(l)
  /\ lane' = [lane EXCEPT ![l] = Resting]
  /\ UNCHANGED <<now, usage, demand, last, pressure, livePressure, passed>>

\* The lane's process dies; what it reserved stays counted.
Crash(l) ==
  /\ lane[l].pc # "idle"
  /\ lane' = [lane EXCEPT ![l] = Resting]
  /\ UNCHANGED <<now, usage, next, interval, cooldown, demand, last, pressure,
                 livePressure, deadline, passed>>

\* The queue changes: a class's pressure, or the LIVE work backfill yields to.
QueueChanges ==
  /\ \/ /\ \E c \in Classes, p \in Pressures :
             p # pressure[c] /\ pressure' = [pressure EXCEPT ![c] = p]
        /\ UNCHANGED livePressure
     \/ livePressure' \in LiveSignals \ {livePressure} /\ UNCHANGED pressure
  /\ UNCHANGED <<now, usage, next, interval, cooldown, demand, last, lane,
                 deadline, passed>>

Tick ==
  /\ \E t \in {now + s : s \in Steps} \cup {next}
                \cup {usage[i].at + WINDOW : i \in Rows} :
       now < t /\ t <= MaxTime /\ now' = t
  /\ UNCHANGED <<usage, next, interval, cooldown, demand, last, pressure,
                 livePressure, lane, deadline, passed>>

LaneStep(l) ==
  \/ \E q \in Asks : Reserve(l, q) \/ DispatchDeferred(l, q)
  \/ MarkAttempted(l)
  \/ \E o \in Answers, reported \in Reports, retry \in RetryAfters :
       RecordOutcome(l, o, reported, retry)
  \/ RecordPacing(l) \/ Crash(l)

Next ==
  \/ \E l \in Lanes : LaneStep(l)
  \/ \E c \in Classes : RegisterDemand(c)
  \/ QueueChanges \/ Tick

Spec == Init /\ [][Next]_vars
-----------------------------------------------------------------------------
(* Properties. *)

\* Every variable stays in its type and the dispatch interval in its range.
TypeOK ==
  /\ now \in Nat /\ next \in Nat /\ cooldown \in Nat /\ deadline \in Nat
  /\ interval \in MINIMUM..MAXIMUM
  /\ demand \in [Classes -> Nat] /\ last \in [Classes -> Nat]
  /\ pressure \in [Classes -> Pressures] /\ livePressure \in BOOLEAN
  /\ usage \in Seq([account : Accounts, class : Classes, count : Nat,
                    tokens : Nat, urgent : BOOLEAN, reserved : BOOLEAN,
                    work : WORKLOADS, at : Nat, gap : Nat,
                    outcome : OUTCOMES \cup {"none"}, reported : Nat])
  /\ lane \in [Lanes -> [pc : {"idle", "reserved", "attempted", "answered"},
                         usage : Nat, at : Nat,
                         outcome : OUTCOMES \cup {"none"},
                         retry : Nat \cup {Absent}]]
  /\ passed \in [Classes -> [Classes -> Nat]]

\* No trailing minute of an account, ending at any instant, holds more than
\* RPM requests, whichever lanes admitted them.
RollingRequests ==
  \A a \in Accounts : \A i \in Rows :
    Requests({k \in Rows : /\ usage[k].account = a
                           /\ usage[i].at - WINDOW < usage[k].at
                           /\ usage[k].at <= usage[i].at}) <= RPM

\* What providers reported of a set of rows above their estimates.
UnderEstimated(S) ==
  Total(Len(usage), [i \in Rows |->
    IF i \in S THEN Larger(0, Effective(usage[i]) - usage[i].tokens) ELSE 0])

\* The input tokens of the current minute exceed TPM by no more than what
\* providers reported above the estimates they were admitted with.
RollingTokens ==
  \A a \in Accounts :
    LET recent == Recent(a, now)
    IN Tokens(recent) <= TPM + UnderEstimated(recent)

\* The priority reserve of a quota day is spent by urgent requests only, and
\* the day's limit by nobody.
PriorityReserve ==
  \A i \in Rows :
    LET before == {k \in Today(usage[i].account, usage[i].at) : k <= i}
    IN Requests(before) <= IF usage[i].urgent \/ ~usage[i].reserved
                           THEN DAILY ELSE DAILY - RESERVE

\* Contract backfill never takes the requests the forecast keeps for LIVE
\* work, the operational reserve or the safety buffer of that day.
BackfillHeadroom ==
  \A i \in Rows :
    usage[i].work = "CONTRACT_BACKFILL" =>
      Requests({k \in Today(usage[i].account, usage[i].at) : k <= i})
        <= DAILY - FORECAST - HEADROOM

\* The retry time a denied request is given is the first instant at which the
\* minute admits it, if nothing else is admitted meanwhile.
NextEligibleExact ==
  \A q \in Asks :
    LET a == q.account
        held(t) == {i \in Recent(a, now) : usage[i].at > t - WINDOW}
        admits(t) == MinuteAdmits(q, held(t))
    IN ~admits(now) =>
         IF NextEligible(q) = 0 THEN ~MinuteAdmits(q, {})
         ELSE /\ admits(NextEligible(q)) /\ NextEligible(q) > now
              /\ \A i \in Recent(a, now) :
                   usage[i].at + WINDOW < NextEligible(q)
                     => ~admits(usage[i].at + WINDOW)

\* Two dispatches, of any accounts and classes, are at least the interval
\* apart that held when the first was granted.
DispatchSpacing ==
  \A i \in Rows : i > 1 => usage[i - 1].at + usage[i - 1].gap <= usage[i].at

\* "honors a longer bounded Retry-After": nothing is dispatched before any
\* deadline a provider asked for, even when a later answer asks for less.
RetryAfterHonoured ==
  [][Len(usage) < Len(usage') => deadline <= now]_vars

\* "non-dominated tasks rotate by least-recent dispatch": while a class waits
\* undominated, every other class is served at most once before it.
FairRotation == \A c, d \in Classes : passed[c][d] <= 1

\* Whatever the lanes read before the write lock, and in whatever order the
\* answers come, no limit of the quota is exceeded: neither rolling minute,
\* the day's reserve for urgent work, nor the room backfill must leave.
QuotaKept ==
  RollingRequests /\ RollingTokens /\ PriorityReserve /\ BackfillHeadroom
=============================================================================
