-------------------------- MODULE AssistantMemory ---------------------------
(*****************************************************************************)
(* The active context of a conversation (web/app/api/_shared/                *)
(* assistant-memory.ts).  The messages stay as they are; what a model sees   *)
(* is the pinned entries, the latest summary before the question, and the    *)
(* recent turns word for word.  A compaction job freezes the next messages   *)
(* that are no longer recent, and the worker that completes it adds one      *)
(* summary and its pins.                                                     *)
(*                                                                           *)
(* The messages of a conversation are the numbers of their order, and a      *)
(* summary is the number of the last message it covers.  What a job freezes  *)
(* is an interval; how many messages fit its token budget is free.           *)
(*****************************************************************************)
EXTENDS LeasedJobs, FiniteSets

CONSTANTS
  Conversations, Owner, Workers,
  RECENT,            \* recentTurnLimit
  BATCH,             \* compactionMessageLimit
  PER_OWNER, GLOBAL, \* activeCompactionsPerOwner, activeCompactionsGlobal
  MAX_PINS, GENERATED,
  Machine,           \* the machine endpoint is called
  Crashes,           \* workers and requests are lost
  MaxTurns, MaxJobs, MaxSystemPins, MaxPlans

ASSUME MemoryAssumption ==
  /\ RECENT \in Nat \ {0} /\ BATCH \in Nat /\ PER_OWNER \in Nat /\ GLOBAL \in Nat
  /\ MAX_PINS \in Nat /\ GENERATED \in Nat

VARIABLES
  chat,     \* the messages and the pointers of each conversation
  summary,  \* assistant_summaries: what each version covers
  pins,     \* how many assistant_pinned_entries
  jobs,     \* assistant_compaction_jobs, in the order of insertion
  plan,     \* requests between their read and their batch
  worker

vars == <<chat, summary, pins, jobs, plan, worker>>

NoJob == 0
Idle == [job |-> NoJob, token |-> 0, report |-> "none", pins |-> 0]

\* turn: the state of the last question.
Init ==
  /\ chat = [c \in Conversations |-> [roles |-> << >>, turn |-> "none", version |-> 0,
                                      request |-> 0, pending |-> NoJob, calls |-> 0]]
  /\ summary = [c \in Conversations |-> << >>]
  /\ pins = [c \in Conversations |-> [all |-> 0, system |-> 0]]
  /\ jobs = << >>
  /\ plan = [c \in Conversations |-> {}]
  /\ worker = [w \in Workers |-> Idle]

-----------------------------------------------------------------------------
(* What may be read. *)

\* The first message of the recent turns, 0 while all of them are recent.
RecentFrom(roles) ==
  LET users == {i \in DOMAIN roles : roles[i] = "USER"}
  IN IF Cardinality(users) < RECENT THEN 0
     ELSE CHOOSE i \in users : Cardinality({j \in users : j >= i}) = RECENT

CurrentSummary(c) == IF summary[c] = << >> THEN 0 ELSE summary[c][Len(summary[c])]

\* The pinned entries fit, or every reader of them refuses.
PinsFit(c) == pins[c].all <= MAX_PINS

\* A question's context leaves no message out between summary and recent turns.
ContextBuilds(c) ==
  /\ PinsFit(c)
  /\ RecentFrom(chat[c].roles) <= CurrentSummary(c) + 1

Active == {n \in DOMAIN jobs : jobs[n].status \in Open}
-----------------------------------------------------------------------------
(* Turns: assistant-chat.ts and news-questions.ts store the messages. *)

Ask(c) ==
  /\ chat[c].turn # "asked"
  /\ Cardinality({i \in DOMAIN chat[c].roles : chat[c].roles[i] = "USER"}) < MaxTurns
  /\ chat' = [chat EXCEPT ![c].roles = Append(@, "USER"), ![c].turn = "asked"]
  /\ UNCHANGED <<summary, pins, jobs, plan, worker>>

\* The answer's request goes on to schedule a compaction.
Answer(c) ==
  /\ chat[c].turn = "asked" /\ ContextBuilds(c)
  /\ chat' = [chat EXCEPT ![c].roles = Append(@, "ASSISTANT"), ![c].turn = "answered",
                          ![c].calls = 1]
  /\ UNCHANGED <<summary, pins, jobs, plan, worker>>

\* A turn whose attempts are spent, for one without a context.
FailTurn(c) ==
  /\ chat[c].turn = "asked"
  /\ chat' = [chat EXCEPT ![c].turn = "failed"]
  /\ UNCHANGED <<summary, pins, jobs, plan, worker>>

\* PIN_STATE counts the entries and then inserts one.
PinState(c) ==
  /\ chat[c].roles # << >> /\ pins[c].all < MAX_PINS /\ pins[c].system < MaxSystemPins
  /\ pins' = [pins EXCEPT ![c].all = @ + 1, ![c].system = @ + 1]
  /\ UNCHANGED <<chat, summary, jobs, plan, worker>>
-----------------------------------------------------------------------------
(* Scheduling: an answer, a completed compaction or the machine endpoint. *)

\* The reads: the messages after the summary and before the recent turns.
PlanCompaction(c) ==
  LET first == CurrentSummary(c) + 1
      past == RecentFrom(chat[c].roles)
  IN /\ chat[c].calls > 0 \/ Machine
     /\ Cardinality(plan[c]) < MaxPlans
     /\ chat' = [chat EXCEPT ![c].calls = 0]
     /\ IF chat[c].pending = NoJob /\ PinsFit(c) /\ past > first
        THEN \E to \in first..(past - 1) :
               /\ to - first < BATCH
               /\ plan' = [plan EXCEPT ![c] = @ \cup {[version |-> chat[c].version,
                    request |-> chat[c].request, from |-> first, to |-> to,
                    pins |-> pins[c].all]}]
        ELSE /\ chat[c].calls > 0 /\ UNCHANGED plan
     /\ UNCHANGED <<summary, pins, jobs, worker>>

\* Mutant: the batch trusts what the request has read.
ScheduleCompactionAsRead(c) ==
  \E p \in plan[c] :
    /\ Len(jobs) < MaxJobs
    /\ plan' = [plan EXCEPT ![c] = @ \ {p}]
    /\ chat' = [chat EXCEPT ![c].request = @ + 1, ![c].pending = Len(jobs) + 1]
    /\ jobs' = Append(jobs, [conv |-> c, prior |-> p.version, from |-> p.from,
                   to |-> p.to, pins |-> p.pins, status |-> Queued.status,
                   attempts |-> Queued.attempts, due |-> Queued.due,
                   lapsed |-> Queued.lapsed])
    /\ UNCHANGED <<summary, pins, worker>>

\* The batch: under the versions it read and both limits on open jobs.
ScheduleCompaction(c) ==
  \E p \in plan[c] :
    LET current == /\ chat[c].version = p.version /\ chat[c].request = p.request
                   /\ chat[c].pending = NoJob
        room == /\ Cardinality(Active) < GLOBAL
                /\ Cardinality({n \in Active : Owner[jobs[n].conv] = Owner[c]}) < PER_OWNER
    IN /\ Len(jobs) < MaxJobs
       /\ plan' = [plan EXCEPT ![c] = @ \ {p}]
       /\ chat' = IF ~current THEN chat
                  ELSE [chat EXCEPT ![c].request = @ + 1,
                                    ![c].pending = IF room THEN Len(jobs) + 1 ELSE NoJob]
       /\ jobs' = IF current /\ room
                  THEN Append(jobs, [conv |-> c, prior |-> p.version, from |-> p.from,
                         to |-> p.to, pins |-> p.pins, status |-> Queued.status,
                         attempts |-> Queued.attempts, due |-> Queued.due,
                         lapsed |-> Queued.lapsed])
                  ELSE jobs
       /\ UNCHANGED <<summary, pins, worker>>
-----------------------------------------------------------------------------
(* The workers. *)

ClaimCompaction(w) ==
  LET swept == [n \in DOMAIN jobs |-> Swept(jobs[n])]
      gone == {n \in DOMAIN jobs : jobs[n].status # swept[n].status /\ swept[n].status = "FAILED"}
  IN /\ worker[w] = Idle
     /\ chat' = [c \in Conversations |->
          IF chat[c].pending \in gone THEN [chat[c] EXCEPT !.pending = NoJob] ELSE chat[c]]
     /\ \E n \in Oldest(swept) \cup (IF Oldest(swept) = {} THEN {NoJob} ELSE {}) :
          /\ jobs' = IF n = NoJob THEN swept ELSE [swept EXCEPT ![n] = Leased(@)]
          /\ worker' = IF n = NoJob THEN worker
                       ELSE [worker EXCEPT ![w].job = n, ![w].token = swept[n].attempts + 1]
     /\ <<jobs, chat>> # <<jobs', chat'>>
     /\ UNCHANGED <<summary, pins, plan>>

\* A completion is refused when its pins and the frozen ones exceed the limit.
ReadCompaction(w) ==
  LET j == jobs[worker[w].job]
  IN /\ worker[w].job # NoJob /\ worker[w].report = "none"
     /\ \E report \in {"complete", "fail", "defer"}, new \in 0..GENERATED :
          /\ report = "complete" => j.pins + new <= MAX_PINS
          /\ report # "complete" => new = 0
          /\ worker' = [worker EXCEPT ![w] =
               IF Held(j, worker[w].token) THEN [@ EXCEPT !.report = report, !.pins = new]
               ELSE Idle]
     /\ UNCHANGED <<chat, summary, pins, jobs, plan>>

(*****************************************************************************)
(* The batch adds the summary, the pins and the version under the token;     *)
(* the triggers of the tables refuse all of it when the conversation moved   *)
(* on to another job or version.  The request then schedules the next one.   *)
(*****************************************************************************)
CompleteCompaction(w) ==
  LET n == worker[w].job
      c == jobs[n].conv
      whole == /\ Kept(jobs[n], worker[w].token)
               /\ chat[c].pending = n /\ chat[c].version = jobs[n].prior
  IN /\ worker[w].report = "complete"
     /\ worker' = [worker EXCEPT ![w] = Idle]
     /\ IF whole
        THEN /\ jobs' = [jobs EXCEPT ![n] = Ended(@, "COMPLETED")]
             /\ summary' = [summary EXCEPT ![c] = Append(@, jobs[n].to)]
             /\ pins' = [pins EXCEPT ![c].all = @ + worker[w].pins]
             /\ chat' = [chat EXCEPT ![c].version = @ + 1, ![c].pending = NoJob,
                                     ![c].calls = 1]
        ELSE UNCHANGED <<jobs, summary, pins, chat>>
     /\ UNCHANGED plan

ReturnCompaction(w, report) ==
  LET n == worker[w].job
      last == worker[w].token >= MAX_ATTEMPTS
  IN /\ worker[w].report = report
     /\ jobs' = IF Kept(jobs[n], worker[w].token)
                THEN [jobs EXCEPT ![n] = Returned(@)] ELSE jobs
     /\ chat' = [c \in Conversations |->
          IF chat[c].pending = n /\ last THEN [chat[c] EXCEPT !.pending = NoJob] ELSE chat[c]]
     /\ worker' = [worker EXCEPT ![w] = Idle]
     /\ UNCHANGED <<summary, pins, plan>>

FailCompaction(w) == ReturnCompaction(w, "fail")
DeferCompaction(w) == ReturnCompaction(w, "defer")

\* A worker is gone, or a request before its schedule is written.
CrashWorker(w) ==
  /\ Crashes /\ worker[w] # Idle
  /\ worker' = [worker EXCEPT ![w] = Idle]
  /\ UNCHANGED <<chat, summary, pins, jobs, plan>>
LoseRequest(c) ==
  /\ Crashes /\ (plan[c] # {} \/ chat[c].calls > 0)
  /\ plan' = [plan EXCEPT ![c] = {}]
  /\ chat' = [chat EXCEPT ![c].calls = 0]
  /\ UNCHANGED <<summary, pins, jobs, worker>>

Age ==
  /\ \E n \in DOMAIN jobs : Aged(jobs[n]) # jobs[n] /\ jobs' = [jobs EXCEPT ![n] = Aged(@)]
  /\ UNCHANGED <<chat, summary, pins, plan, worker>>

Next ==
  \/ \E c \in Conversations : Ask(c) \/ Answer(c) \/ FailTurn(c) \/ PinState(c)
                                \/ PlanCompaction(c) \/ ScheduleCompaction(c)
                                \/ LoseRequest(c)
  \/ \E w \in Workers : ClaimCompaction(w) \/ ReadCompaction(w) \/ CompleteCompaction(w)
                          \/ FailCompaction(w) \/ DeferCompaction(w)
                          \/ CrashWorker(w)
  \/ Age

Spec == Init /\ [][Next]_vars
-----------------------------------------------------------------------------
\* Each summary goes on where the one before it ended, and the conversation's
\* version is the last of them: no message is summarised twice or left out.
Chained ==
  \A c \in Conversations :
    /\ chat[c].version = Len(summary[c])
    /\ \A v \in DOMAIN summary[c] : \E n \in DOMAIN jobs :
         /\ jobs[n].conv = c /\ jobs[n].status = "COMPLETED" /\ jobs[n].to = summary[c][v]
         /\ jobs[n].from = (IF v = 1 THEN 0 ELSE summary[c][v - 1]) + 1

\* A conversation waits for a job exactly while that job is open, for the
\* version it shows; and the limits on open jobs hold.
Waiting ==
  /\ \A c \in Conversations : {n \in Active : jobs[n].conv = c} =
       IF chat[c].pending = NoJob THEN {} ELSE {chat[c].pending}
  /\ \A n \in Active : jobs[n].prior = chat[jobs[n].conv].version
  /\ Cardinality(Active) <= GLOBAL
  /\ \A c \in Conversations :
       Cardinality({n \in Active : Owner[jobs[n].conv] = Owner[c]}) <= PER_OWNER

\* The recent turns are never behind a summary.
RecentVerbatim ==
  \A c \in Conversations : summary[c] # << >> => CurrentSummary(c) < RecentFrom(chat[c].roles)

(*****************************************************************************)
(* Summaries, jobs and conversations agree through lapsed leases, late       *)
(* reports and concurrent scheduling.                                        *)
(*****************************************************************************)
SummariesExact == Chained /\ Waiting /\ RecentVerbatim

(*****************************************************************************)
(* "Compaction begins before hard context exhaustion": when the next         *)
(* question of a conversation could not be given a context, a job that       *)
(* makes room is under way or about to be scheduled.                         *)
(*****************************************************************************)
BeginsBeforeExhaustion ==
  \A c \in Conversations :
    chat[c].turn = "answered" /\ PinsFit(c) =>
      \/ RecentFrom(Append(chat[c].roles, "USER")) <= CurrentSummary(c) + 1
      \/ chat[c].pending # NoJob \/ chat[c].calls > 0 \/ plan[c] # {}

\* Pinned entries never outgrow the limit their readers accept.
PinsWithinLimit == \A c \in Conversations : PinsFit(c)
=============================================================================
