----------------------------- MODULE LaneRound -----------------------------
(*****************************************************************************)
(* The rounds of the scheduler's account lanes: run_scheduled_batch starts   *)
(* the lanes, _run_scheduled_lane takes turns (claim a job, try credentials  *)
(* until one settles it, settle the job) and lanes of one account share the  *)
(* set of task types they found exhausted.                                   *)
(* Source: xauusd_news/news/scheduler/runtime.py, state.py.                  *)
(*                                                                           *)
(* JobQueue models the rows and the races on them; here a row is READY to    *)
(* be claimed in this round, LEASED, LATER (released behind the round's      *)
(* cutoff) or DONE, and any READY row may be the one claim_job selects.      *)
(*****************************************************************************)
EXTENDS Integers, Sequences, FiniteSets, SequencesExt

CONSTANTS
  Lanes, Accounts, Jobs,
  GroupOf,      \* the lanes that share one set of blocked task types
  AccountsOf,   \* the accounts whose credentials a lane was given
  KeysOf,       \* the credentials of an account, sorted by credential_id
  Routine,      \* lanes with a ROUTINE credential
  LaneTasks,    \* task types a lane may claim
  Reserved,     \* gemma_reserved_accounts
  TaskType, Urgent,
  Allocation,   \* turns of a lane in one round
  Results,      \* the answers executions may give in this instance
  NoJob,
  MaxRounds     \* bound: rounds

VARIABLES
  round,    \* rounds started
  row,      \* state and attempt_count of each job
  blocked,  \* task types each group of lanes found exhausted in this round
  lane,     \* the local variables of each lane
  log,      \* news_ai_job_attempts_v1, by job, attempt_count and credential
  outcomes, \* history: provider outcomes a lane tried to record, per job
  late,     \* history: claims of a type already blocked, per lane and type
  turns     \* history: task types a lane claimed in this round

vars == <<round, row, blocked, lane, log, outcomes, late, turns>>

TASKS == {"ACTIVE_ANNOTATION", "ACTIVE_IMPACT", "TITLE_TRANSLATION"}
ANSWERS == {"OK", "SKIPPED", "PENDING", "MAINTENANCE", "DEFERRED", "AUTH",
            "PRESSURE", "ERROR"}
Keys == UNION {ToSet(KeysOf[a]) : a \in Accounts}
AccountOf(k) == CHOOSE a \in Accounts : k \in ToSet(KeysOf[a])
Groups == {GroupOf[l] : l \in Lanes}

\* What the constants of an instance must be.
WellFormed ==
  /\ AccountsOf \in [Lanes -> SUBSET Accounts]
  /\ \A a, b \in Accounts : a # b => ToSet(KeysOf[a]) \cap ToSet(KeysOf[b]) = {}
  /\ Routine \subseteq Lanes /\ Reserved \subseteq Accounts
  /\ LaneTasks \in [Lanes -> SUBSET TASKS]
  /\ TaskType \in [Jobs -> TASKS] /\ Urgent \subseteq Jobs
  /\ Allocation \in [Lanes -> Nat]
  /\ Results \subseteq ANSWERS
  /\ MaxRounds \in Nat /\ NoJob \notin Jobs

Resting == [pc |-> "turn", turn |-> 0, snap |-> {}, job |-> NoJob,
            left |-> <<>>, tried |-> <<>>]

Init ==
  /\ round = 1
  /\ row = [j \in Jobs |-> [state |-> "READY", attempts |-> 0]]
  /\ blocked = [g \in Groups |-> {}]
  /\ lane = [l \in Lanes |-> Resting]
  /\ log = [e \in Jobs \X (1..(MaxRounds + 1)) \X Keys |-> "none"]
  /\ outcomes = [j \in Jobs |-> 0]
  /\ late = [l \in Lanes |-> [t \in TASKS |-> 0]]
  /\ turns = [l \in Lanes |-> <<>>]
-----------------------------------------------------------------------------
(* Credentials. *)

Rotate(keys, n) ==
  LET offset == n % Len(keys)
  IN SubSeq(keys, offset + 1, Len(keys)) \o SubSeq(keys, 1, offset)

\* The accounts of l in any headroom order, the keys of each rotated by the
\* attempt; reserved accounts serve annotations only.
Candidates(l, j, n) ==
  LET usable == IF TaskType[j] = "ACTIVE_ANNOTATION" THEN AccountsOf[l]
                ELSE AccountsOf[l] \ Reserved
  IN {FlattenSeq([i \in 1..Len(order) |-> Rotate(KeysOf[order[i]], n - 1)]) :
        order \in SetToSeqs(usable)}

MayTryAnother(s) == s \in {"DEFERRED", "AUTH", "PRESSURE"}

\* Mutant: only the credential that failed is given up, never its account.
KeyGivenUp(l) == {}

\* Accounts that answered other than with an authentication failure.
GivenUp(l) ==
  {AccountOf(lane[l].tried[i].key) :
     i \in {i \in 1..Len(lane[l].tried) : lane[l].tried[i].answer # "AUTH"}}

\* What decides how the job is settled.
Answer(l) == IF lane[l].tried = <<>> THEN "DEFERRED"
             ELSE Last(lane[l].tried).answer

\* Every credential tried was deferred: the route has no capacity left.
RouteExhausted(l) ==
  \A i \in 1..Len(lane[l].tried) :
    lane[l].tried[i].answer \in {"DEFERRED", "MAINTENANCE"}
-----------------------------------------------------------------------------
(* One turn of a lane. *)

\* Mutant: the impact turn comes after every fifth claim.
EveryFifth(l) == lane[l].turn % 5 = 4 /\ "ACTIVE_IMPACT" \in LaneTasks[l]

ImpactTurn(l) ==
  /\ l \in Routine
  /\ lane[l].turn % 4 = 3
  /\ "ACTIVE_IMPACT" \in LaneTasks[l]
  /\ "ACTIVE_IMPACT" \notin blocked[GroupOf[l]]

TakeTurn(l) ==
  /\ lane[l].pc = "turn"
  /\ lane' = [lane EXCEPT ![l].pc =
       IF lane[l].turn >= Allocation[l] THEN "end"
       ELSE IF ImpactTurn(l) THEN "impact" ELSE "look"]
  /\ UNCHANGED <<round, row, blocked, log, outcomes, late, turns>>

\* blocked_snapshot(), read before the claim's transaction.
Look(l) ==
  /\ lane[l].pc = "look"
  /\ lane' = [lane EXCEPT ![l].pc = "claim", ![l].snap = blocked[GroupOf[l]]]
  /\ UNCHANGED <<round, row, blocked, log, outcomes, late, turns>>

Take(l, j) ==
  /\ row' = [row EXCEPT ![j].state = "LEASED", ![j].attempts = @ + 1]
  /\ \E order \in Candidates(l, j, row[j].attempts + 1) :
       lane' = [lane EXCEPT ![l].pc = "try", ![l].job = j,
                            ![l].left = order, ![l].tried = <<>>]
  /\ late' = IF TaskType[j] \in blocked[GroupOf[l]]
             THEN [late EXCEPT ![l][TaskType[j]] = @ + 1] ELSE late
  /\ turns' = [turns EXCEPT ![l] = Append(@, TaskType[j])]
  /\ UNCHANGED <<round, blocked, log, outcomes>>

ReadyFor(l, tasks) ==
  {j \in Jobs : /\ row[j].state = "READY" /\ TaskType[j] \in tasks
                /\ l \in Routine \/ j \in Urgent}

ClaimImpact(l) ==
  /\ lane[l].pc = "impact"
  /\ LET S == ReadyFor(l, {"ACTIVE_IMPACT"}) IN
       \/ \E j \in S : Take(l, j)
       \/ /\ S = {} /\ lane' = [lane EXCEPT ![l].pc = "look"]
          /\ UNCHANGED <<round, row, blocked, log, outcomes, late, turns>>

ClaimAny(l) ==
  /\ lane[l].pc = "claim"
  /\ LET S == ReadyFor(l, LaneTasks[l] \ lane[l].snap) IN
       \/ \E j \in S : Take(l, j)
       \/ /\ S = {} /\ lane' = [lane EXCEPT ![l].pc = "end"]
          /\ UNCHANGED <<round, row, blocked, log, outcomes, late, turns>>

SkipKey(l) ==
  /\ lane[l].pc = "try" /\ lane[l].left # <<>>
  /\ AccountOf(Head(lane[l].left)) \in GivenUp(l)
  /\ lane' = [lane EXCEPT ![l].left = Tail(@)]
  /\ UNCHANGED <<round, row, blocked, log, outcomes, late, turns>>

\* Execute with one credential; every answer that is not a maintenance
\* deferral is recorded as an attempt (INSERT OR IGNORE).
TryKey(l, s) ==
  LET k == Head(lane[l].left)
      j == lane[l].job
      entry == <<j, row[j].attempts, k>>
  IN /\ lane[l].pc = "try" /\ lane[l].left # <<>>
     /\ AccountOf(k) \notin GivenUp(l)
     /\ lane' = [lane EXCEPT ![l].left = Tail(@),
                   ![l].tried = Append(@, [key |-> k, answer |-> s]),
                   ![l].pc = IF MayTryAnother(s) THEN "try" ELSE "settle"]
     /\ IF s = "MAINTENANCE" THEN UNCHANGED <<log, outcomes>>
        ELSE /\ log' = IF log[entry] = "none" THEN [log EXCEPT ![entry] = s]
                       ELSE log
             /\ outcomes' = [outcomes EXCEPT ![j] = @ + 1]
     /\ UNCHANGED <<round, row, blocked, late, turns>>

OutOfKeys(l) ==
  /\ lane[l].pc = "try" /\ lane[l].left = <<>>
  /\ lane' = [lane EXCEPT ![l].pc = "settle"]
  /\ UNCHANGED <<round, row, blocked, log, outcomes, late, turns>>

Settle(l) ==
  LET s == Answer(l)
      j == lane[l].job
  IN /\ lane[l].pc = "settle"
     /\ row' = [row EXCEPT
          ![j].state = IF s \in {"OK", "SKIPPED"} THEN "DONE" ELSE "LATER",
          ![j].attempts = IF s = "MAINTENANCE" THEN @ - 1 ELSE @]
     /\ blocked' =
          IF s = "MAINTENANCE" \/ (s = "DEFERRED" /\ RouteExhausted(l))
          THEN [blocked EXCEPT ![GroupOf[l]] = @ \cup {TaskType[j]}]
          ELSE blocked
     /\ lane' = [lane EXCEPT ![l] = [Resting EXCEPT !.turn = lane[l].turn + 1,
                                                    !.snap = lane[l].snap]]
     /\ UNCHANGED <<round, log, outcomes, late, turns>>

\* The batch ends when every lane has; a later one offers what came due.
StartRound ==
  /\ \A l \in Lanes : lane[l].pc = "end"
  /\ round < MaxRounds /\ round' = round + 1
  /\ \E due \in SUBSET {j \in Jobs : row[j].state = "LATER"} :
       row' = [j \in Jobs |-> IF j \in due THEN [row[j] EXCEPT !.state = "READY"]
                              ELSE row[j]]
  /\ blocked' = [g \in Groups |-> {}]
  /\ lane' = [l \in Lanes |-> Resting]
  /\ late' = [l \in Lanes |-> [t \in TASKS |-> 0]]
  /\ turns' = [l \in Lanes |-> <<>>]
  /\ UNCHANGED <<log, outcomes>>

LaneStep(l) ==
  \/ TakeTurn(l) \/ ClaimImpact(l) \/ Look(l) \/ ClaimAny(l)
  \/ SkipKey(l) \/ (\E s \in Results : TryKey(l, s)) \/ OutOfKeys(l)
  \/ Settle(l)

Next == StartRound \/ \E l \in Lanes : LaneStep(l)

Spec == Init /\ [][Next]_vars
-----------------------------------------------------------------------------
(* Properties. *)

\* Every variable stays in its type; attempts never fall below zero.
TypeOK ==
  /\ round \in 1..MaxRounds
  /\ row \in [Jobs -> [state : {"READY", "LEASED", "LATER", "DONE"},
                       attempts : Nat]]
  /\ blocked \in [Groups -> SUBSET TASKS]
  /\ \A l \in Lanes :
       /\ lane[l].pc \in {"turn", "impact", "look", "claim", "try", "settle", "end"}
       /\ lane[l].turn \in 0..Allocation[l] /\ lane[l].snap \subseteq TASKS
       /\ lane[l].job \in Jobs \cup {NoJob}
       /\ ToSet(lane[l].left) \subseteq Keys

\* "an exhausted route is skipped for the rest of that batch after at most one
\* already in-flight probe per lane": a lane claims a task type its account
\* already found exhausted at most once, on a snapshot read before.
OneProbePerLane == \A l \in Lanes, t \in TASKS : late[l][t] <= 1

\* Within one claim a credential is tried only while every earlier credential
\* of its account failed to authenticate: quota and pressure are the account's.
AccountTriedOnce ==
  \A l \in Lanes : \A i, k \in 1..Len(lane[l].tried) :
    i < k /\ AccountOf(lane[l].tried[i].key) = AccountOf(lane[l].tried[k].key)
      => lane[l].tried[i].answer = "AUTH"

\* A route is closed for the rest of the batch only by a job none of whose
\* credentials reached the provider: an authentication failure or an error on
\* one key followed by a deferral on another leaves the route open.
ClosedByCapacityOnly ==
  [][\A l \in Lanes :
       lane[l].pc = "settle" /\ lane'[l].pc = "turn" /\ blocked' # blocked =>
       \/ Answer(l) = "MAINTENANCE"
       \/ {e.answer : e \in ToSet(lane[l].tried)} \subseteq {"DEFERRED"}]_vars

\* "A continuous FAST annotation stream must still leave a bounded share of
\* live capacity for its downstream impact work": a ROUTINE lane that took
\* four turns while impact work was ready gave one of them to impact work,
\* unless the account's impact route is exhausted.
ImpactShare ==
  \A l \in Routine :
    /\ Len(turns[l]) >= 4
    /\ "ACTIVE_IMPACT" \in LaneTasks[l] \ blocked[GroupOf[l]]
    /\ ReadyFor(l, {"ACTIVE_IMPACT"}) # {}
    => "ACTIVE_IMPACT" \in ToSet(turns[l])

\* "append-only attempts": every outcome a lane records has a row of its own.
EveryOutcomeRecorded ==
  \A j \in Jobs :
    outcomes[j] = Cardinality({e \in DOMAIN log : e[1] = j /\ log[e] # "none"})
=============================================================================
