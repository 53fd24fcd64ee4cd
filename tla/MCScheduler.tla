---------------------------- MODULE MCScheduler ----------------------------
(*****************************************************************************)
(* Small instances of the scheduler without its liveness, each on its own:   *)
(*   overrides  two operator overrides of one job (JobQueue),                *)
(*   shared     the lanes of one account with two keys (LaneRound),          *)
(*   serial     one lane over the keys of two accounts (LaneRound).          *)
(* A behaviour is one of one of them: scene says which, and the variables    *)
(* of the others rest.                                                       *)
(*****************************************************************************)
EXTENDS JobQueue, TLC

CONSTANTS
  SharedLanes, SharedJobs, SharedResults,
  SerialLanes, SerialJobs, SerialResults, SerialRounds

VARIABLES scene,
  round, row, blocked, lane, log, outcomes, late, turns,
  round2, row2, blocked2, lane2, log2, outcomes2, late2, turns2

MCTaskType == [j \in Jobs |-> "ACTIVE_ANNOTATION"]
MCIdRank == [j \in Jobs |-> 1]
MCLaneOf == [j \in Jobs |-> "LIVE"]
MCPriorityOf == [j \in Jobs |-> "FAST"]
MCPoolOf == [w \in Workers |-> "ROUTINE"]
MCContent == [j \in Jobs |-> "content"]

\* The operator's requests are alike.
MCSymmetry == Permutations(Requests)
-----------------------------------------------------------------------------
(* The lanes of one account. *)

SharedAccounts == {"a2"}
SharedKeysOf == [a \in SharedAccounts |-> <<"k1", "k2">>]
SharedGroupOf == [l \in SharedLanes |-> 1]
SharedAccountsOf == [l \in SharedLanes |-> SharedAccounts]
SharedLaneTasks ==
  [l \in SharedLanes |-> {"ACTIVE_ANNOTATION", "ACTIVE_IMPACT", "TITLE_TRANSLATION"}]
SharedTaskType ==
  [j \in SharedJobs |-> IF j = "imp" THEN "ACTIVE_IMPACT" ELSE "ACTIVE_ANNOTATION"]
SharedUrgent == {"ann", "ann2"}
SharedAllocation == [l \in SharedLanes |-> 4]
SharedRounds == 1
Unreserved == {}
Shared == INSTANCE LaneRound WITH
  Lanes <- SharedLanes, Accounts <- SharedAccounts, Jobs <- SharedJobs,
  GroupOf <- SharedGroupOf, AccountsOf <- SharedAccountsOf, KeysOf <- SharedKeysOf,
  Routine <- SharedLanes, LaneTasks <- SharedLaneTasks, Reserved <- Unreserved,
  TaskType <- SharedTaskType, Urgent <- SharedUrgent, Allocation <- SharedAllocation,
  Results <- SharedResults, MaxRounds <- SharedRounds
ASSUME SharedAssumption == Shared!WellFormed
sharedVars == <<round, row, blocked, lane, log, outcomes, late, turns>>
-----------------------------------------------------------------------------
(* One lane over two accounts. *)

SerialAccounts == {"a1", "a2"}
SerialGroupOf == [l \in SerialLanes |-> 1]
SerialAccountsOf == [l \in SerialLanes |-> SerialAccounts]
SerialKeysOf == [a \in SerialAccounts |-> IF a = "a1" THEN <<"k1", "k2">> ELSE <<"k3">>]
SerialLaneTasks ==
  [l \in SerialLanes |-> {"ACTIVE_ANNOTATION", "ACTIVE_IMPACT", "TITLE_TRANSLATION"}]
SerialReserved == {"a2"}
SerialTaskType ==
  [j \in SerialJobs |-> IF j = "tit" THEN "TITLE_TRANSLATION" ELSE "ACTIVE_ANNOTATION"]
SerialAllocation == [l \in SerialLanes |-> 4]
Serial == INSTANCE LaneRound WITH
  Lanes <- SerialLanes, Accounts <- SerialAccounts, Jobs <- SerialJobs,
  GroupOf <- SerialGroupOf, AccountsOf <- SerialAccountsOf, KeysOf <- SerialKeysOf,
  Routine <- SerialLanes, LaneTasks <- SerialLaneTasks, Reserved <- SerialReserved,
  TaskType <- SerialTaskType, Urgent <- SerialJobs, Allocation <- SerialAllocation,
  Results <- SerialResults, MaxRounds <- SerialRounds,
  round <- round2, row <- row2, blocked <- blocked2, lane <- lane2,
  log <- log2, outcomes <- outcomes2, late <- late2, turns <- turns2
ASSUME SerialAssumption == Serial!WellFormed
serialVars == <<round2, row2, blocked2, lane2, log2, outcomes2, late2, turns2>>
-----------------------------------------------------------------------------
SchedulerInit ==
  /\ Init /\ Shared!Init /\ Serial!Init
  /\ scene \in {"overrides", "shared", "serial"}
  /\ scene = "overrides" \/ \A j \in Jobs : jobs[j].state = "DEAD_LETTER"
SchedulerNext ==
  \/ scene = "overrides" /\ Next /\ UNCHANGED <<scene, sharedVars, serialVars>>
  \/ scene = "shared" /\ Shared!Next /\ UNCHANGED <<scene, vars, serialVars>>
  \/ scene = "serial" /\ Serial!Next /\ UNCHANGED <<scene, vars, sharedVars>>
SchedulerSpec ==
  SchedulerInit /\ [][SchedulerNext]_<<scene, vars, sharedVars, serialVars>>

\* Impact work gets its share of the turns, and within one claim an account is
\* tried once, but for authentication.
RoundFair == Shared!ImpactShare /\ Serial!AccountTriedOnce
=============================================================================
