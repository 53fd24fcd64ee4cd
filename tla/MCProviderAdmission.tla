------------------------ MODULE MCProviderAdmission ------------------------
(*****************************************************************************)
(* Small instances of what stands between a job and the provider, each on    *)
(* its own:                                                                  *)
(*   quota      the quota of one account (ProviderAdmission),                *)
(*   rotation   the governor's choice between three task classes,            *)
(*   retrieval  the vectors and contexts of impact jobs (Retrieval).         *)
(* A behaviour is one of one of them: scene says which, and the variables    *)
(* of the others rest.                                                       *)
(*****************************************************************************)
EXTENDS ProviderAdmission, TLC

CONSTANTS RotationLanes, RotationMaxTime

VARIABLES scene, now2, usage2, next2, interval2, cooldown2, demand2, last2,
  pressure2, livePressure2, lane2, deadline2, passed2,
  annotated, embedded, generation, mode, receipts, worker, failures

MCClassRank == [c \in Classes |-> 1]
MCAbsent == -1

Ask(a, c, n, t, urgent, work) ==
  [account |-> a, class |-> c, count |-> n, tokens |-> t, urgent |-> urgent,
   reserved |-> TRUE, work |-> work]

\* A routine batch of two, an urgent request and a backfill request.
QuotaAsks ==
  {Ask("a1", "ANNOTATION", 2, 2, FALSE, "LIVE_OPERATIONAL"),
   Ask("a1", "ANNOTATION", 1, 2, TRUE, "LIVE_OPERATIONAL"),
   Ask("a1", "ANNOTATION", 1, 1, FALSE, "CONTRACT_BACKFILL")}

LaneSymmetry == Permutations(Lanes)
FlatPressure == {<<0, 0>>}
OneRetryAfter == {MCAbsent, 1}
-----------------------------------------------------------------------------
(* The governor: one kind of request per class, quotas that never bind. *)

RotationClasses == {"ANNOTATION", "DAILY_BRIEF", "IMPACT"}
RotationRank == [c \in RotationClasses |->
  CASE c = "ANNOTATION" -> 1 [] c = "DAILY_BRIEF" -> 2 [] c = "IMPACT" -> 3]
RotationAsks ==
  {Ask("a1", c, 1, 1, TRUE, "LIVE_OPERATIONAL") : c \in RotationClasses}
RotationSignals == {<<0, 1>>, <<1, 1>>}
NoRetryAfter == {MCAbsent}
OnlySuccess == {"PROVIDER_SUCCEEDED"}
NoLive == {FALSE}
NoReport == {0}
QuarterSecond == {250}

Rotation == INSTANCE ProviderAdmission WITH
  Lanes <- RotationLanes, Classes <- RotationClasses, ClassRank <- RotationRank,
  Asks <- RotationAsks, Pressures <- RotationSignals, LiveSignals <- NoLive,
  Answers <- OnlySuccess, WINDOW <- 10000, DAY <- 100000, DAILY <- 9, RPM <- 9,
  TPM <- 9, RESERVE <- 0, FORECAST <- 0, HEADROOM <- 0,
  INITIAL <- 250, MINIMUM <- 250, MAXIMUM <- 250, TTL <- 250,
  RetryAfters <- NoRetryAfter, Reports <- NoReport, Steps <- QuarterSecond,
  MaxTime <- RotationMaxTime,
  now <- now2, usage <- usage2, next <- next2, interval <- interval2,
  cooldown <- cooldown2, demand <- demand2, last <- last2, pressure <- pressure2,
  livePressure <- livePressure2, lane <- lane2, deadline <- deadline2,
  passed <- passed2
rotationVars == <<now2, usage2, next2, interval2, cooldown2, demand2, last2,
  pressure2, livePressure2, lane2, deadline2, passed2>>

-----------------------------------------------------------------------------
(* Retrieval: one lane beside the maintenance script. *)

ImpactLanes == {"impact"}
ScriptRuns == {"script"}
NoRunner == "nobody"
TwoArticles == 2
OneVector == 1
OneSecond == 1
TwoSeconds == 2
OneFault == 1
AskedDelay == {2}
AllPressures == {"none", "queue", "provider"}
Retrieved == INSTANCE Retrieval WITH
  Lanes <- ImpactLanes, Scripts <- ScriptRuns, NoLane <- NoRunner,
  Newest <- TwoArticles, BATCH <- OneVector, LEASE <- OneSecond,
  COOLDOWN <- OneSecond, LONGEST <- TwoSeconds, STABLE <- OneSecond,
  RetryAfters <- AskedDelay, Pressures <- AllPressures, MaxFaults <- OneFault,
  lease <- generation
retrievalVars == <<annotated, embedded, generation, mode, receipts, worker, failures>>
-----------------------------------------------------------------------------
AdmissionInit ==
  /\ Init /\ Rotation!Init /\ Retrieved!RetrievalInit
  /\ scene \in {"quota", "rotation", "retrieval"}
  /\ scene = "rotation" \/ \A c \in RotationClasses : pressure2[c] = <<0, 1>>
AdmissionNext ==
  \/ scene = "quota" /\ Next /\ UNCHANGED <<scene, rotationVars, retrievalVars>>
  \/ scene = "rotation" /\ Rotation!Next /\ UNCHANGED <<scene, vars, retrievalVars>>
  \/ scene = "retrieval" /\ Retrieved!RetrievalNext /\ UNCHANGED <<scene, vars, rotationVars>>
AdmissionSpec ==
  AdmissionInit /\ [][AdmissionNext]_<<scene, vars, rotationVars, retrievalVars>>

\* Rotation: a class that waits undominated is passed over by each other once.
FairRotation2 == Rotation!FairRotation
\* Retrieval: a context is frozen, and a cooldown of the generation stands.
RetrievalKept == Retrieved!RetrievalKept
=============================================================================
