------------------------------ MODULE MCUpkeep ------------------------------
(*****************************************************************************)
(* Small instances of four loops of the runtime that share no state, each    *)
(* on its own: the lanes of the dashboard synchronizer (SyncLanes), the      *)
(* daily backup (BackupRetention), the daily briefs (DailyBrief) and the     *)
(* news collection (Intake, twice: two news feeds with unreadable articles,  *)
(* and one source of each other kind).  A behaviour is one of one of them:   *)
(* scene says which, and the variables of the others rest.                   *)
(*****************************************************************************)
EXTENDS Intake, BackupRetention, DailyBrief, TLC

CONSTANTS Control, Heavy, Draining, Owned, Cadence, BACKOFF, INTERVAL, PAGES, MaxFaults

VARIABLES scene,
  due, fails, task, failed, turn, left, request, accepted, pages, faults,
  log2, fetched2, succeeded2, stored2, retry2, collector2, results2, shown2, asked2,
  losses2

\* The two heavy resources a deferred projection takes over from the regular
\* turns, the second of which may leave pages for another run.
MCHeavy == <<"audit", "news_evidence">>
MCCadence == [r \in Control \cup Owned |-> 1]
Sync == INSTANCE SyncLanes WITH receipt <- accepted
syncVars == <<due, fails, task, failed, turn, left, request, accepted, pages, faults>>

\* Days of one size, two days in a week and four in a month.
MCBytes == [d \in 1..LastBackup |-> 1]

\* A direct feed of which one article has no text, and a Google lane of which two
\* have none, both ahead of others.
FeedOrder == <<"direct", "google">>
FeedKind == [direct |-> "direct", google |-> "google"]
FeedItems == [direct |-> <<"db", "d1", "d2">>, google |-> <<"gb", "gc", "g1">>]
FeedInterval == [s \in {"direct", "google"} |-> 2]
NoFeed == [i \in {} |-> 0]
\* One source of each other kind; an article of the World Gold Council has no text.
OtherOrder == <<"fed", "bls", "fred", "eia", "bea", "html", "gdelt", "wgc">>
OtherSources == Range(OtherOrder)
OtherKind == [s \in OtherSources |-> s]
OtherItems ==
  [fed |-> <<"f1", "f2">>, bls |-> <<"b">>, fred |-> <<"m1", "m2">>, eia |-> <<"e">>,
   bea |-> <<"t">>, html |-> <<"h">>, gdelt |-> <<"x">>, wgc |-> <<"wb", "w1">>]
OtherBlocked == {"wb"}
OtherInterval == [s \in OtherSources |-> IF s = "html" THEN 1 ELSE 2]
OtherFeed == [i \in {"f1", "f2"} |-> i]
OtherCredentialed == {"bls", "fred", "eia", "bea"}
MCTransient == <<1, 2>>
MCRate == <<2, 3>>

Others == INSTANCE Intake WITH
  Order <- OtherOrder, Kind <- OtherKind, Interval <- OtherInterval,
  Credentialed <- OtherCredentialed, Items <- OtherItems, Blocked <- OtherBlocked,
  Feed <- OtherFeed,
  log <- log2, fetched <- fetched2, succeeded <- succeeded2, stored <- stored2,
  retry <- retry2, collector <- collector2, results <- results2, shown <- shown2,
  asked <- asked2, losses <- losses2
otherVars == <<log2, fetched2, succeeded2, stored2, retry2, collector2, results2,
  shown2, asked2, losses2>>
collectVars == <<intakeVars, otherVars>>

UpkeepInit ==
  /\ Sync!Init /\ BackupInit /\ BriefInit /\ IntakeInit /\ Others!IntakeInit
  /\ scene \in {"sync", "backup", "brief", "feeds", "others"}
UpkeepNext ==
  \/ scene = "sync" /\ Sync!Next /\ UNCHANGED <<scene, backupVars, briefVars, collectVars>>
  \/ scene = "backup" /\ BackupNext /\ UNCHANGED <<scene, syncVars, briefVars, collectVars>>
  \/ scene = "brief" /\ BriefNext /\ UNCHANGED <<scene, syncVars, backupVars, collectVars>>
  \/ scene = "feeds" /\ IntakeNext
     /\ UNCHANGED <<scene, syncVars, backupVars, briefVars, otherVars>>
  \/ scene = "others" /\ Others!IntakeNext
     /\ UNCHANGED <<scene, syncVars, backupVars, briefVars, intakeVars>>

\* The fairness of each component, while it is the one that moves.
UpkeepFairSpec ==
  /\ UpkeepInit /\ [][UpkeepNext]_<<scene, syncVars, backupVars, briefVars, collectVars>>
  /\ WF_syncVars(scene = "sync" /\ (Sync!Loop \/ Sync!Tick))
  /\ WF_syncVars(scene = "sync" /\ Sync!Correct)
  /\ WF_syncVars(scene = "sync" /\ Sync!LaneStep("control"))
  /\ WF_syncVars(scene = "sync" /\ (Sync!LaneStep("heavy") \/ Sync!DeferStep))
  /\ WF_backupVars(scene = "backup" /\ NewDay)
  /\ WF_backupVars(scene = "backup" /\ \E p \in Procs : Step(p))
  /\ WF_backupVars(scene = "backup" /\ \E p \in Procs : StartProcess(p))
  /\ WF_briefVars(scene = "brief" /\ (Batch \/ Answer \/ Capacity \/ Fail))
  /\ \A d \in BriefDays :
       /\ WF_briefVars(scene = "brief" /\ Due(d))
       /\ SF_briefVars(scene = "brief" /\ Asked(d))
  /\ SF_briefVars(scene = "brief" /\ Answer)
  /\ WF_intakeVars(scene = "feeds" /\ Progress)

\* No source is asked again before the delay its last answers call for.
EverySourcePaced == Paced /\ Others!Paced
\* A deferred projection is completed, the plans on disk are carried out and removed,
\* a past day with nothing pending is closed, and every article that can be read is
\* stored.
UpkeepSettles ==
  /\ scene = "sync" => Sync!DeferredCompletes
  /\ scene = "backup" => RoundSettles
  /\ scene = "brief" => HistoryCloses
  /\ scene = "feeds" => ReadableIsStored
=============================================================================
