------------------------------- MODULE MCWeb -------------------------------
(*****************************************************************************)
(* Small instances of two protocols between the runtime and the hosted       *)
(* dashboard, the evidence archive and the assistant's turns, and of the     *)
(* scheduler's contract migrations.  They share no state: a behaviour is     *)
(* one of one of them, scene says of which, and the others' variables rest.  *)
(*****************************************************************************)
EXTENDS NewsEvidence, TLC

CONSTANTS Requests, Workers, PerOwner, Global, Rate, TTL, LEASE, BACKOFF,
  MAX_ATTEMPTS, SendUntil, LastTick, MaxLapses

VARIABLES scene, turn, stream, message, worker, requests, told, now, lapses,
  received, annotated, produced, rows, laneMig, backfill, down, pc, todo, found,
  backlog, held, served, crashes

(*****************************************************************************)
(* A revision and a removal, a second revision, and a return to the content  *)
(* before it: the differences to A are other ones each time.                 *)
(*****************************************************************************)
MCContent == [O |-> << <<1, "x">>, <<2, "x">>, <<3, "x">> >>,
              A |-> << <<1, "y">>, <<2, "x">>, <<4, "x">> >>,
              B |-> << <<1, "y">>, <<2, "y">>, <<4, "x">> >>]
MCHistory == <<"O", "A", "B", "A">>

\* One question of one owner.
MCFirst == {[owner |-> "o", key |-> "a", to |-> "new", text |-> "x"]}

Chat == INSTANCE AssistantChat WITH calls <- requests, faults <- lapses, MaxFaults <- MaxLapses
chatVars == <<turn, stream, message, worker, requests, told, now, lapses>>

-----------------------------------------------------------------------------
(* The migrations: three historical revisions with a page bound of two, one *)
(* historical slot per pass, and a derived title without an owner.          *)

MCHistorical == {"h1", "h2", "h3"}
MCValued == {"h1", "h3"}
MCTitles == {"title"}
MCNone == {}
MCOrder == <<"h1", "h2", "h3", "title">>
MCJobs == Range(MCOrder)
MCCreated == [j \in MCJobs |-> CHOOSE i \in DOMAIN MCOrder : MCOrder[i] = j]
MCReceived == [r \in MCHistorical |-> MCCreated[r]]
MCDayOf == [r \in MCHistorical |-> IF r = "h1" THEN "old day" ELSE "recent day"]
MCParent == [d \in MCTitles |-> "h2"]
\* Rows an older release left; absent ones are those of a fresh database.
LegacyStates(j) ==
  CASE j = "h1" -> {"ABSENT", "WAITING"}
    [] j = "h3" -> {"ABSENT"}
    [] j = "h2" -> {"LEASED", "COMPLETED"}
    [] j = "title" -> {"WAITING", "LEASED"}
MCLegacies ==
  {L \in [MCJobs -> {"ABSENT", "WAITING", "LEASED", "COMPLETED"}] :
     \A j \in MCJobs : L[j] \in LegacyStates(j)}
MCTwo == 2
MCOne == 1
MCZero == 0

Migration == INSTANCE ContractMigration WITH
  Revisions <- MCHistorical, Historical <- MCHistorical, Valued <- MCValued,
  DayOf <- MCDayOf, Titles <- MCTitles, Impacts <- MCNone, OldImpacts <- MCNone,
  Parent <- MCParent, Created <- MCCreated, Received <- MCReceived,
  Legacies <- MCLegacies, Limit <- MCTwo, LanePage <- MCOne, DownPage <- MCOne,
  BackfillPage <- MCTwo, MaxCrashes <- MCZero
migrationVars == <<received, annotated, produced, rows, laneMig, backfill, down,
  pc, todo, found, backlog, held, served, crashes>>
-----------------------------------------------------------------------------
\* At rest the migrations keep one initial state.
MigrationRests ==
  annotated = {} /\ \A j \in MCJobs : rows[j].state \in {"ABSENT", "LEASED"}
WebInit ==
  /\ Init /\ Chat!Init /\ Migration!MigrationInit
  /\ scene \in {"evidence", "chat", "migration"}
  /\ scene = "migration" \/ MigrationRests
WebNext ==
  \/ scene = "evidence" /\ Next /\ UNCHANGED <<scene, chatVars, migrationVars>>
  \/ scene = "chat" /\ Chat!Next /\ UNCHANGED <<scene, evidenceVars, migrationVars>>
  \/ scene = "migration" /\ Migration!MigrationNext /\ UNCHANGED <<scene, evidenceVars, chatVars>>
WebSpec == WebInit /\ [][WebNext]_<<scene, evidenceVars, chatVars, migrationVars>>

\* The fairness of each component, while it is the one that moves.
WebFairSpec ==
  /\ WebSpec
  /\ WF_evidenceVars(scene = "evidence" /\ Cycle)
  /\ WF_evidenceVars(scene = "evidence" /\ Age)
  /\ WF_evidenceVars(scene = "evidence" /\ \E c \in calls : ~c.late /\ Run(c))
  /\ WF_evidenceVars(scene = "evidence" /\ \E c \in calls : c.late /\ (Run(c) \/ Lose(c)))
  /\ WF_chatVars(scene = "chat" /\ Chat!Tick)
  /\ \A b \in Workers \cup {"owner"} : WF_chatVars(scene = "chat" /\ Chat!Serve(b))
  /\ \A w \in Workers :
       /\ WF_chatVars(scene = "chat" /\ Chat!Queue(w))
       /\ WF_chatVars(scene = "chat" /\ Chat!Attempt(w))
  /\ WF_migrationVars(scene = "migration" /\ Migration!Sync)
  /\ SF_migrationVars(scene = "migration" /\ Migration!ClaimNothing(Migration!Orphans))
  /\ \A j \in MCJobs :
       WF_migrationVars(scene = "migration" /\
         (Migration!CompleteJob(j) \/ Migration!ReleaseJob(j)))

\* Stream, status, answer and budget of a turn agree.
TurnConsistent == Chat!TurnConsistent
\* A worker that no longer holds the lease of a turn changes nothing of it, and
\* every accepted turn ends, by an answer, an error, an expiry or its owner.
TurnProceeds == Chat!OnlyHolderWrites /\ Chat!TurnEnds
\* Both migrations end, and a derived row without an owner gets one once the
\* annotation it comes from exists.
MigrationsEnd ==
  scene = "migration" => Migration!MigrationsComplete /\ Migration!UnresolvedIsRepaired
\* The turns proceed, the migrations end, and the backfill's cursor passes no slot whose
\* row it does not find.
WebSettles == TurnProceeds /\ MigrationsEnd /\ []Migration!BackfillFindsAll
=============================================================================
