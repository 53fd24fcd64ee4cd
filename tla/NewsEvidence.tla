---------------------------- MODULE NewsEvidence ----------------------------
(******************************************************************************)
(* Publication of the evidence archive.  The local source freezes a snapshot  *)
(* until its activation is acknowledged; the sync process uploads it in       *)
(* batches, each stored with only the payloads that differ from the snapshot  *)
(* published when it arrives, and activates it when every batch is there.     *)
(* A request may outlive the client that sent it.                             *)
(* Sources: dashboard/sync/resources.py, dashboard/news_resources.py,         *)
(* web news-evidence-store.ts, drizzle/0036.                                  *)
(*                                                                            *)
(* An item is <<event key, payload version>>; a snapshot is named by its      *)
(* content, so equal content has one name.                                    *)
(******************************************************************************)
EXTENDS Integers, FiniteSets, Sequences, FiniteSetsExt, Functions

CONSTANTS
  Content,    \* [snapshots -> Seq(items)]
  History,    \* the contents of the ledger in order, as snapshots
  PAGE,       \* NEWS_EVIDENCE_WRITE_BATCH_ITEMS
  PAGES,      \* NEWS_EVIDENCE_PAGES_PER_CYCLE
  CLEAN,      \* receipts one cleanup request deletes at most
  STEPS,      \* NEWS_EVIDENCE_CLEANUP_STEPS_PER_CYCLE
  Quick,      \* whether a new generation may follow the last one at once
  MaxFaults   \* bound: requests given up, crashes, expired transfers

\* Items have a numbered key, one per snapshot; the empty string names no snapshot.
ASSUME ContentAssumption ==
  /\ "" \notin DOMAIN Content
  /\ \A s \in DOMAIN Content :
       /\ Content[s] \in Seq(Range(Content[s]))
       /\ \A i, j \in DOMAIN Content[s] :
            /\ Content[s][i][1] \in Nat
            /\ Content[s][i][1] = Content[s][j][1] => i = j
  /\ History \in Seq(DOMAIN Content) /\ History # <<>>
ASSUME PageAssumption == PAGE \in Nat \ {0} /\ PAGES \in Nat /\ CLEAN \in Nat /\ STEPS \in Nat

VARIABLES
  current,    \* news_evidence_current: its items
  active,     \* active_snapshot_id of news_evidence_publication
  transfers,  \* news_evidence_transfers by snapshot
  receipts,   \* news_evidence_receipts
  ledger,     \* position in History
  manifest,   \* the frozen generation on the local disk
  file,       \* the sync state file
  client,     \* local variables of _sync_news_evidence
  calls,      \* requests inside the worker
  reader,     \* a reader of the archive's pages
  faults

store == <<current, active, transfers, receipts>>
disk == <<ledger, manifest, file>>
evidenceVars == <<store, disk, client, calls, reader, faults>>

Nil == ""
Snapshots == DOMAIN Content
Items(s) == Range(Content[s])
Total(s) == Len(Content[s])
Slice(s, from, n) == {Content[s][i] : i \in from + 1..Min({from + n, Total(s)})}
NoFile == [active |-> Nil, debt |-> FALSE]
Idle == [step |-> "idle", snap |-> Nil, sent |-> 0, left |-> 0]
Unread == [snap |-> Nil, seen |-> {}, done |-> FALSE]

Of(s) == {r \in receipts : r.snap = s}

-----------------------------------------------------------------------------
(* The worker: each request, as one statement batch guarded by the identity    *)
(* of the current publication.                                                  *)

\* The prefix of s that receipts cover without a gap.
Prefix(s) ==
  Max({0} \cup {r.offset + r.count : r \in {q \in Of(s) :
    \A i \in 1..q.offset : \E p \in Of(s) : p.offset < i /\ i <= p.offset + p.count}})

\* prepareNewsEvidenceSnapshot, its reads: whether s is active, and the prefix that
\* counts against the present baseline.
PrefixOfAnyBase(s) == IF s \in DOMAIN transfers THEN Prefix(s) ELSE 0
Usable(s) ==
  IF s \in DOMAIN transfers /\ transfers[s].base = active THEN Prefix(s) ELSE 0

\* ... and its writes.
Prepare(c) ==
  LET s == c.snap
      row == [base |-> c.base, next |-> c.prefix, old |-> FALSE] IN
  IF s \notin DOMAIN transfers
  THEN /\ transfers' = [t \in DOMAIN transfers \cup {s} |->
            IF t = s THEN [base |-> active, next |-> 0, old |-> FALSE] ELSE transfers[t]]
       /\ UNCHANGED receipts
  ELSE IF c.prefix # transfers[s].next \/ transfers[s].base # c.base
  THEN /\ transfers' = [transfers EXCEPT ![s] = row]
       /\ receipts' = {r \in receipts : r.snap # s \/ r.offset < c.prefix}
  ELSE UNCHANGED <<transfers, receipts>>

\* stageNewsEvidenceBatch: the offset and the baseline move with the receipt.
Duplicate(c) ==
  \E r \in Of(c.snap) : r.offset = c.from /\ r.count = c.count
Fits(c) ==
  /\ transfers[c.snap].next = c.from
  /\ transfers[c.snap].base = active
  /\ ~ \E r \in Of(c.snap) : r.offset = c.from
Stage(c) ==
  /\ transfers' = [transfers EXCEPT ![c.snap].next = c.from + c.count, ![c.snap].old = FALSE]
  /\ receipts' = receipts \cup {[snap |-> c.snap, offset |-> c.from, count |-> c.count,
       keys |-> {i[1] : i \in Slice(c.snap, c.from, c.count)},
       changes |-> Slice(c.snap, c.from, c.count) \ current, aged |-> FALSE]}

\* activateNewsEvidenceSnapshot: upsert the changes, drop the keys that left.
Member(s) == UNION {r.keys : r \in Of(s)}
Changes(s) == UNION {r.changes : r \in Of(s)}
MergedOver(s) == {i \in current : i[1] \notin {c[1] : c \in Changes(s)}} \cup Changes(s)
MergedIgnoring(s) ==
  LET kept == {i \in Changes(s) : i[1] \notin {j[1] : j \in current}} IN
  {i \in current \cup kept : i[1] \in Member(s)}
Merged(s) == {i \in MergedOver(s) : i[1] \in Member(s)}
Complete(s) ==
  /\ s \in DOMAIN transfers
  /\ transfers[s].next = Total(s) /\ transfers[s].base = active
  /\ Cardinality(Member(s)) = Total(s)
  /\ Cardinality(Merged(s)) = Total(s)
Activate(s) ==
  /\ current' = Merged(s)
  /\ active' = s
  /\ transfers' = Restrict(transfers, DOMAIN transfers \ {s})

\* cleanupNewsEvidenceSnapshots: receipts past the reader grace, of no live transfer.
Obsolete(s) == s # active /\ (s \in DOMAIN transfers => transfers[s].old)
Garbage == {r \in receipts : r.aged /\ Obsolete(r.snap)}
Abandoned == {s \in DOMAIN transfers : s # active /\ transfers[s].old}
Cleanup(gone) ==
  /\ gone \subseteq Garbage
  /\ Cardinality(gone) = Min({CLEAN, Cardinality(Garbage)})
  /\ receipts' = receipts \ gone
  /\ transfers' = Restrict(transfers, DOMAIN transfers \ Abandoned)

-----------------------------------------------------------------------------
(* The client: one cycle of _sync_news_evidence.                              *)

Stop == client' = Idle
Send(c) == calls' = calls \cup {c}
Call(op, s, from, n) ==
  [op |-> op, snap |-> s, from |-> from, count |-> n, late |-> FALSE,
   read |-> FALSE, base |-> Nil, prefix |-> 0]
Waiting == \E c \in calls : ~c.late

\* The first local page freezes a new generation unless one awaits its activation.
Frozen ==
  IF manifest # Nil /\ manifest # file.active THEN manifest ELSE History[ledger]

\* After an activation the resource runs again by its cadence of five minutes, at once
\* only for a deferred projection (Quick).
Settled == (\A r \in receipts : r.aged) /\ (\A c \in calls : ~c.late)

\* Cleanup of the publication the file names comes first.
Begin ==
  /\ client.step = "idle" /\ ~Waiting
  /\ Frozen = manifest \/ Quick \/ Settled
  /\ manifest' = Frozen
  /\ IF file.active # Nil
     THEN client' = [step |-> "cleanup", snap |-> Frozen, sent |-> 0, left |-> STEPS]
     ELSE client' = [step |-> "prepare", snap |-> Frozen, sent |-> 0, left |-> PAGES]
  /\ UNCHANGED <<store, ledger, file, calls, reader, faults>>

Ready(step) == client.step = step /\ ~Waiting
SendCleanup ==
  /\ Ready("cleanup")
  /\ Send(Call("cleanup", file.active, 0, 0))
  /\ UNCHANGED <<store, disk, client, reader, faults>>
SendPrepare ==
  /\ Ready("prepare")
  /\ Send(Call("prepare", client.snap, 0, 0))
  /\ UNCHANGED <<store, disk, client, reader, faults>>
Batch == Min({PAGE, Total(client.snap) - client.sent})
SendStage ==
  /\ Ready("stage") /\ client.left > 0 /\ client.sent < Total(client.snap)
  /\ Send(Call("stage", client.snap, client.sent, Batch))
  /\ UNCHANGED <<store, disk, client, reader, faults>>
SendActivate ==
  /\ Ready("stage") /\ client.left > 0 /\ client.sent = Total(client.snap)
  /\ Send(Call("activate", client.snap, 0, 0))
  /\ UNCHANGED <<store, disk, client, reader, faults>>

\* The pages of this cycle are used: the file keeps the staging, not the active id.
Pause ==
  /\ Ready("stage") /\ client.left = 0
  /\ file' = NoFile
  /\ Stop /\ UNCHANGED <<store, ledger, manifest, calls, reader, faults>>

\* What the client does with an answer.
AfterCleanup(ok, pending) ==
  \/ /\ ~ok
     /\ client' = [client EXCEPT !.step = "prepare", !.left = PAGES]
     /\ UNCHANGED file
  \/ /\ ok /\ pending /\ client.left > 1
     /\ client' = [client EXCEPT !.left = @ - 1] /\ UNCHANGED file
  \/ /\ ok /\ pending /\ client.left <= 1
     /\ Stop /\ file' = [file EXCEPT !.debt = TRUE]
  \/ /\ ok /\ ~pending
     /\ file' = [file EXCEPT !.debt = FALSE]
     /\ IF file.active = client.snap THEN Stop
        ELSE client' = [client EXCEPT !.step = "prepare", !.left = PAGES]
AfterPrepare(isActive, prefix) ==
  IF isActive THEN Stop /\ file' = [active |-> client.snap, debt |-> FALSE]
  ELSE /\ client' = [client EXCEPT !.step = "stage", !.sent = prefix]
       /\ UNCHANGED file
AfterStage(ok, n) ==
  /\ client' = IF ok THEN [client EXCEPT !.sent = @ + n,
                             !.left = IF client.sent + n = Total(client.snap) THEN @ ELSE @ - 1]
               ELSE Idle
  /\ UNCHANGED file
\* The file is written before the cleanup that follows an activation.
AfterActivate(ok) ==
  IF ok THEN /\ file' = [active |-> client.snap, debt |-> FALSE]
             /\ client' = [client EXCEPT !.step = "cleanup", !.left = STEPS]
  ELSE Stop /\ UNCHANGED file

Unheard == UNCHANGED <<client, file>>
Answer(c, reaction) == (IF c.late THEN Unheard ELSE reaction) /\ calls' = calls \ {c}

RunCleanup(c) ==
  /\ c.op = "cleanup"
  /\ IF c.snap # active
     THEN Answer(c, AfterCleanup(FALSE, FALSE)) /\ UNCHANGED <<receipts, transfers>>
     ELSE \E gone \in SUBSET Garbage :
       /\ Cleanup(gone)
       /\ Answer(c, AfterCleanup(TRUE, gone # Garbage))
  /\ UNCHANGED <<current, active>>

\* Its reads and its writes are separate statements.
ReadPrepare(c) ==
  /\ c.op = "prepare" /\ ~c.read
  /\ IF active = c.snap THEN Answer(c, AfterPrepare(TRUE, 0))
     ELSE /\ calls' = (calls \ {c}) \cup
               {[c EXCEPT !.read = TRUE, !.base = active, !.prefix = Usable(c.snap)]}
          /\ Unheard
  /\ UNCHANGED store
RunPrepare(c) ==
  /\ c.op = "prepare" /\ c.read
  /\ Prepare(c)
  /\ Answer(c, AfterPrepare(FALSE, c.prefix))
  /\ UNCHANGED <<current, active>>

RunStage(c) ==
  /\ c.op = "stage"
  /\ CASE c.snap \notin DOMAIN transfers ->
            Answer(c, AfterStage(FALSE, 0)) /\ UNCHANGED <<receipts, transfers>>
       [] c.snap \in DOMAIN transfers /\ c.from < transfers[c.snap].next ->
            Answer(c, AfterStage(Duplicate(c), c.count)) /\ UNCHANGED <<receipts, transfers>>
       [] OTHER -> IF Fits(c) THEN Stage(c) /\ Answer(c, AfterStage(TRUE, c.count))
                   ELSE Answer(c, AfterStage(FALSE, 0)) /\ UNCHANGED <<receipts, transfers>>
  /\ UNCHANGED <<current, active>>

RunActivate(c) ==
  /\ c.op = "activate"
  /\ IF active # c.snap /\ Complete(c.snap)
     THEN Activate(c.snap) /\ Answer(c, AfterActivate(TRUE)) /\ UNCHANGED receipts
     ELSE Answer(c, AfterActivate(active = c.snap)) /\ UNCHANGED store

Run(c) ==
  /\ RunCleanup(c) \/ ReadPrepare(c) \/ RunPrepare(c) \/ RunStage(c) \/ RunActivate(c)
  /\ UNCHANGED <<ledger, manifest, reader, faults>>

-----------------------------------------------------------------------------
(* Failures, time and readers.                                               *)

\* The client times out or stops; its request may still run, or never.
GiveUp ==
  /\ client.step # "idle" /\ faults < MaxFaults
  /\ faults' = faults + 1
  /\ Stop
  /\ calls' = {[c EXCEPT !.late = TRUE] : c \in calls}
  /\ UNCHANGED <<store, disk, reader>>
Lose(c) ==
  /\ c.late
  /\ calls' = calls \ {c}
  /\ UNCHANGED <<store, disk, client, reader, faults>>

\* Five minutes pass for every receipt, a day for a transfer; no request lasts so long.
Age ==
  /\ \A c \in calls : ~c.late
  /\ \E r \in receipts : ~r.aged
  /\ receipts' = {[r EXCEPT !.aged = TRUE] : r \in receipts}
  /\ UNCHANGED <<current, active, transfers, disk, client, calls, reader, faults>>
Expire(s) ==
  /\ ~transfers[s].old /\ client.step = "idle" /\ calls = {} /\ faults < MaxFaults
  /\ faults' = faults + 1
  /\ transfers' = [transfers EXCEPT ![s].old = TRUE]
  /\ receipts' = {[r EXCEPT !.aged = TRUE] : r \in receipts}
  /\ UNCHANGED <<current, active, disk, client, calls, reader>>

\* The ledger gains or revises rows.
Revise ==
  /\ ledger < Len(History)
  /\ ledger' = ledger + 1
  /\ UNCHANGED <<store, manifest, file, client, calls, reader, faults>>

\* A page reads the rows after its cursor and the identity in one statement.
AnyCursor == TRUE
SameCursor == reader.snap \in {Nil, active}
Page ==
  LET rest == {i \in current : \A x \in reader.seen : i[1] > x[1]} IN
  /\ active # Nil /\ ~reader.done /\ SameCursor
  /\ reader' = IF rest = {} THEN [reader EXCEPT !.snap = active, !.done = TRUE]
               ELSE [reader EXCEPT !.snap = active, !.seen = @ \cup
                      {CHOOSE i \in rest : \A j \in rest : i[1] <= j[1]}]
  /\ UNCHANGED <<store, disk, client, calls, faults>>
Reopen ==
  /\ reader.done \/ reader.snap \notin {Nil, active}
  /\ reader' = Unread
  /\ UNCHANGED <<store, disk, client, calls, faults>>

-----------------------------------------------------------------------------
Init ==
  /\ current = {} /\ active = Nil /\ transfers = [s \in {} |-> Nil] /\ receipts = {}
  /\ ledger = 1 /\ manifest = Nil /\ file = NoFile
  /\ client = Idle /\ calls = {} /\ reader = Unread /\ faults = 0

Cycle == Begin \/ SendCleanup \/ SendPrepare \/ SendStage \/ SendActivate \/ Pause

Next ==
  \/ Cycle \/ GiveUp \/ Age \/ Revise \/ Page \/ Reopen
  \/ \E c \in calls : Run(c) \/ Lose(c)
  \/ \E s \in DOMAIN transfers : Expire(s)

Spec == Init /\ [][Next]_evidenceVars

\* The heavy lane runs the resource again and again; a request returns; time passes.
FairSpec ==
  /\ Spec
  /\ WF_evidenceVars(Cycle) /\ WF_evidenceVars(Age)
  /\ WF_evidenceVars(\E c \in calls : ~c.late /\ Run(c))
  /\ WF_evidenceVars(\E c \in calls : c.late /\ (Run(c) \/ Lose(c)))

-----------------------------------------------------------------------------
\* Every table and local variable keeps its shape, and a receipt is one batch of its
\* snapshot.
TypeOK ==
  /\ active \in Snapshots \cup {Nil} /\ manifest \in Snapshots \cup {Nil}
  /\ \A s \in DOMAIN transfers : transfers[s].next \in 0..Total(s)
  /\ \A r \in receipts : r.offset + r.count <= Total(r.snap)
  /\ \A r, q \in receipts : r.snap = q.snap /\ r.offset = q.offset => r = q
  /\ client.step \in {"idle", "cleanup", "prepare", "stage"}

\* The published archive is exactly the snapshot it is named after, payload by payload,
\* though only differences were uploaded ("A changed comparison baseline requires
\* prepare/replay against the new baseline", docs/contracts/HOSTING_BOUNDARIES.md).
PublishedIsExact == active # Nil => current = Items(active)

\* The sync never works on an older publication than the one it was told of: what its
\* file names is published, or a later frozen generation is.
FileIsPublished == file.active # Nil => active \in {file.active, manifest}

\* A reader who reached the last page read one published snapshot.
WalkIsWhole == reader.done => reader.seen = Items(reader.snap)

\* Readers see the abstract archive: one complete snapshot replaced in one step.
Archive == INSTANCE NewsArchive WITH shown <- current
EvidenceImplementsArchive == Archive!Spec

\* A frozen generation is published in the end, whatever requests were given up.
EvidenceIsPublished ==
  \A s \in Snapshots : (manifest = s) ~> (active = s)

\* The published archive, the sync's file and a finished walk each name one
\* published snapshot, and its content is exactly that.
EvidenceExact == PublishedIsExact /\ FileIsPublished /\ WalkIsWhole
=============================================================================
