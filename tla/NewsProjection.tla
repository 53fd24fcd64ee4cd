--------------------------- MODULE NewsProjection ---------------------------
(*******************************************************************************)
(* Publication of the news archive.  A producer freezes a snapshot of the      *)
(* ledger and replays it into the web database as a generation: prepare,       *)
(* details, index, activate, verify.  A small change is sent as one patch      *)
(* against the acknowledged baseline instead.  The Stable sync process and a   *)
(* candidate's bootstrap share one target.  A request may lose its answer and  *)
(* a producer may stop after any of them; only its state file survives.        *)
(* Sources: web news-projection-store.ts and news-projection-delta.ts,         *)
(* dashboard/sync/resources.py, dashboard/news_resources.py,                   *)
(* news_projection.py.                                                         *)
(*                                                                             *)
(* A full generation of snapshot s is <<s>>, a patch to s over generation g    *)
(* is Append(g, s): the digests that name them bind exactly that.  An item is  *)
(* a detail key with the version of its index row; a detail never changes      *)
(* under its key, so its payload is left out.                                  *)
(*******************************************************************************)
EXTENDS Integers, FiniteSets, Sequences, SequencesExt, FiniteSetsExt, Functions

CONSTANTS
  Producers,   \* processes that publish to this target
  Source,      \* [Producers -> Seq(snapshots)] in the order they are frozen
  Content,     \* [snapshots -> Seq(<<detail key, index version>>)]
  BATCHES,     \* NEWS_PROJECTION_BATCHES_PER_CYCLE
  Overlap,     \* whether requests of two producers overlap inside the worker
  MaxFaults    \* bound: lost answers and crashes; also expirations of a staging

Snapshots == DOMAIN Content
Items(s) == Range(Content[s])
Keys(s) == {i[1] : i \in Items(s)}
Count(s) == Len(Content[s])
Snap(g) == Last(g)
Full(g) == Len(g) = 1

\* An index row is named by its detail key, and a snapshot has no key twice.
ASSUME ContentAssumption ==
  \A s \in Snapshots :
    /\ Content[s] \in Seq(Nat \X Nat)
    /\ \A i, j \in 1..Len(Content[s]) : Content[s][i][1] = Content[s][j][1] => i = j
\* A producer starts from some snapshot of the ledger.
ASSUME SourceAssumption ==
  \A p \in Producers : Source[p] \in Seq(Snapshots) /\ Len(Source[p]) > 0
ASSUME BoundAssumption == BATCHES \in Nat /\ MaxFaults \in Nat

VARIABLES
  gens,      \* news_projection_generations: state by generation
  receipts,  \* news_projection_receipts_v2: batches staged, by generation
  details,   \* keys of news_details
  rows,      \* news_index: version and tombstone by key
  counts,    \* generations with rows in news_projection_counts
  state,     \* the row of news_projection_state
  expired,   \* stagings whose last receipt is older than the TTL
  frozen,    \* per producer: position of the frozen snapshot in its source
  file,      \* per producer: its sync state file
  client,    \* per producer: local variables of _sync_news
  flight,    \* per producer: a prepare between its reads and its batch
  reader,    \* a reader walking the pages of the archive
  been,      \* history: snapshots that were active
  faults

server == <<gens, receipts, details, rows, counts, state, expired>>
local == <<frozen, file, client>>
vars == <<server, local, flight, reader, been, faults>>

Empty == <<>>
NoGen == <<>>
Quiet == [step |-> "idle", detail |-> 0, index |-> 0, work |-> 0]
NoFile == [gen |-> NoGen, status |-> "NONE", active |-> "none", baseline |-> NoGen]
Walk0 == [gen |-> NoGen, seen |-> {}, done |-> FALSE]

Init ==
  /\ gens = Empty /\ receipts = Empty /\ details = {} /\ rows = Empty
  /\ counts = {} /\ expired = {}
  /\ state = [active |-> NoGen, status |-> "NONE", missing |-> 0, violations |-> 0]
  /\ frozen = [p \in Producers |-> 1]
  /\ file = [p \in Producers |-> NoFile]
  /\ client = [p \in Producers |-> Quiet]
  /\ flight = [p \in Producers |-> <<>>]
  /\ reader = Walk0 /\ been = {} /\ faults = 0
-----------------------------------------------------------------------------
\* Reads of the web database.
In(s) == {g \in DOMAIN gens : gens[g] = s}
Staged(g, kind) == IF g \in DOMAIN receipts THEN receipts[g][kind] ELSE 0
Live == {<<k, rows[k].version>> : k \in {k \in DOMAIN rows : rows[k].live}}
LiveKeys == {i[1] : i \in Live}
\* The index rows of a full generation, rebuilt from its receipts.
FromReceipts(g) == {Content[Snap(g)][i] : i \in 1..Staged(g, "index")}
Projection(g) == IF Full(g) THEN FromReceipts(g)
                 ELSE IF state.active = g THEN Live ELSE {}
Missing(g) == {i \in Projection(g) : i[1] \notin details}

\* DELETE of whole generations, then of tombstones and of details no index row
\* refers to.
Without(f, gs) == Restrict(f, DOMAIN f \ gs)
Untombed == Restrict(rows, LiveKeys)
\* Mutant: a sweep that also takes the rows' own details.
SweptAll(gs) == {}
Swept(gs) == IF gs = {} THEN details ELSE details \cap LiveKeys
DeleteGenerations(gs) ==
  /\ receipts' = Without(receipts, gs)
  /\ counts' = counts \ gs
  /\ rows' = IF gs = {} THEN rows ELSE Untombed
  /\ details' = Swept(gs)
  /\ expired' = expired \ gs
-----------------------------------------------------------------------------
Mine(p) == <<Source[p][frozen[p]]>>
Target(p) == Snap(Mine(p))
\* Without Overlap the worker answers one request at a time.
Alone(p) == Overlap \/ \A q \in Producers \ {p} : flight[q] = <<>>
Same(p) == UNCHANGED <<frozen, file, flight, reader, been, faults>>
Goto(p, step) == client' = [client EXCEPT ![p].step = step]
Stop(p) == client' = [client EXCEPT ![p] = Quiet]
\* An error answer ends the cycle before the state file is written.
Refused(p) == Stop(p) /\ UNCHANGED server /\ Same(p)
At(p, step) == client[p].step = step /\ flight[p] = <<>> /\ Alone(p)

\* The answer arrives; or it is lost, and the transport sends the same bytes
\* again or the producer gives the cycle up.
Answer(p, next) ==
  \/ client' = [client EXCEPT ![p] = next] /\ UNCHANGED faults
  \/ /\ faults < MaxFaults /\ faults' = faults + 1
     /\ client' \in {client, [client EXCEPT ![p] = Quiet]}
Rest == UNCHANGED <<frozen, file, reader>>

\* A later source state is frozen once the frozen one was recorded as active.
Freeze(p) ==
  /\ client[p] = Quiet /\ flight[p] = <<>>
  /\ file[p].active = Target(p) /\ frozen[p] < Len(Source[p])
  /\ frozen' = [frozen EXCEPT ![p] = @ + 1]
  /\ UNCHANGED <<server, file, client, flight, reader, been, faults>>

\* The patch from one snapshot to another, made from the frozen inventories.
Removed(b, s) == Keys(b) \ Keys(s)
Changed(b, s) == Items(s) \ Items(b)
Patched(b, s) ==
  [k \in DOMAIN rows \cup Keys(s) |->
     IF \E i \in Changed(b, s) : i[1] = k
     THEN [version |-> (CHOOSE i \in Changed(b, s) : i[1] = k)[2], live |-> TRUE]
     ELSE [rows[k] EXCEPT !.live = @ /\ k \notin Removed(b, s)]]
Base(base) == state.status = "CURRENT" /\ state.active = base
Acceptable(base, s) ==
  /\ Base(base) /\ In("STAGING") = {}
  /\ Removed(Snap(base), s) \subseteq LiveKeys
  /\ Cardinality((LiveKeys \ Removed(Snap(base), s)) \cup {i[1] : i \in Changed(Snap(base), s)})
       = Count(s)
ApplyDelta(base, s) ==
  LET g == Append(base, s)
      old == {x \in In("SUPERSEDED") : ~ Full(x) /\ x # base} IN
  /\ gens' = [x \in (DOMAIN gens \ old) \cup {g} |->
                IF x = g THEN "CURRENT"
                ELSE IF gens[x] = "CURRENT" THEN "SUPERSEDED" ELSE gens[x]]
  /\ rows' = Patched(Snap(base), s)
  /\ details' = details \cup {i[1] : i \in Changed(Snap(base), s)}
  /\ counts' = (counts \ old) \cup {g}
  /\ state' = [active |-> g, status |-> "CURRENT", missing |-> 0, violations |-> 0]
  /\ been' = been \cup {s}
  /\ UNCHANGED <<receipts, expired>>

\* The start of a cycle.  A pinned generation may not change before CURRENT.
Pinned(p) == file[p].gen \notin {NoGen, Mine(p)} /\ file[p].status # "CURRENT"
UpToDate(p) ==
  LET b == file[p].baseline IN
  /\ file[p].status = "CURRENT" /\ b # NoGen /\ Snap(b) = Target(p)
  /\ state.status = "CURRENT" /\ state.active = b
Begin(p) ==
  /\ At(p, "idle") /\ ~ UpToDate(p) /\ ~ Pinned(p)
  /\ Goto(p, "prepare") /\ UNCHANGED server /\ Same(p)

Delta(p) ==
  LET b == file[p].baseline
      g == Append(b, Target(p)) IN
  /\ At(p, "idle")
  /\ file[p].status = "CURRENT" /\ b # NoGen /\ Snap(b) # Target(p)
  /\ state.status = "CURRENT"
  /\ \/ /\ state.active = g
        /\ Answer(p, [Quiet EXCEPT !.step = "patched"])
        /\ UNCHANGED <<server, been>>
     \/ /\ state.active # g /\ Acceptable(b, Target(p))
        /\ ApplyDelta(b, Target(p))
        /\ Answer(p, [Quiet EXCEPT !.step = "patched"])
  /\ UNCHANGED flight /\ Rest

Progress(p, g) == [Quiet EXCEPT !.step = "stage", !.detail = Staged(g, "detail"),
                                !.index = Staged(g, "index")]
Obsolete == In("STAGING") \cup In("SUPERSEDED")
\* Mutant: a foreign staging is in the way for ever.
FreeOnce == In("STAGING") = {}
\* Another generation's staging is in the way until it expires.
Free == In("STAGING") \subseteq expired
\* prepareNewsProjection up to its last batch.
Prepare(p) ==
  LET g == Mine(p) IN
  /\ At(p, "prepare")
  /\ \/ /\ state.active = g /\ state.missing = 0 /\ state.violations = 0
        /\ Answer(p, [Quiet EXCEPT !.step = "confirm"])
        /\ UNCHANGED <<server, flight, been>> /\ Rest
     \/ /\ state.active # g /\ g \in DOMAIN gens /\ g \notin expired
        /\ Answer(p, Progress(p, g))
        /\ UNCHANGED <<server, flight, been>> /\ Rest
     \/ /\ state.active # g /\ g \in DOMAIN gens /\ g \in expired
        /\ gens' = Without(gens, {g}) /\ DeleteGenerations({g}) /\ UNCHANGED state
        /\ UNCHANGED client /\ Same(p)
     \/ /\ state.active # g /\ g \notin DOMAIN gens
        /\ IF Free
           THEN /\ flight' = [flight EXCEPT ![p] = <<Obsolete>>]
                /\ UNCHANGED <<server, client, frozen, file, reader, been, faults>>
           ELSE Refused(p)
\* Its last batch: obsolete generations go, the new one is staging.
Prepared(p) ==
  LET g == Mine(p)
      gone == flight[p][1] IN
  /\ flight[p] # <<>> /\ flight' = [flight EXCEPT ![p] = <<>>]
  /\ IF g \in DOMAIN gens
     THEN Stop(p) /\ UNCHANGED <<server, faults>>
     ELSE /\ gens' = [x \in (DOMAIN gens \ gone) \cup {g} |->
                        IF x = g THEN "STAGING" ELSE gens[x]]
          /\ DeleteGenerations(gone) /\ UNCHANGED state
          /\ Answer(p, [Quiet EXCEPT !.step = "stage"])
  /\ UNCHANGED been /\ Rest

Complete(p) == client[p].detail = Count(Target(p)) /\ client[p].index = Count(Target(p))
Kind(p) == IF client[p].detail < Count(Target(p)) THEN "detail" ELSE "index"
\* stageNewsProjectionBatch: batches are accepted in order, a repeated one is
\* answered from its receipt.
Stage(p) ==
  LET g == Mine(p)
      kind == Kind(p)
      offset == client[p][kind]
      next == [client[p] EXCEPT ![kind] = @ + 1, !.work = @ + 1] IN
  /\ At(p, "stage") /\ ~ Complete(p) /\ client[p].work < BATCHES
  /\ LET legal == /\ g \in In("STAGING") /\ offset <= Staged(g, kind)
                  /\ kind = "index" => Staged(g, "detail") = Count(Snap(g)) IN
     \/ ~ legal /\ Refused(p)
     \/ /\ legal /\ offset < Staged(g, kind)
        /\ Answer(p, next) /\ UNCHANGED <<server, flight, been>> /\ Rest
     \/ /\ legal /\ offset = Staged(g, kind)
        /\ receipts' = [x \in DOMAIN receipts \cup {g} |->
             IF x = g THEN [k \in {"detail", "index"} |-> Staged(g, k) + (IF k = kind THEN 1 ELSE 0)]
             ELSE receipts[x]]
        /\ details' = IF kind = "detail" THEN details \cup {Content[Snap(g)][offset + 1][1]}
                      ELSE details
        /\ expired' = expired \ {g}
        /\ Answer(p, next)
        /\ UNCHANGED <<gens, rows, counts, state, flight, been>> /\ Rest
\* The cycle has done its share; the state file pins the generation.
Yield(p) ==
  /\ At(p, "stage") /\ ~ Complete(p) /\ client[p].work = BATCHES
  /\ file' = [file EXCEPT ![p].gen = Mine(p), ![p].status = "REPLAYING"]
  /\ Stop(p) /\ UNCHANGED <<server, frozen, flight, reader, been, faults>>

\* Mutant: rows the snapshot does not have stay in the index.
Leftover(g) == [k \in DOMAIN rows \cup Keys(Snap(g)) |->
  IF k \in {i[1] : i \in FromReceipts(g)}
  THEN [version |-> (CHOOSE i \in FromReceipts(g) : i[1] = k)[2], live |-> TRUE]
  ELSE rows[k]]
\* Rows of the index after the snapshot replaced them; the others are tombstones.
Replaced(g) == [k \in DOMAIN rows \cup Keys(Snap(g)) |->
  IF k \in {i[1] : i \in FromReceipts(g)}
  THEN [version |-> (CHOOSE i \in FromReceipts(g) : i[1] = k)[2], live |-> TRUE]
  ELSE [rows[k] EXCEPT !.live = FALSE]]
Ready(g) ==
  /\ g \in In("STAGING")
  /\ Staged(g, "detail") = Count(Snap(g)) /\ Staged(g, "index") = Count(Snap(g))
  /\ Missing(g) = {}
Activate(p) ==
  LET g == Mine(p) IN
  /\ At(p, "stage") /\ Complete(p)
  /\ \/ /\ state.active = g /\ state.status = "CURRENT"
        /\ Answer(p, [client[p] EXCEPT !.step = "verify"])
        /\ UNCHANGED <<server, flight, been>> /\ Rest
     \/ /\ state.active # g \/ state.status # "CURRENT"
        /\ ~ Ready(g) /\ Refused(p)
     \/ /\ state.active # g /\ Ready(g)
        /\ gens' = [x \in DOMAIN gens |-> IF x = g THEN "CURRENT"
                      ELSE IF gens[x] = "CURRENT" THEN "SUPERSEDED" ELSE gens[x]]
        /\ counts' = counts \cup {g}
        /\ state' = [active |-> g, status |-> "CURRENT", missing |-> 0, violations |-> 0]
        /\ rows' = Replaced(g)
        /\ been' = been \cup {Snap(g)}
        /\ Answer(p, [client[p] EXCEPT !.step = "verify"])
        /\ UNCHANGED <<receipts, details, expired, flight>> /\ Rest
\* verifyNewsProjection recomputes what activation promised.
Violations(g) == Cardinality(Projection(g) \ Live) + Cardinality(Live \ Projection(g))
Verify(p) ==
  LET g == Mine(p) IN
  /\ At(p, "verify")
  /\ IF state.active # g THEN Refused(p)
     ELSE LET sound == Violations(g) = 0 /\ Missing(g) = {}
                       /\ Cardinality(Projection(g)) = Count(Snap(g)) IN
          /\ state' = [state EXCEPT !.missing = Cardinality(Missing(g)),
                                    !.violations = Violations(g),
                                    !.status = IF sound THEN "CURRENT" ELSE "RECOVERY_REQUIRED"]
          /\ \/ sound /\ Answer(p, [Quiet EXCEPT !.step = "confirm"])
             \/ ~ sound /\ Stop(p) /\ UNCHANGED faults
          /\ UNCHANGED <<gens, receipts, details, rows, counts, expired, flight, been>> /\ Rest
\* The health the worker reports must match; then the file is written.
Confirm(p) ==
  LET g == IF client[p].step = "patched" THEN Append(file[p].baseline, Target(p))
           ELSE Mine(p)
      healthy == /\ state.active = g /\ state.status = "CURRENT"
                 /\ state.missing = 0 /\ state.violations = 0 IN
  /\ At(p, "confirm") \/ At(p, "patched")
  /\ \/ ~ healthy /\ Refused(p)
     \/ /\ healthy
        /\ file' = [file EXCEPT ![p] = [gen |-> g, status |-> "CURRENT",
                                        active |-> Target(p), baseline |-> g]]
        /\ Stop(p) /\ UNCHANGED <<server, frozen, flight, reader, been, faults>>
     \/ /\ healthy /\ faults < MaxFaults /\ faults' = faults + 1 /\ Stop(p)
        /\ UNCHANGED <<server, frozen, file, flight, reader, been>>
-----------------------------------------------------------------------------
\* No receipt for 24 hours: its producer has been down that long.
Orphan(g) == \A p \in Producers : Mine(p) # g
Age(g) ==
  /\ g \in In("STAGING") \ expired
  /\ IF Orphan(g) THEN UNCHANGED faults ELSE faults < MaxFaults /\ faults' = faults + 1
  /\ \A p \in Producers : flight[p] = <<>> /\ (Mine(p) = g => client[p] = Quiet)
  /\ expired' = expired \cup {g}
  /\ UNCHANGED <<gens, receipts, details, rows, counts, state, local, flight, reader, been>>

\* A reader pages by key; a page of another generation is refused.
\* Mutant: only the status of the projection is looked at.
AnyCursor == state.status = "CURRENT"
Cursor == state.status = "CURRENT" /\ reader.gen \in {NoGen, state.active}
Page ==
  LET later == {i \in Live : \A x \in reader.seen : i[1] > x[1]} IN
  /\ ~ reader.done /\ Cursor
  /\ IF later = {} THEN reader' = [reader EXCEPT !.done = TRUE, !.gen = state.active]
     ELSE \E i \in later : /\ \A x \in later : i[1] <= x[1]
                           /\ reader' = [gen |-> state.active, seen |-> reader.seen \cup {i},
                                         done |-> FALSE]
  /\ UNCHANGED <<server, local, flight, been, faults>>
Reopen ==
  /\ reader.gen # NoGen /\ (reader.done \/ ~ Cursor)
  /\ reader' = Walk0
  /\ UNCHANGED <<server, local, flight, been, faults>>

Cycle(p) == \/ Begin(p) \/ Delta(p) \/ Prepare(p) \/ Prepared(p) \/ Stage(p) \/ Yield(p)
            \/ Activate(p) \/ Verify(p) \/ Confirm(p)
Next ==
  \/ \E p \in Producers : Cycle(p) \/ Freeze(p)
  \/ \E g \in DOMAIN gens : Age(g)
  \/ Page \/ Reopen
Spec == Init /\ [][Next]_vars
\* Sync cycles recur, and so does the refresh of the frozen source; a staging no
\* producer replays any more grows old.
FairSpec ==
  /\ Spec
  /\ \A p \in Producers : WF_vars(Cycle(p)) /\ WF_vars(Freeze(p))
  /\ WF_vars(\E g \in DOMAIN gens : Orphan(g) /\ Age(g))
-----------------------------------------------------------------------------
Gens == {NoGen} \cup DOMAIN gens
\* The tables and the producers' files have the shapes the code gives them.
TypeOK ==
  /\ \A g \in DOMAIN gens : gens[g] \in {"STAGING", "CURRENT", "SUPERSEDED"}
  /\ \A g \in DOMAIN receipts : receipts[g] \in [{"detail", "index"} -> 0..Count(Snap(g))]
  /\ \A k \in DOMAIN rows : rows[k].live \in BOOLEAN
  /\ counts \subseteq DOMAIN gens /\ expired \subseteq In("STAGING")
  /\ state.status \in {"NONE", "CURRENT", "RECOVERY_REQUIRED"} /\ state.active \in Gens
  /\ \A p \in Producers :
       /\ frozen[p] \in 1..Len(Source[p])
       /\ file[p].status \in {"NONE", "REPLAYING", "CURRENT"}
       /\ client[p].work \in 0..BATCHES

\* What a replay has acknowledged it may rely on: the details its receipts name
\* are stored until it activates, whatever other generations are cleaned away.
StagedKept ==
  \A g \in In("STAGING") : \A i \in 1..Staged(g, "detail") : Content[Snap(g)][i][1] \in details

\* Every row of the current archive has its detail, and the archive is the
\* active generation's snapshot with its counts.
CurrentComplete ==
  state.status = "CURRENT" =>
    /\ Live = Items(Snap(state.active)) /\ LiveKeys \subseteq details
    /\ state.active \in counts /\ gens[state.active] = "CURRENT"

\* A reader who reached the last page read exactly one published snapshot.
WalkIsSnapshot == reader.done => reader.seen = Items(Snap(reader.gen))

\* The archive readers see implements the abstract one: it is replaced as a
\* whole, by activation or by a patch, and by nothing else.
Archive == INSTANCE NewsArchive WITH shown <- Live
ArchiveImplemented == Archive!Spec

\* A producer that keeps running publishes every snapshot it froze, in spite of
\* lost answers, crashes and the other producer, unless its pinned generation
\* was changed under it (see PinnedStands).
FrozenIsPublished ==
  \A p \in Producers : \A s \in Range(Source[p]) :
    (Target(p) = s) ~> (s \in been \/ Pinned(p))

\* A newer source snapshot is discovered only after the frozen snapshot has
\* reached CURRENT (docs/contracts/NEWS_PROJECTION.md): a producer never finds
\* its pinned generation changed.
PinnedStands == \A p \in Producers : ~ Pinned(p)

\* At most one replacement is staging (docs/contracts/NEWS_PROJECTION.md).
OneStaging == Cardinality(In("STAGING")) <= 1

\* The current generation is whole, what is being staged survives every
\* sweep, and a walk that ends has read one snapshot.
ArchiveWhole == CurrentComplete /\ StagedKept /\ WalkIsSnapshot
=============================================================================
