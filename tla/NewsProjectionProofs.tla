------------------------ MODULE NewsProjectionProofs ------------------------
(********************************************************************************)
(* The news archive is whole: whatever two producers replay, patch, lose and    *)
(* abandon, the rows readers page through are one published snapshot with all   *)
(* its details, and what a staging has acknowledged survives every sweep.  The  *)
(* hypothesis of every theorem is that the worker answers one request at a      *)
(* time; when the requests of two producers overlap it fails (see OneStaging).  *)
(********************************************************************************)
EXTENDS NewsProjection, FiniteSetTheorems, FunctionTheorems, TLAPS

Generations == Seq(Snapshots) \ {NoGen}
Kinds == {"detail", "index"}
Steps == {"idle", "prepare", "stage", "verify", "confirm", "patched"}

\* The rows of the tables.
ServerTyped ==
  /\ gens \in [DOMAIN gens -> {"STAGING", "CURRENT", "SUPERSEDED"}]
  /\ DOMAIN gens \subseteq Generations
  /\ receipts \in [DOMAIN receipts -> [Kinds -> Nat]]
  /\ DOMAIN receipts \subseteq DOMAIN gens
  /\ \A g \in DOMAIN receipts : Full(g) /\ \A k \in Kinds : receipts[g][k] <= Count(Snap(g))
  /\ rows \in [DOMAIN rows -> [version : Nat, live : BOOLEAN]]
  /\ counts \subseteq DOMAIN gens
  /\ state \in [active : Generations \cup {NoGen}, status : {"NONE", "CURRENT"},
                missing : {0}, violations : {0}]

FileRow == [gen : Seq(Snapshots), status : {"NONE", "REPLAYING", "CURRENT"},
            active : Snapshots \cup {"none"}, baseline : Seq(Snapshots)]
ClientRow == [step : Steps, detail : Nat, index : Nat, work : Nat]
Fits(c, s) == c.detail <= Count(s) /\ c.index <= Count(s) /\ c.work <= BATCHES

\* The producers' files and local variables; a client never asks for more than its
\* snapshot has.
ClientTyped ==
  /\ frozen \in [Producers -> Nat]
  /\ \A p \in Producers : frozen[p] \in 1..Len(Source[p])
  /\ file \in [Producers -> FileRow]
  /\ client \in [Producers -> ClientRow]
  /\ \A p \in Producers : Fits(client[p], Target(p))

\* The active generation is the one that is CURRENT, and the index shows its
\* snapshot with every detail.
ActiveWhole ==
  /\ state.active = NoGen <=> state.status = "NONE"
  /\ \A g \in DOMAIN gens : gens[g] = "CURRENT" <=> g = state.active
  /\ state.active = NoGen => Live = {}
  /\ state.active # NoGen =>
       /\ state.active \in counts
       /\ Live = Items(Snap(state.active))
       /\ Full(state.active) => Staged(state.active, "index") = Count(Snap(state.active))
  /\ LiveKeys \subseteq details

\* One generation at most is staging, whole details behind its receipts; it has
\* not expired under a producer that is staging it.
StagingSound ==
  /\ \A g, h \in In("STAGING") : g = h
  /\ \A g \in In("STAGING") : Full(g)
  /\ expired \subseteq In("STAGING")
  /\ StagedKept
StagingFresh == \A p \in Producers : client[p].step = "stage" => Mine(p) \notin expired

\* Between the reads of a prepare and its batch nothing it read can change.
FlightSound ==
  /\ flight = [p \in Producers |-> flight[p]]
  /\ \A p \in Producers : flight[p] # <<>> =>
       /\ flight[p] = <<Obsolete>> /\ Mine(p) \notin DOMAIN gens
       /\ \A q \in Producers \ {p} : flight[q] = <<>>

\* A reader has read its generation's snapshot from the first key to some key.
WalkSound ==
  /\ reader \in [gen : Seq(Snapshots), seen : SUBSET (Nat \X Nat), done : BOOLEAN]
  /\ reader.gen = NoGen => reader.seen = {} /\ ~ reader.done
  /\ reader.gen # NoGen =>
       /\ reader.seen \subseteq Items(Snap(reader.gen))
       /\ \A i \in Items(Snap(reader.gen)) : \A x \in reader.seen :
            i[1] <= x[1] => i \in reader.seen
  /\ WalkIsSnapshot

ServerSound == ServerTyped /\ ActiveWhole /\ StagingSound
Inv == ServerSound /\ ClientTyped /\ StagingFresh /\ FlightSound /\ WalkSound

-----------------------------------------------------------------------------
\* A snapshot's items are pairs, one for each of its keys.
LEMMA ItemFacts ==
  ASSUME NEW s \in Snapshots
  PROVE  /\ Count(s) \in Nat
         /\ Items(s) = {Content[s][i] : i \in 1..Count(s)}
         /\ Items(s) \subseteq Nat \X Nat
         /\ \A i, j \in Items(s) : i[1] = j[1] => i = j
<1>1. Content[s] \in Seq(Nat \X Nat)
  BY ContentAssumption
<1>2. Count(s) \in Nat /\ DOMAIN Content[s] = 1..Count(s)
  BY <1>1 DEF Count
<1>3. Items(s) = {Content[s][i] : i \in 1..Count(s)}
  BY <1>2 DEF Items, Range
<1>4. \A i \in 1..Count(s) : Content[s][i] \in Nat \X Nat
  BY <1>1, <1>2
<1>5. \A i, j \in Items(s) : i[1] = j[1] => i = j
  BY <1>3, ContentAssumption DEF Count
<1> QED
  BY <1>2, <1>3, <1>4, <1>5

\* The generation a producer replays: its frozen snapshot in full.
LEMMA MineFacts ==
  ASSUME ClientTyped, NEW p \in Producers
  PROVE  /\ Target(p) \in Snapshots
         /\ Mine(p) \in Generations /\ Mine(p) \in Seq(Snapshots) /\ Mine(p) # NoGen
         /\ Full(Mine(p)) /\ Snap(Mine(p)) = Target(p)
<1> DEFINE s == Source[p][frozen[p]]
<1>1. s \in Snapshots
  BY SourceAssumption DEF ClientTyped
<1>2. Mine(p) = <<s>>
  BY DEF Mine
<1>3. Len(<<s>>) = 1 /\ <<s>>[Len(<<s>>)] = s
  OBVIOUS
<1>4. Target(p) = s /\ Snap(Mine(p)) = s
  BY <1>2, <1>3 DEF Target, Snap, Last
<1> HIDE DEF s
<1> QED
  BY <1>1, <1>2, <1>3, <1>4 DEF Generations, NoGen, Full

\* A patch adds its snapshot to the generation it was made against.
LEMMA PatchFacts ==
  ASSUME NEW b \in Generations, NEW s \in Snapshots
  PROVE  /\ Append(b, s) \in Generations /\ Append(b, s) # b
         /\ Append(b, s) \in Seq(Snapshots) /\ Append(b, s) # NoGen
         /\ ~ Full(Append(b, s)) /\ Snap(Append(b, s)) = s
         /\ Snap(b) \in Snapshots
<1>1. Len(Append(b, s)) = Len(b) + 1 /\ Len(b) \in Nat /\ Len(b) > 0
  BY DEF Generations, NoGen
<1>2. Append(b, s)[Len(b) + 1] = s /\ Append(b, s) \in Seq(Snapshots)
  BY DEF Generations
<1>3. b[Len(b)] \in Snapshots
  BY <1>1 DEF Generations
<1> QED
  BY <1>1, <1>2, <1>3 DEF Generations, NoGen, Full, Snap, Last

LEMMA SnapOfGen ==
  ASSUME NEW g \in Generations
  PROVE  Snap(g) \in Snapshots
<1>1. Len(g) \in Nat /\ Len(g) > 0 /\ g \in Seq(Snapshots)
  BY DEF Generations, NoGen
<1> QED
  BY <1>1 DEF Snap, Last

\* What a producer does to its own variables when a request is answered, lost,
\* repeated or given up.
Moves(p, c) ==
  /\ client' \in {client, [client EXCEPT ![p] = c], [client EXCEPT ![p] = Quiet]}
  /\ frozen' = frozen

LEMMA QuietFits ==
  ASSUME NEW s \in Snapshots
  PROVE  Quiet \in ClientRow /\ Fits(Quiet, s)
BY ItemFacts, BoundAssumption DEF Quiet, ClientRow, Steps, Fits

LEMMA AnswerMoves ==
  ASSUME NEW p, NEW c, Answer(p, c), frozen' = frozen
  PROVE  Moves(p, c)
BY DEF Answer, Moves

LEMMA RefusedMoves ==
  ASSUME NEW p, Refused(p)
  PROVE  /\ Moves(p, Quiet) /\ UNCHANGED <<server, flight, reader, file>>
BY DEF Refused, Moves, Stop, Same

LEMMA MovesKeepTypes ==
  ASSUME ClientTyped, NEW p \in Producers, NEW c, Moves(p, c),
         file' = file \/ file' \in [Producers -> FileRow],
         c \in ClientRow, Fits(c, Target(p))
  PROVE  ClientTyped'
<1>1. Quiet \in ClientRow /\ \A q \in Producers : Fits(Quiet, Target(q))
  BY QuietFits, MineFacts
<1>2. client' \in [Producers -> ClientRow]
  BY <1>1 DEF Moves, ClientTyped
<1>3. ASSUME NEW q \in Producers
      PROVE  Fits(client'[q], Target(q))
  <2>1. Fits(client[q], Target(q))
    BY DEF ClientTyped
  <2>2. client'[q] \in {client[q], Quiet} \/ (q = p /\ client'[q] = c)
    BY DEF Moves, ClientTyped
  <2> QED
    BY <2>1, <2>2, <1>1
<1>4. \A q \in Producers : Target(q)' = Target(q)
  BY DEF Moves, Target, Mine
<1>5. \A q \in Producers : Fits(client[q], Target(q))'
  BY <1>3, <1>4 DEF Fits
<1> QED
  BY <1>2, <1>5 DEF ClientTyped, Moves

LEMMA MovesKeepFresh ==
  ASSUME ClientTyped, StagingFresh, NEW p \in Producers, NEW c, Moves(p, c),
         expired' \subseteq expired,
         c.step = "stage" => Mine(p) \notin expired
  PROVE  StagingFresh'
<1>1. ASSUME NEW q \in Producers, client'[q].step = "stage"
      PROVE  Mine(q) \notin expired
  <2>1. client'[q] \in {client[q], Quiet} \/ (q = p /\ client'[q] = c)
    BY DEF Moves, ClientTyped
  <2>2. Quiet.step # "stage"
    BY DEF Quiet
  <2> QED
    BY <1>1, <2>1, <2>2 DEF StagingFresh
<1>2. \A q \in Producers : Mine(q)' = Mine(q)
  BY DEF Moves, Mine
<1> QED
  BY <1>1, <1>2 DEF StagingFresh

-----------------------------------------------------------------------------
\* While a producer is at a step of its own no prepare is between its reads and
\* its batch.
LEMMA NobodyInFlight ==
  ASSUME ~ Overlap, NEW p \in Producers, NEW step, At(p, step)
  PROVE  \A q \in Producers : flight[q] = <<>>
BY DEF At, Alone

LEMMA NoFlightIsSound ==
  ASSUME FlightSound, \A q \in Producers : flight[q] = <<>>, flight' = flight
  PROVE  FlightSound'
BY DEF FlightSound

LEMMA ServerUnchanged ==
  ASSUME ServerSound, UNCHANGED server
  PROVE  ServerSound'
<1>1. /\ Live' = Live /\ LiveKeys' = LiveKeys
      /\ \A s : In(s)' = In(s)
      /\ \A g, k : Staged(g, k)' = Staged(g, k)
  BY DEF server, Live, LiveKeys, In, Staged
<1>2. ServerTyped'
  BY DEF ServerSound, ServerTyped, server
<1>3. ActiveWhole'
  BY <1>1 DEF ServerSound, ActiveWhole, server
<1>4. StagingSound'
  BY <1>1 DEF ServerSound, StagingSound, StagedKept, server
<1> QED
  BY <1>2, <1>3, <1>4 DEF ServerSound

\* The rows of the index and what readers see of them.
LEMMA LiveFacts ==
  /\ LiveKeys = {k \in DOMAIN rows : rows[k].live}
  /\ LiveKeys \subseteq DOMAIN rows
  /\ \A k \in LiveKeys : rows[k].live
<1>1. ASSUME NEW k \in LiveKeys
      PROVE  k \in DOMAIN rows /\ rows[k].live
  <2>1. PICK i \in Live : k = i[1]
    BY DEF LiveKeys
  <2>2. PICK j \in {j \in DOMAIN rows : rows[j].live} : i = <<j, rows[j].version>>
    BY <2>1 DEF Live
  <2> QED
    BY <2>1, <2>2
<1>2. ASSUME NEW k \in DOMAIN rows, rows[k].live
      PROVE  k \in LiveKeys
  <2>1. <<k, rows[k].version>> \in Live
    BY <1>2 DEF Live
  <2>2. <<k, rows[k].version>>[1] = k
    OBVIOUS
  <2> QED
    BY <2>1, <2>2 DEF LiveKeys
<1> QED
  BY <1>1, <1>2

\* Deleting generations leaves the archive and its details alone.
LEMMA SweepKeepsLive ==
  ASSUME ServerTyped, ActiveWhole, NEW gs, DeleteGenerations(gs)
  PROVE  /\ Live' = Live /\ LiveKeys' = LiveKeys /\ LiveKeys' \subseteq details'
         /\ rows' \in [DOMAIN rows' -> [version : Nat, live : BOOLEAN]]
<1>1. CASE gs = {}
  <2>1. rows' = rows /\ details' = details
    BY <1>1 DEF DeleteGenerations, Swept
  <2> QED
    BY <2>1 DEF Live, LiveKeys, ServerTyped, ActiveWhole
<1>2. CASE gs # {}
  <2>1. /\ rows' = [k \in LiveKeys |-> rows[k]]
        /\ details' = details \cap LiveKeys
    BY <1>2 DEF DeleteGenerations, Swept, Untombed, Restrict
  <2>2. /\ DOMAIN rows' = LiveKeys
        /\ \A k \in LiveKeys : rows'[k] = rows[k]
    BY <2>1
  <2>3. Live' = {<<k, rows'[k].version>> : k \in {k \in DOMAIN rows' : rows'[k].live}}
    BY DEF Live
  <2>4. {k \in DOMAIN rows' : rows'[k].live} = {k \in DOMAIN rows : rows[k].live}
    BY <2>2, LiveFacts
  <2>5. Live' = Live
    BY <2>2, <2>3, <2>4, LiveFacts DEF Live
  <2>6. LiveKeys' = LiveKeys
    BY <2>5 DEF LiveKeys
  <2>7. rows' \in [DOMAIN rows' -> [version : Nat, live : BOOLEAN]]
    BY <2>1, LiveFacts DEF ServerTyped
  <2>8. LiveKeys' \subseteq details'
    BY <2>1, <2>6 DEF ActiveWhole
  <2> QED
    BY <2>5, <2>6, <2>7, <2>8
<1> QED
  BY <1>1, <1>2

\* A generation that is deleted is not the active one, and takes its receipts and
\* its summaries with it.
LEMMA SweepKeepsActive ==
  ASSUME ServerTyped, ActiveWhole, NEW gs, DeleteGenerations(gs), state' = state,
         gs \subseteq Obsolete
  PROVE  /\ state.active \notin gs
         /\ counts' = counts \ gs
         /\ DOMAIN receipts' = DOMAIN receipts \ gs
         /\ \A g \in DOMAIN receipts' : receipts'[g] = receipts[g]
         /\ receipts' \in [DOMAIN receipts' -> [Kinds -> Nat]]
         /\ Staged(state.active, "index")' = Staged(state.active, "index")
<1>1. state.active \notin gs
  BY DEF ActiveWhole, Obsolete, In
<1>2. receipts' = [g \in DOMAIN receipts \ gs |-> receipts[g]]
  BY DEF DeleteGenerations, Without, Restrict
<1>3. counts' = counts \ gs
  BY DEF DeleteGenerations
<1>4. DOMAIN receipts' = DOMAIN receipts \ gs
  BY <1>2
<1>5. \A g \in DOMAIN receipts' : receipts'[g] = receipts[g]
  BY <1>2
<1>6. receipts' \in [DOMAIN receipts' -> [Kinds -> Nat]]
  BY <1>2 DEF ServerTyped
<1>7. Staged(state.active, "index")' = Staged(state.active, "index")
  BY <1>1, <1>4, <1>5 DEF Staged
<1> QED
  BY <1>1, <1>3, <1>4, <1>5, <1>6, <1>7

-----------------------------------------------------------------------------
\* Every staging goes and at most one new one starts, with nothing staged.
LEMMA SweepKeepsServer ==
  ASSUME ServerSound, NEW gs, gs \subseteq Obsolete, In("STAGING") \subseteq gs,
         NEW new \in SUBSET Generations,
         \A g, h \in new : g = h, \A g \in new : Full(g) /\ g \notin DOMAIN gens,
         gens' = [x \in (DOMAIN gens \ gs) \cup new |->
                    IF x \in new THEN "STAGING" ELSE gens[x]],
         DeleteGenerations(gs), state' = state
  PROVE  ServerSound'
<1> USE DEF ServerSound
<1>1. /\ state.active \notin gs
      /\ counts' = counts \ gs
      /\ DOMAIN receipts' = DOMAIN receipts \ gs
      /\ \A g \in DOMAIN receipts' : receipts'[g] = receipts[g]
      /\ receipts' \in [DOMAIN receipts' -> [Kinds -> Nat]]
      /\ Staged(state.active, "index")' = Staged(state.active, "index")
  BY SweepKeepsActive
<1>2. /\ Live' = Live /\ LiveKeys' = LiveKeys /\ LiveKeys' \subseteq details'
      /\ rows' \in [DOMAIN rows' -> [version : Nat, live : BOOLEAN]]
  BY SweepKeepsLive
<1>3. DOMAIN gens' = (DOMAIN gens \ gs) \cup new
  OBVIOUS
<1>4. \A x \in DOMAIN gens' :
        \/ x \in new /\ gens'[x] = "STAGING"
        \/ x \notin new /\ x \in DOMAIN gens \ gs /\ gens'[x] = gens[x]
  BY <1>3
<1>5. ServerTyped'
  <2>1. gens' \in [DOMAIN gens' -> {"STAGING", "CURRENT", "SUPERSEDED"}]
    BY <1>4 DEF ServerTyped
  <2>2. DOMAIN gens' \subseteq Generations
    BY <1>3 DEF ServerTyped
  <2>3. DOMAIN receipts' \subseteq DOMAIN gens'
    BY <1>1, <1>3 DEF ServerTyped
  <2>4. \A g \in DOMAIN receipts' :
          Full(g) /\ \A k \in Kinds : receipts'[g][k] <= Count(Snap(g))
    BY <1>1 DEF ServerTyped
  <2>5. counts' \subseteq DOMAIN gens'
    BY <1>1, <1>3 DEF ServerTyped
  <2> QED
    BY <2>1, <2>2, <2>3, <2>4, <2>5, <1>1, <1>2 DEF ServerTyped
<1>6. ActiveWhole'
  <2>1. \A g \in DOMAIN gens' : gens'[g] = "CURRENT" <=> g = state.active
    <3>1. TAKE g \in DOMAIN gens'
    <3>2. CASE g \in new /\ gens'[g] = "STAGING"
      <4>1. g # NoGen /\ g \notin DOMAIN gens
        BY <3>2 DEF Generations
      <4>2. state.active = NoGen \/ state.active \in DOMAIN gens
        BY DEF ActiveWhole, ServerTyped
      <4> QED
        BY <3>2, <4>1, <4>2
    <3>3. CASE g \in DOMAIN gens /\ gens'[g] = gens[g]
      BY <3>3 DEF ActiveWhole
    <3> QED
      BY <3>2, <3>3, <1>4
  <2>2. state.active # NoGen =>
          /\ state'.active \in counts'
          /\ Live' = Items(Snap(state'.active))
          /\ Full(state'.active) => Staged(state.active, "index")' = Count(Snap(state'.active))
    BY <1>1, <1>2 DEF ActiveWhole
  <2> QED
    BY <2>1, <1>1, <1>2, <2>2 DEF ActiveWhole
<1>7. In("STAGING")' = new
  <2>1. \A x \in DOMAIN gens : gens[x] = "STAGING" => x \in gs
    BY DEF In
  <2> QED
    BY <1>3, <1>4, <2>1 DEF In
<1>8. \A g \in new : \A k : Staged(g, k)' = 0
  BY <1>1 DEF Staged, ServerTyped
<1>9. expired' \subseteq new
  BY DEF DeleteGenerations, StagingSound
<1>10. StagedKept'
  BY <1>7, <1>8 DEF StagedKept
<1>11. StagingSound'
  BY <1>7, <1>9, <1>10 DEF StagingSound
<1> QED
  BY <1>5, <1>6, <1>11

\* prepareNewsProjection drops its own expired staging first.
LEMMA DropExpiredKeepsServer ==
  ASSUME ServerSound, NEW g, g \in expired,
         gens' = Without(gens, {g}), DeleteGenerations({g}), state' = state
  PROVE  ServerSound'
<1>1. In("STAGING") \subseteq {g} /\ g \in In("STAGING")
  BY DEF ServerSound, StagingSound
<1>2. {g} \subseteq Obsolete
  BY <1>1 DEF Obsolete
<1> DEFINE gs == {g}
           new == {}
<1>3. gens' = [x \in (DOMAIN gens \ gs) \cup new |->
                 IF x \in new THEN "STAGING" ELSE gens[x]]
  BY DEF Without, Restrict
<1>4. /\ gs \subseteq Obsolete /\ In("STAGING") \subseteq gs
      /\ DeleteGenerations(gs)
      /\ new \in SUBSET Generations
      /\ \A a, b \in new : a = b
      /\ \A a \in new : Full(a) /\ a \notin DOMAIN gens
  BY <1>1, <1>2
<1> HIDE DEF gs, new
<1> QED
  BY <1>3, <1>4, SweepKeepsServer

\* The last batch of a prepare whose reads still hold.
LEMMA PreparedKeepsServer ==
  ASSUME ServerSound, NEW g \in Generations, Full(g), g \notin DOMAIN gens,
         gens' = [x \in (DOMAIN gens \ Obsolete) \cup {g} |->
                    IF x = g THEN "STAGING" ELSE gens[x]],
         DeleteGenerations(Obsolete), state' = state
  PROVE  ServerSound'
<1>1. In("STAGING") \subseteq Obsolete
  BY DEF Obsolete
<1> DEFINE new == {g}
<1>2. gens' = [x \in (DOMAIN gens \ Obsolete) \cup new |->
                 IF x \in new THEN "STAGING" ELSE gens[x]]
  OBVIOUS
<1>3. /\ new \in SUBSET Generations
      /\ \A a, b \in new : a = b
      /\ \A a \in new : Full(a) /\ a \notin DOMAIN gens
  OBVIOUS
<1> HIDE DEF new
<1> QED
  BY <1>1, <1>2, <1>3, SweepKeepsServer

-----------------------------------------------------------------------------
LEMMA WalkUnchanged ==
  ASSUME WalkSound, reader' = reader
  PROVE  WalkSound'
BY DEF WalkSound, WalkIsSnapshot

\* A step that touches neither the tables nor the state files.
LEMMA LocalStep ==
  ASSUME Inv, NEW p \in Producers, NEW c, Moves(p, c), UNCHANGED <<server, file, reader>>,
         FlightSound', c \in ClientRow, Fits(c, Target(p)),
         c.step = "stage" => Mine(p) \notin expired
  PROVE  Inv'
<1>1. ServerSound'
  BY ServerUnchanged DEF Inv
<1>2. ClientTyped'
  BY MovesKeepTypes DEF Inv
<1>3. StagingFresh'
  BY MovesKeepFresh DEF Inv, server
<1>4. WalkSound'
  BY WalkUnchanged DEF Inv
<1> QED
  BY <1>1, <1>2, <1>3, <1>4 DEF Inv

\* An error answer changes nothing but the cycle.
LEMMA RefusedStep ==
  ASSUME Inv, NEW p \in Producers, Refused(p), \A q \in Producers : flight[q] = <<>>
  PROVE  Inv'
<1>1. Moves(p, Quiet) /\ UNCHANGED <<server, flight, reader, file>>
  BY RefusedMoves
<1>2. Quiet \in ClientRow /\ Fits(Quiet, Target(p)) /\ Quiet.step # "stage"
  BY QuietFits, MineFacts DEF Quiet, Inv
<1>3. FlightSound'
  BY <1>1, NoFlightIsSound DEF Inv
<1> QED
  BY <1>1, <1>2, <1>3, LocalStep

LEMMA BeginPreserves ==
  ASSUME Inv, ~ Overlap, NEW p \in Producers, Begin(p)
  PROVE  Inv'
<1> DEFINE c == [client[p] EXCEPT !.step = "prepare"]
<1>1. Moves(p, c) /\ UNCHANGED <<server, file, reader, flight>>
  BY DEF Begin, Goto, Same, Moves
<1>2. client[p] \in ClientRow /\ Fits(client[p], Target(p))
  BY DEF Inv, ClientTyped
<1>3. c \in ClientRow /\ Fits(c, Target(p)) /\ c.step # "stage"
  BY <1>2 DEF ClientRow, Steps, Fits
<1>4. FlightSound'
  BY <1>1, NobodyInFlight, NoFlightIsSound DEF Begin, Inv
<1> HIDE DEF c
<1> QED
  BY <1>1, <1>3, <1>4, LocalStep

\* prepareNewsProjection up to its last batch.
LEMMA PreparePreserves ==
  ASSUME Inv, ~ Overlap, NEW p \in Producers, Prepare(p)
  PROVE  Inv'
<1> DEFINE g == Mine(p)
<1>1. \A q \in Producers : flight[q] = <<>>
  BY NobodyInFlight DEF Prepare
<1>2. g \in Generations /\ Full(g) /\ Snap(g) = Target(p) /\ Target(p) \in Snapshots
  BY MineFacts DEF Inv
<1>3. CASE /\ Answer(p, [Quiet EXCEPT !.step = "confirm"])
           /\ UNCHANGED <<server, flight, been>> /\ Rest
  <2> DEFINE c == [Quiet EXCEPT !.step = "confirm"]
  <2>1. Moves(p, c) /\ UNCHANGED <<server, flight, file, reader>>
    BY <1>3, AnswerMoves DEF Rest
  <2>2. c \in ClientRow /\ Fits(c, Target(p)) /\ c.step # "stage"
    BY <1>2, QuietFits DEF Quiet, ClientRow, Steps, Fits
  <2>3. FlightSound'
    BY <1>1, <2>1, NoFlightIsSound DEF Inv
  <2> HIDE DEF c
  <2> QED
    BY <2>1, <2>2, <2>3, LocalStep
<1>4. CASE /\ g \in DOMAIN gens /\ g \notin expired
           /\ Answer(p, Progress(p, g))
           /\ UNCHANGED <<server, flight, been>> /\ Rest
  <2> DEFINE c == Progress(p, g)
  <2>1. Moves(p, c) /\ UNCHANGED <<server, flight, file, reader>>
    BY <1>4, AnswerMoves DEF Rest
  <2>2. \A k \in Kinds : Staged(g, k) \in Nat /\ Staged(g, k) <= Count(Target(p))
    BY <1>2, ItemFacts DEF Staged, Inv, ServerSound, ServerTyped
  <2>3. /\ c.step = "stage" /\ c.detail = Staged(g, "detail")
        /\ c.index = Staged(g, "index") /\ c.work = 0 /\ c \in ClientRow
    BY <2>2 DEF Progress, Quiet, ClientRow, Steps, Kinds
  <2>4. Fits(c, Target(p))
    BY <2>2, <2>3, BoundAssumption DEF Fits, Kinds
  <2>5. FlightSound'
    BY <1>1, <2>1, NoFlightIsSound DEF Inv
  <2> HIDE DEF c
  <2> QED
    BY <1>4, <2>1, <2>3, <2>4, <2>5, LocalStep
<1>5. CASE /\ g \in expired /\ gens' = Without(gens, {g}) /\ DeleteGenerations({g})
           /\ UNCHANGED state /\ UNCHANGED client /\ Same(p)
  <2>1. ServerSound'
    BY <1>5, DropExpiredKeepsServer DEF Inv
  <2>2. /\ Moves(p, Quiet) /\ UNCHANGED <<flight, file, reader>>
        /\ expired' \subseteq expired
    BY <1>5 DEF Moves, Same, DeleteGenerations
  <2>3. Quiet \in ClientRow /\ Fits(Quiet, Target(p)) /\ Quiet.step # "stage"
    BY <1>2, QuietFits DEF Quiet
  <2>4. ClientTyped'
    BY <2>2, <2>3, MovesKeepTypes DEF Inv
  <2>5. StagingFresh'
    BY <2>2, <2>3, MovesKeepFresh DEF Inv
  <2>6. FlightSound'
    BY <1>1, <2>2, NoFlightIsSound DEF Inv
  <2>7. WalkSound'
    BY <2>2, WalkUnchanged DEF Inv
  <2> QED
    BY <2>1, <2>4, <2>5, <2>6, <2>7 DEF Inv
<1>6. CASE /\ g \notin DOMAIN gens /\ flight' = [flight EXCEPT ![p] = <<Obsolete>>]
           /\ UNCHANGED <<server, client, frozen, file, reader, been, faults>>
  <2>1. Moves(p, Quiet) /\ UNCHANGED <<file, reader>>
    BY <1>6 DEF Moves
  <2>2. Quiet \in ClientRow /\ Fits(Quiet, Target(p)) /\ Quiet.step # "stage"
    BY <1>2, QuietFits DEF Quiet
  <2>3. Obsolete' = Obsolete /\ Mine(p)' = Mine(p) /\ gens' = gens
    BY <1>6 DEF Obsolete, In, Mine, server
  <2>4. /\ flight' = [q \in Producers |-> flight'[q]]
        /\ flight'[p] = <<Obsolete>>
        /\ \A q \in Producers \ {p} : flight'[q] = <<>>
    BY <1>1, <1>6 DEF Inv, FlightSound
  <2>5. FlightSound'
    BY <1>6, <2>3, <2>4 DEF FlightSound
  <2> QED
    BY <1>6, <2>1, <2>2, <2>5, LocalStep
<1>7. CASE Refused(p)
  BY <1>1, <1>7, RefusedStep
<1> QED
  BY <1>3, <1>4, <1>5, <1>6, <1>7 DEF Prepare

\* Its last batch finds what its reads found.
LEMMA PreparedPreserves ==
  ASSUME Inv, NEW p \in Producers, Prepared(p)
  PROVE  Inv'
<1> DEFINE g == Mine(p)
           c == [Quiet EXCEPT !.step = "stage"]
<1>1. /\ flight[p] = <<Obsolete>> /\ g \notin DOMAIN gens
      /\ \A q \in Producers \ {p} : flight[q] = <<>>
  BY DEF Prepared, Inv, FlightSound
<1>2. g \in Generations /\ Full(g) /\ Target(p) \in Snapshots
  BY MineFacts DEF Inv
<1>3. flight[p][1] = Obsolete
  BY <1>1
<1>4. /\ gens' = [x \in (DOMAIN gens \ Obsolete) \cup {g} |->
                    IF x = g THEN "STAGING" ELSE gens[x]]
      /\ DeleteGenerations(Obsolete) /\ UNCHANGED state
      /\ Answer(p, c)
  BY <1>1, <1>3 DEF Prepared
<1>5. ServerSound'
  BY <1>1, <1>2, <1>4, PreparedKeepsServer DEF Inv
<1>6. /\ Moves(p, c) /\ UNCHANGED <<file, reader>>
      /\ expired' \subseteq expired
  BY <1>4, AnswerMoves DEF Prepared, Rest, DeleteGenerations
<1>7. c \in ClientRow /\ Fits(c, Target(p))
  BY <1>2, QuietFits DEF Quiet, ClientRow, Steps, Fits
<1>8. g \notin expired
  BY <1>1 DEF Inv, ServerSound, StagingSound, In
<1>9. flight' = [flight EXCEPT ![p] = <<>>]
  BY DEF Prepared
<1> HIDE DEF c
<1>10. ClientTyped'
  BY <1>6, <1>7, MovesKeepTypes DEF Inv
<1>11. StagingFresh'
  BY <1>6, <1>8, MovesKeepFresh DEF Inv
<1>12. FlightSound'
  <2>1. \A q \in Producers : flight'[q] = <<>>
    BY <1>1, <1>9 DEF Inv, FlightSound
  <2>2. flight' = [q \in Producers |-> flight'[q]]
    BY <1>9 DEF Inv, FlightSound
  <2> QED
    BY <2>1, <2>2 DEF FlightSound
<1>13. WalkSound'
  BY <1>6, WalkUnchanged DEF Inv
<1> QED
  BY <1>5, <1>10, <1>11, <1>12, <1>13 DEF Inv

\* A staged batch: the receipt is counted and a detail batch is stored.
LEMMA StagedBatchKeepsServer ==
  ASSUME ServerSound, NEW g \in In("STAGING"), NEW kind \in Kinds,
         NEW offset \in Nat, offset = Staged(g, kind), offset < Count(Snap(g)),
         receipts' = [x \in DOMAIN receipts \cup {g} |->
           IF x = g THEN [k \in {"detail", "index"} |-> Staged(g, k) + (IF k = kind THEN 1 ELSE 0)]
           ELSE receipts[x]],
         details' = IF kind = "detail" THEN details \cup {Content[Snap(g)][offset + 1][1]}
                    ELSE details,
         expired' = expired \ {g},
         UNCHANGED <<gens, rows, counts, state>>
  PROVE  ServerSound'
<1> USE DEF ServerSound
<1>1. /\ g \in DOMAIN gens /\ gens[g] = "STAGING" /\ g # state.active
      /\ g \in Generations /\ Full(g)
  BY DEF In, ActiveWhole, StagingSound, ServerTyped
<1>2. Count(Snap(g)) \in Nat
  BY <1>1, SnapOfGen, ItemFacts
<1>3. \A k \in Kinds : Staged(g, k) \in Nat /\ Staged(g, k) <= Count(Snap(g))
  BY <1>2 DEF Staged, ServerTyped
<1>4. /\ DOMAIN receipts' = DOMAIN receipts \cup {g}
      /\ \A x \in DOMAIN receipts : x # g => receipts'[x] = receipts[x]
      /\ receipts'[g] = [k \in Kinds |-> Staged(g, k) + (IF k = kind THEN 1 ELSE 0)]
  BY DEF Kinds
<1>5. \A k \in Kinds : Staged(g, k)' = Staged(g, k) + (IF k = kind THEN 1 ELSE 0)
  BY <1>4 DEF Staged
<1>6. \A k \in Kinds : Staged(g, k)' \in Nat /\ Staged(g, k)' <= Count(Snap(g))
  BY <1>2, <1>3, <1>5
<1>7. \A x, k : x # g => Staged(x, k)' = Staged(x, k)
  BY <1>4 DEF Staged
<1>8. Live' = Live /\ LiveKeys' = LiveKeys /\ \A s : In(s)' = In(s)
  BY DEF Live, LiveKeys, In
<1>9. ServerTyped'
  <2>1. receipts' \in [DOMAIN receipts' -> [Kinds -> Nat]]
    <3>1. receipts'[g] \in [Kinds -> Nat]
      BY <1>3, <1>4
    <3>2. \A x \in DOMAIN receipts' : receipts'[x] \in [Kinds -> Nat]
      BY <3>1, <1>4 DEF ServerTyped
    <3> QED
      BY <3>2, <1>4
  <2>2. \A x \in DOMAIN receipts' : Full(x) /\ \A k \in Kinds : receipts'[x][k] <= Count(Snap(x))
    <3>1. TAKE x \in DOMAIN receipts'
    <3>2. CASE x = g
      <4>1. \A k \in Kinds : receipts'[g][k] = Staged(g, k)'
        BY <1>4 DEF Staged
      <4> QED
        BY <3>2, <4>1, <1>1, <1>6
    <3>3. CASE x # g
      BY <3>3, <1>4 DEF ServerTyped
    <3> QED
      BY <3>2, <3>3
  <2> QED
    BY <2>1, <2>2, <1>1, <1>4 DEF ServerTyped
<1>10. ActiveWhole'
  <2>1. Staged(state.active, "index")' = Staged(state.active, "index")
    BY <1>1, <1>7
  <2>2. LiveKeys' \subseteq details'
    BY <1>8 DEF ActiveWhole
  <2> QED
    BY <2>1, <2>2, <1>8 DEF ActiveWhole
<1>11. StagingSound'
  <2>1. In("STAGING")' = {g}
    BY <1>8 DEF StagingSound
  <2>2. \A i \in 1..Staged(g, "detail")' : Content[Snap(g)][i][1] \in details'
    <3>1. TAKE i \in 1..Staged(g, "detail")'
    <3>2. CASE i \in 1..Staged(g, "detail")
      BY <3>2 DEF StagingSound, StagedKept
    <3>3. CASE i \notin 1..Staged(g, "detail")
      <4>1. "detail" \in Kinds
        BY DEF Kinds
      <4>2. kind = "detail" /\ i = Staged(g, "detail") + 1
        BY <3>3, <4>1, <1>3, <1>5
      <4> QED
        BY <4>2
    <3> QED
      BY <3>2, <3>3
  <2>3. StagedKept'
    BY <2>1, <2>2 DEF StagedKept
  <2>4. expired' = {}
    BY <1>1 DEF StagingSound
  <2> QED
    BY <2>1, <2>3, <2>4, <1>1 DEF StagingSound
<1> QED
  BY <1>9, <1>10, <1>11

\* One more batch of either kind still fits the snapshot and the cycle.
LEMMA OneMoreFits ==
  ASSUME NEW r \in ClientRow, NEW kind \in Kinds, NEW s, Count(s) \in Nat, Fits(r, s),
         r[kind] < Count(s), r.work < BATCHES
  PROVE  LET c == [r EXCEPT ![kind] = @ + 1, !.work = @ + 1] IN
         c \in ClientRow /\ Fits(c, s) /\ c.step = r.step
<1> DEFINE d == [r EXCEPT ![kind] = @ + 1]
           c == [r EXCEPT ![kind] = @ + 1, !.work = @ + 1]
<1>1. r.work \in Nat /\ r.detail \in Nat /\ r.index \in Nat
  BY DEF ClientRow
<1>2. d \in ClientRow /\ d.work = r.work /\ d.step = r.step
  BY DEF ClientRow, Kinds
<1>3. c = [d EXCEPT !.work = @ + 1]
  BY <1>2
<1>4. d.detail <= Count(s) /\ d.index <= Count(s)
  <2>1. CASE kind = "detail"
    BY <2>1, <1>1 DEF ClientRow, Fits
  <2>2. CASE kind = "index"
    BY <2>2, <1>1 DEF ClientRow, Fits
  <2> QED
    BY <2>1, <2>2 DEF Kinds
<1> HIDE DEF c, d
<1>5. c \in ClientRow
  BY <1>1, <1>2, <1>3 DEF ClientRow
<1>6. /\ c.work = r.work + 1 /\ c.detail = d.detail /\ c.index = d.index
      /\ c.step = r.step
  BY <1>2, <1>3 DEF ClientRow
<1>7. Fits(c, s)
  BY <1>1, <1>4, <1>6, BoundAssumption DEF Fits
<1> QED
  BY <1>5, <1>6, <1>7 DEF c

\* stageNewsProjectionBatch.
LEMMA StagePreserves ==
  ASSUME Inv, ~ Overlap, NEW p \in Producers, Stage(p)
  PROVE  Inv'
<1> DEFINE g == Mine(p)
           kind == Kind(p)
           offset == client[p][kind]
           c == [client[p] EXCEPT ![kind] = @ + 1, !.work = @ + 1]
<1>1. \A q \in Producers : flight[q] = <<>>
  BY NobodyInFlight DEF Stage
<1>2. g \in Generations /\ Snap(g) = Target(p) /\ Target(p) \in Snapshots
  BY MineFacts DEF Inv
<1>3. client[p] \in ClientRow /\ Fits(client[p], Target(p)) /\ Count(Target(p)) \in Nat
  BY <1>2, ItemFacts DEF Inv, ClientTyped
<1>4. kind \in Kinds /\ offset \in Nat /\ offset < Count(Target(p))
  <2>1. CASE client[p].detail < Count(Target(p))
    BY <1>3, <2>1 DEF Kind, Kinds, ClientRow
  <2>2. CASE ~ (client[p].detail < Count(Target(p)))
    <3>1. kind = "index" /\ client[p].detail = Count(Target(p))
      BY <1>3, <2>2 DEF Kind, Fits, ClientRow
    <3>2. client[p].index # Count(Target(p))
      BY <3>1 DEF Stage, Complete
    <3> QED
      BY <1>3, <3>1, <3>2 DEF Fits, ClientRow, Kinds
  <2> QED
    BY <2>1, <2>2
<1>5. client[p].step = "stage" /\ g \notin expired /\ client[p].work < BATCHES
  BY DEF Stage, At, Inv, StagingFresh
<1>6. c \in ClientRow /\ Fits(c, Target(p)) /\ c.step = "stage"
  <2> HIDE DEF kind
  <2> QED
    BY <1>3, <1>4, <1>5, OneMoreFits
<1>7. CASE Refused(p)
  BY <1>1, <1>7, RefusedStep
<1>8. CASE Answer(p, c) /\ UNCHANGED <<server, flight, been>> /\ Rest
  <2>1. Moves(p, c) /\ UNCHANGED <<server, flight, file, reader>>
    BY <1>8, AnswerMoves DEF Rest
  <2>2. FlightSound'
    BY <1>1, <2>1, NoFlightIsSound DEF Inv
  <2> HIDE DEF c
  <2> QED
    BY <1>5, <1>6, <2>1, <2>2, LocalStep
<1>9. CASE /\ g \in In("STAGING") /\ offset = Staged(g, kind)
           /\ receipts' = [x \in DOMAIN receipts \cup {g} |->
                IF x = g THEN [k \in {"detail", "index"} |-> Staged(g, k) + (IF k = kind THEN 1 ELSE 0)]
                ELSE receipts[x]]
           /\ details' = IF kind = "detail" THEN details \cup {Content[Snap(g)][offset + 1][1]}
                         ELSE details
           /\ expired' = expired \ {g}
           /\ Answer(p, c)
           /\ UNCHANGED <<gens, rows, counts, state, flight, been>> /\ Rest
  <2>1. /\ Moves(p, c) /\ UNCHANGED <<flight, file, reader>>
        /\ expired' \subseteq expired
    BY <1>9, AnswerMoves DEF Rest
  <2> HIDE DEF c, offset, kind, g
  <2>2. ServerSound'
    BY <1>2, <1>4, <1>9, StagedBatchKeepsServer DEF Inv
  <2>3. ClientTyped'
    BY <1>6, <2>1, MovesKeepTypes DEF Inv
  <2>4. StagingFresh'
    BY <1>5, <2>1, MovesKeepFresh DEF Inv, g
  <2>5. FlightSound'
    BY <1>1, <2>1, NoFlightIsSound DEF Inv
  <2>6. WalkSound'
    BY <2>1, WalkUnchanged DEF Inv
  <2> QED
    BY <2>2, <2>3, <2>4, <2>5, <2>6 DEF Inv
<1> QED
  BY <1>7, <1>8, <1>9 DEF Stage

\* The state files change only in what a producer recorded.
LEMMA YieldPreserves ==
  ASSUME Inv, ~ Overlap, NEW p \in Producers, Yield(p)
  PROVE  Inv'
<1>1. /\ Moves(p, Quiet) /\ UNCHANGED <<server, flight, reader>>
      /\ file' = [file EXCEPT ![p].gen = Mine(p), ![p].status = "REPLAYING"]
  BY DEF Yield, Stop, Moves
<1>2. \A q \in Producers : flight[q] = <<>>
  BY NobodyInFlight DEF Yield
<1>3. /\ Quiet \in ClientRow /\ Fits(Quiet, Target(p)) /\ Quiet.step # "stage"
      /\ Mine(p) \in Seq(Snapshots)
  BY QuietFits, MineFacts DEF Quiet, Inv
<1>4. file[p] \in FileRow
  BY DEF Inv, ClientTyped
<1>5. [file[p] EXCEPT !.gen = Mine(p), !.status = "REPLAYING"] \in FileRow
  BY <1>3, <1>4 DEF FileRow
<1>6. file' \in [Producers -> FileRow]
  BY <1>1, <1>5 DEF Inv, ClientTyped
<1>7. ServerSound' /\ WalkSound' /\ FlightSound'
  BY <1>1, <1>2, ServerUnchanged, WalkUnchanged, NoFlightIsSound DEF Inv
<1>8. StagingFresh'
  BY <1>1, <1>3, MovesKeepFresh DEF Inv, server
<1>9. ClientTyped'
  BY <1>1, <1>3, <1>6, MovesKeepTypes DEF Inv
<1> QED
  BY <1>7, <1>8, <1>9 DEF Inv

-----------------------------------------------------------------------------
\* An index whose live rows are the items of a snapshot shows that snapshot.
LEMMA IndexShows ==
  ASSUME NEW s \in Snapshots, Keys(s) \subseteq DOMAIN rows',
         \A i \in Items(s) : rows'[i[1]].live /\ rows'[i[1]].version = i[2],
         \A k \in DOMAIN rows' : rows'[k].live => k \in Keys(s)
  PROVE  Live' = Items(s) /\ LiveKeys' = Keys(s)
<1>1. Live' = {<<k, rows'[k].version>> : k \in {k \in DOMAIN rows' : rows'[k].live}}
  BY DEF Live
<1>2. \A i \in Items(s) : i = <<i[1], i[2]>>
  BY ItemFacts
<1>3. ASSUME NEW i \in Items(s)
      PROVE  i \in Live'
  <2>1. i[1] \in DOMAIN rows' /\ rows'[i[1]].live
    BY DEF Keys
  <2>2. <<i[1], rows'[i[1]].version>> \in Live'
    BY <1>1, <2>1
  <2> QED
    BY <1>2, <2>2
<1>4. ASSUME NEW x \in Live'
      PROVE  x \in Items(s)
  <2>1. PICK k \in DOMAIN rows' : rows'[k].live /\ x = <<k, rows'[k].version>>
    BY <1>1
  <2>2. PICK i \in Items(s) : k = i[1]
    BY <2>1 DEF Keys
  <2>3. x = <<i[1], i[2]>>
    BY <2>1, <2>2
  <2> QED
    BY <1>2, <2>2, <2>3
<1>5. Live' = Items(s)
  BY <1>3, <1>4
<1> QED
  BY <1>5 DEF LiveKeys, Keys

\* An item is the only one of its snapshot with its key.
LEMMA ChosenItem ==
  ASSUME NEW s \in Snapshots, NEW S \in SUBSET Items(s), NEW i \in S
  PROVE  (CHOOSE j \in S : j[1] = i[1]) = i
<1> DEFINE j == CHOOSE j \in S : j[1] = i[1]
<1>1. j \in S /\ j[1] = i[1]
  OBVIOUS
<1> HIDE DEF j
<1>2. j = i
  BY <1>1, ItemFacts
<1> QED
  BY <1>2 DEF j

\* A staging that is whole becomes the archive.
LEMMA ActivateKeepsServer ==
  ASSUME ServerSound, NEW g \in Generations, Full(g), Ready(g), state.active # g,
         gens' = [x \in DOMAIN gens |-> IF x = g THEN "CURRENT"
                    ELSE IF gens[x] = "CURRENT" THEN "SUPERSEDED" ELSE gens[x]],
         counts' = counts \cup {g},
         state' = [active |-> g, status |-> "CURRENT", missing |-> 0, violations |-> 0],
         rows' = Replaced(g), UNCHANGED <<receipts, details, expired>>,
         g \notin expired
  PROVE  ServerSound' /\ Live' = Items(Snap(g))
<1> DEFINE s == Snap(g)
<1> USE DEF ServerSound
<1>1. s \in Snapshots
  BY SnapOfGen
<1>2. /\ g \in DOMAIN gens /\ gens[g] = "STAGING"
      /\ Staged(g, "index") = Count(s) /\ Missing(g) = {}
  BY DEF Ready, In
<1>3. FromReceipts(g) = Items(s) /\ Projection(g) = Items(s)
  BY <1>1, <1>2, ItemFacts DEF FromReceipts, Projection
<1>4. Keys(s) \subseteq details
  BY <1>2, <1>3 DEF Missing, Keys
<1>5. DOMAIN rows' = DOMAIN rows \cup Keys(s)
  BY DEF Replaced
<1>6. \A k \in DOMAIN rows' :
        \/ /\ k \in Keys(s)
           /\ rows'[k] = [version |-> (CHOOSE i \in Items(s) : i[1] = k)[2], live |-> TRUE]
        \/ /\ k \notin Keys(s) /\ k \in DOMAIN rows
           /\ rows'[k] = [rows[k] EXCEPT !.live = FALSE]
  BY <1>3, <1>5 DEF Replaced, Keys
<1>7. \A i \in Items(s) : rows'[i[1]].live /\ rows'[i[1]].version = i[2]
  <2>1. TAKE i \in Items(s)
  <2>2. i[1] \in Keys(s)
    BY DEF Keys
  <2>3. (CHOOSE j \in Items(s) : j[1] = i[1]) = i
    BY <1>1, ChosenItem
  <2> HIDE DEF s
  <2>4. rows'[i[1]] = [version |-> i[2], live |-> TRUE]
    BY <1>5, <1>6, <2>2, <2>3
  <2> QED
    BY <2>4
<1>8. \A k \in DOMAIN rows' : rows'[k].live => k \in Keys(s)
  <2>1. TAKE k \in DOMAIN rows'
  <2>2. CASE k \notin Keys(s)
    <3>1. k \in DOMAIN rows /\ rows'[k] = [rows[k] EXCEPT !.live = FALSE]
      BY <1>6, <2>2
    <3>2. rows[k] \in [version : Nat, live : BOOLEAN]
      BY <3>1 DEF ServerTyped
    <3>3. rows'[k].live = FALSE
      BY <3>1, <3>2
    <3> QED
      BY <3>3
  <2> QED
    BY <2>2
<1>9. Live' = Items(s) /\ LiveKeys' = Keys(s)
  <2> HIDE DEF s
  <2> QED
    BY <1>1, <1>5, <1>7, <1>8, IndexShows
<1>10. rows' \in [DOMAIN rows' -> [version : Nat, live : BOOLEAN]]
  <2>1. ASSUME NEW k \in DOMAIN rows'
        PROVE  rows'[k] \in [version : Nat, live : BOOLEAN]
    <3>1. CASE k \in Keys(s)
      <4>1. PICK i \in Items(s) : k = i[1]
        BY <3>1 DEF Keys
      <4>2. (CHOOSE j \in Items(s) : j[1] = k)[2] = i[2] /\ i[2] \in Nat
        BY <1>1, <4>1, ChosenItem, ItemFacts
      <4>3. rows'[k] = [version |-> i[2], live |-> TRUE]
        BY <1>6, <3>1, <4>2
      <4>4. [version |-> i[2], live |-> TRUE] \in [version : Nat, live : BOOLEAN]
        BY <4>2
      <4> QED
        BY <4>3, <4>4
    <3>2. CASE k \notin Keys(s)
      <4>1. k \in DOMAIN rows /\ rows'[k] = [rows[k] EXCEPT !.live = FALSE]
        BY <1>6, <3>2
      <4>2. rows[k] \in [version : Nat, live : BOOLEAN]
        BY <4>1 DEF ServerTyped
      <4>3. [rows[k] EXCEPT !.live = FALSE] \in [version : Nat, live : BOOLEAN]
        BY <4>2
      <4> QED
        BY <4>1, <4>3
    <3> QED
      BY <3>1, <3>2
  <2>2. rows' = [k \in DOMAIN rows' |-> rows'[k]]
    BY DEF Replaced
  <2> QED
    BY <2>1, <2>2
<1>11. /\ DOMAIN gens' = DOMAIN gens
       /\ \A x \in DOMAIN gens : gens'[x] = IF x = g THEN "CURRENT"
            ELSE IF gens[x] = "CURRENT" THEN "SUPERSEDED" ELSE gens[x]
  OBVIOUS
<1>12. ServerTyped'
  <2>1. gens' \in [DOMAIN gens' -> {"STAGING", "CURRENT", "SUPERSEDED"}]
    BY <1>11 DEF ServerTyped
  <2>2. counts' \subseteq DOMAIN gens'
    BY <1>2, <1>11 DEF ServerTyped
  <2>3. state' \in [active : Generations \cup {NoGen}, status : {"NONE", "CURRENT"},
                    missing : {0}, violations : {0}]
    OBVIOUS
  <2> QED
    BY <2>1, <2>2, <2>3, <1>10, <1>11 DEF ServerTyped
<1>13. ActiveWhole'
  <2>1. state'.active = g /\ state'.status = "CURRENT" /\ g # NoGen
    BY DEF Generations
  <2>2. Staged(g, "index")' = Staged(g, "index")
    BY DEF Staged
  <2>3. \A x \in DOMAIN gens' : gens'[x] = "CURRENT" <=> x = g
    BY <1>11
  <2> QED
    BY <2>1, <2>2, <2>3, <1>2, <1>4, <1>9 DEF ActiveWhole
<1>14. StagingSound'
  <2>1. In("STAGING")' = {}
    BY <1>2, <1>11 DEF In, StagingSound
  <2>2. expired' = {}
    BY <1>2 DEF In, StagingSound
  <2> QED
    BY <2>1, <2>2 DEF StagingSound, StagedKept
<1> QED
  BY <1>9, <1>12, <1>13, <1>14

\* activateNewsProjection.
LEMMA ActivatePreserves ==
  ASSUME Inv, ~ Overlap, NEW p \in Producers, Activate(p)
  PROVE  Inv'
<1> DEFINE g == Mine(p)
           c == [client[p] EXCEPT !.step = "verify"]
<1>1. \A q \in Producers : flight[q] = <<>>
  BY NobodyInFlight DEF Activate
<1>2. g \in Generations /\ Full(g)
  BY MineFacts DEF Inv
<1>3. client[p] \in ClientRow /\ Fits(client[p], Target(p))
  BY DEF Inv, ClientTyped
<1>4. c \in ClientRow /\ Fits(c, Target(p)) /\ c.step # "stage"
  BY <1>3 DEF ClientRow, Steps, Fits
<1>5. g \notin expired
  BY DEF Activate, At, Inv, StagingFresh
<1>6. CASE Refused(p)
  BY <1>1, <1>6, RefusedStep
<1>7. CASE Answer(p, c) /\ UNCHANGED <<server, flight, been>> /\ Rest
  <2>1. Moves(p, c) /\ UNCHANGED <<server, flight, file, reader>>
    BY <1>7, AnswerMoves DEF Rest
  <2>2. FlightSound'
    BY <1>1, <2>1, NoFlightIsSound DEF Inv
  <2> HIDE DEF c
  <2> QED
    BY <1>4, <2>1, <2>2, LocalStep
<1>8. CASE /\ state.active # g /\ Ready(g)
           /\ gens' = [x \in DOMAIN gens |-> IF x = g THEN "CURRENT"
                         ELSE IF gens[x] = "CURRENT" THEN "SUPERSEDED" ELSE gens[x]]
           /\ counts' = counts \cup {g}
           /\ state' = [active |-> g, status |-> "CURRENT", missing |-> 0, violations |-> 0]
           /\ rows' = Replaced(g)
           /\ Answer(p, c)
           /\ UNCHANGED <<receipts, details, expired, flight>> /\ Rest
  <2>1. /\ Moves(p, c) /\ UNCHANGED <<flight, file, reader>>
        /\ expired' \subseteq expired
    BY <1>8, AnswerMoves DEF Rest
  <2> HIDE DEF c, g
  <2>2. ServerSound'
    BY <1>2, <1>5, <1>8, ActivateKeepsServer DEF Inv
  <2>3. ClientTyped'
    BY <1>4, <2>1, MovesKeepTypes DEF Inv
  <2>4. StagingFresh'
    BY <1>4, <2>1, MovesKeepFresh DEF Inv
  <2>5. FlightSound'
    BY <1>1, <2>1, NoFlightIsSound DEF Inv
  <2>6. WalkSound'
    BY <2>1, WalkUnchanged DEF Inv
  <2> QED
    BY <2>2, <2>3, <2>4, <2>5, <2>6 DEF Inv
<1> QED
  BY <1>6, <1>7, <1>8 DEF Activate
-----------------------------------------------------------------------------
\* The rows a patch writes.
LEMMA PatchedRows ==
  ASSUME ServerSound, NEW b \in Snapshots, NEW s \in Snapshots, Live = Items(b),
         rows' = Patched(b, s)
  PROVE  /\ Live' = Items(s) /\ LiveKeys' = Keys(s)
         /\ rows' \in [DOMAIN rows' -> [version : Nat, live : BOOLEAN]]
<1> DEFINE R == Removed(b, s)
           C == Changed(b, s)
<1>1. DOMAIN rows' = DOMAIN rows \cup Keys(s)
  BY DEF Patched
<1>2. \A k \in DOMAIN rows' : (\E i \in C : i[1] = k) =>
        rows'[k] = [version |-> (CHOOSE i \in C : i[1] = k)[2], live |-> TRUE]
  BY <1>1 DEF Patched
<1>3. \A k \in DOMAIN rows' : ~ (\E i \in C : i[1] = k) =>
        rows'[k] = [rows[k] EXCEPT !.live = @ /\ k \notin R]
  BY <1>1 DEF Patched
<1>4. C \subseteq Items(s) /\ Items(s) \ C \subseteq Items(b)
  BY DEF Changed
<1>5. ASSUME NEW i \in C
      PROVE  /\ i[1] \in DOMAIN rows' /\ i[2] \in Nat
             /\ rows'[i[1]] = [version |-> i[2], live |-> TRUE]
  <2>1. i \in Items(s) /\ i[1] \in Keys(s)
    BY <1>4 DEF Keys
  <2>2. (CHOOSE j \in C : j[1] = i[1]) = i
    BY <1>4, ChosenItem
  <2>3. i[2] \in Nat
    BY <2>1, ItemFacts
  <2> HIDE DEF C
  <2> QED
    BY <1>1, <1>2, <2>1, <2>2, <2>3
<1>6. ASSUME NEW k \in DOMAIN rows', ~ (\E i \in C : i[1] = k)
      PROVE  /\ k \in DOMAIN rows
             /\ rows[k] \in [version : Nat, live : BOOLEAN]
             /\ rows'[k] = [rows[k] EXCEPT !.live = @ /\ k \notin R]
             /\ rows'[k] \in [version : Nat, live : BOOLEAN]
             /\ rows'[k].version = rows[k].version
             /\ rows'[k].live = (rows[k].live /\ k \notin R)
  <2>1. k \in DOMAIN rows
    <3>1. ASSUME k \in Keys(s)
          PROVE  k \in LiveKeys
      <4>1. PICK i \in Items(s) : i[1] = k
        BY <3>1 DEF Keys
      <4>2. i \in Live
        BY <1>4, <1>6, <4>1
      <4> QED
        BY <4>1, <4>2 DEF LiveKeys
    <3> QED
      BY <1>1, <3>1, LiveFacts
  <2>2. rows[k] \in [version : Nat, live : BOOLEAN]
    BY <2>1 DEF ServerSound, ServerTyped
  <2>3. rows'[k] = [rows[k] EXCEPT !.live = @ /\ k \notin R]
    BY <1>3, <1>6
  <2> HIDE DEF R, C
  <2>4. (rows[k].live /\ k \notin R) \in BOOLEAN
    OBVIOUS
  <2>5. rows'[k] \in [version : Nat, live : BOOLEAN]
    BY <2>2, <2>3, <2>4
  <2>6. rows'[k].version = rows[k].version
    BY <2>2, <2>3
  <2>7. rows'[k].live = (rows[k].live /\ k \notin R)
    BY <2>2, <2>3
  <2> QED
    BY <2>1, <2>2, <2>3, <2>5, <2>6, <2>7
<1> HIDE DEF R, C
<1>7. rows' \in [DOMAIN rows' -> [version : Nat, live : BOOLEAN]]
  <2>1. ASSUME NEW k \in DOMAIN rows'
        PROVE  rows'[k] \in [version : Nat, live : BOOLEAN]
    <3>1. CASE \E i \in C : i[1] = k
      <4>1. PICK i \in C : i[1] = k
        BY <3>1
      <4>2. rows'[k] = [version |-> i[2], live |-> TRUE] /\ i[2] \in Nat
        BY <1>5, <4>1
      <4> QED
        BY <4>2
    <3>2. CASE ~ (\E i \in C : i[1] = k)
      BY <1>6, <3>2
    <3> QED
      BY <3>1, <3>2
  <2>2. rows' = [k \in DOMAIN rows' |-> rows'[k]]
    BY DEF Patched
  <2> QED
    BY <2>1, <2>2

<1>8. \A i \in Items(s) : rows'[i[1]].live /\ rows'[i[1]].version = i[2]
  <2>1. TAKE i \in Items(s)
  <2>2. CASE i \in C
    <3>1. rows'[i[1]] = [version |-> i[2], live |-> TRUE]
      BY <1>5, <2>2
    <3> QED
      BY <3>1
  <2>3. CASE i \notin C
    <3>1. i \in Live /\ i[1] \in Keys(s)
      BY <1>4, <2>3 DEF Keys
    <3>2. PICK k \in DOMAIN rows : rows[k].live /\ i = <<k, rows[k].version>>
      BY <3>1 DEF Live
    <3>3. i[1] = k /\ i[2] = rows[k].version
      BY <3>2
    <3>4. ~ (\E j \in C : j[1] = i[1])
      BY <1>4, <2>3, ItemFacts
    <3>5. i[1] \notin R
      BY <3>1 DEF R, Removed
    <3>6. i[1] \in DOMAIN rows'
      BY <1>1, <3>1
    <3> HIDE DEF R, C
    <3>7. rows'[i[1]].version = rows[i[1]].version
      BY <1>6, <3>4, <3>6
    <3>8. rows'[i[1]].live = (rows[i[1]].live /\ i[1] \notin R)
      BY <1>6, <3>4, <3>6
    <3> QED
      BY <3>2, <3>3, <3>5, <3>7, <3>8
  <2> QED
    BY <2>2, <2>3
<1>9. \A k \in DOMAIN rows' : rows'[k].live => k \in Keys(s)
  <2>1. SUFFICES ASSUME NEW k \in DOMAIN rows', rows'[k].live
                 PROVE  k \in Keys(s)
    OBVIOUS
  <2>2. CASE \E i \in C : i[1] = k
    BY <1>4, <2>2 DEF Keys
  <2>3. CASE ~ (\E i \in C : i[1] = k)
    <3>1. k \in DOMAIN rows /\ rows[k].live /\ k \notin R
      BY <1>6, <2>1, <2>3
    <3>2. k \in LiveKeys
      BY <3>1, LiveFacts
    <3>3. k \in Keys(b)
      BY <3>2 DEF LiveKeys, Keys
    <3> QED
      BY <3>1, <3>3 DEF R, Removed
  <2> QED
    BY <2>2, <2>3
<1>10. Keys(s) \subseteq DOMAIN rows'
  BY <1>1
<1> QED
  BY <1>7, <1>8, <1>9, <1>10, IndexShows

\* applyNewsProjectionDelta keeps the tables sound and shows the new snapshot.
LEMMA PatchKeepsServer ==
  ASSUME ServerSound, NEW base \in Generations, NEW s \in Snapshots, Base(base),
         In("STAGING") = {}, ApplyDelta(base, s)
  PROVE  ServerSound' /\ Live' = Items(s) /\ expired' = expired
<1> DEFINE g == Append(base, s)
           b == Snap(base)
           old == {x \in In("SUPERSEDED") : ~ Full(x) /\ x # base}
<1> USE DEF ServerSound
<1>1. /\ g \in Generations /\ g # base /\ g # NoGen /\ ~ Full(g) /\ Snap(g) = s
      /\ b \in Snapshots
  BY PatchFacts
<1>2. state.active = base /\ base # NoGen
  BY DEF Base, Generations
<1>3. Live = Items(b) /\ LiveKeys \subseteq details /\ base \in counts
  BY <1>2 DEF ActiveWhole
<1>4. rows' = Patched(b, s)
  BY DEF ApplyDelta
<1> HIDE DEF b
<1>5. /\ Live' = Items(s) /\ LiveKeys' = Keys(s)
      /\ rows' \in [DOMAIN rows' -> [version : Nat, live : BOOLEAN]]
  BY <1>1, <1>3, <1>4, PatchedRows
<1> USE DEF b
<1>6. /\ gens' = [x \in (DOMAIN gens \ old) \cup {g} |->
                    IF x = g THEN "CURRENT"
                    ELSE IF gens[x] = "CURRENT" THEN "SUPERSEDED" ELSE gens[x]]
      /\ details' = details \cup {i[1] : i \in Changed(b, s)}
      /\ counts' = (counts \ old) \cup {g}
      /\ state' = [active |-> g, status |-> "CURRENT", missing |-> 0, violations |-> 0]
      /\ UNCHANGED <<receipts, expired>>
  BY DEF ApplyDelta
<1>7. old \subseteq DOMAIN gens /\ \A x \in old : gens[x] = "SUPERSEDED" /\ ~ Full(x)
  BY DEF In
<1> HIDE DEF old, g, b
<1>8. /\ DOMAIN gens' = (DOMAIN gens \ old) \cup {g}
      /\ gens'[g] = "CURRENT"
      /\ \A x \in DOMAIN gens' : x # g => x \in DOMAIN gens \ old
           /\ gens'[x] = IF gens[x] = "CURRENT" THEN "SUPERSEDED" ELSE gens[x]
  BY <1>6
<1>9. ServerTyped'
  <2>1. gens' \in [DOMAIN gens' -> {"STAGING", "CURRENT", "SUPERSEDED"}]
    <3>1. \A x \in DOMAIN gens' : gens'[x] \in {"STAGING", "CURRENT", "SUPERSEDED"}
      BY <1>8 DEF ServerTyped
    <3>2. gens' = [x \in DOMAIN gens' |-> gens'[x]]
      BY <1>6
    <3> QED
      BY <3>1, <3>2
  <2>2. DOMAIN gens' \subseteq Generations /\ counts' \subseteq DOMAIN gens'
    BY <1>1, <1>6, <1>8 DEF ServerTyped
  <2>3. DOMAIN receipts' \subseteq DOMAIN gens'
    BY <1>6, <1>7, <1>8 DEF ServerTyped
  <2>4. state' \in [active : Generations \cup {NoGen}, status : {"NONE", "CURRENT"},
                    missing : {0}, violations : {0}]
    BY <1>1, <1>6
  <2> QED
    BY <2>1, <2>2, <2>3, <2>4, <1>5, <1>6 DEF ServerTyped
<1>10. LiveKeys' \subseteq details'
  <2>1. ASSUME NEW k \in Keys(s)
        PROVE  k \in details'
    <3>1. PICK i \in Items(s) : i[1] = k
      BY DEF Keys
    <3>2. CASE i \in Items(b)
      <4>1. k \in LiveKeys
        BY <1>3, <3>1, <3>2 DEF LiveKeys
      <4> QED
        BY <4>1, <1>3, <1>6
    <3>3. CASE i \notin Items(b)
      BY <3>1, <3>3, <1>6 DEF Changed
    <3> QED
      BY <3>2, <3>3
  <2> QED
    BY <2>1, <1>5
<1>11. ActiveWhole'
  <2>1. state'.active = g /\ state'.status = "CURRENT"
    BY <1>6
  <2>2. \A x \in DOMAIN gens' : gens'[x] = "CURRENT" <=> x = g
    BY <1>8
  <2> QED
    BY <2>1, <2>2, <1>1, <1>5, <1>6, <1>10 DEF ActiveWhole
<1>12. StagingSound'
  <2>1. In("STAGING")' = {}
    <3>1. \A x \in DOMAIN gens : gens[x] # "STAGING"
      BY DEF In
    <3>2. \A x \in DOMAIN gens' : gens'[x] # "STAGING"
      BY <3>1, <1>8
    <3> QED
      BY <3>2 DEF In
  <2>2. expired' = {}
    BY <1>6 DEF StagingSound
  <2> QED
    BY <2>1, <2>2 DEF StagingSound, StagedKept
<1> QED
  BY <1>5, <1>6, <1>9, <1>11, <1>12

\* One patch against the recorded baseline.
LEMMA DeltaPreserves ==
  ASSUME Inv, ~ Overlap, NEW p \in Producers, Delta(p)
  PROVE  Inv'
<1> DEFINE b == file[p].baseline
           s == Target(p)
           c == [Quiet EXCEPT !.step = "patched"]
<1>1. \A q \in Producers : flight[q] = <<>>
  BY NobodyInFlight DEF Delta
<1>2. s \in Snapshots
  BY MineFacts DEF Inv
<1>3. c \in ClientRow /\ Fits(c, s) /\ c.step # "stage"
  BY <1>2, QuietFits DEF Quiet, ClientRow, Steps, Fits
<1>4. b \in Generations
  <2>1. file[p] \in FileRow
    BY DEF Inv, ClientTyped
  <2> QED
    BY <2>1 DEF FileRow, Generations, Delta
<1>5. Moves(p, c) /\ UNCHANGED <<flight, file, reader>>
  BY AnswerMoves DEF Delta, Rest
<1>6. FlightSound'
  BY <1>1, <1>5, NoFlightIsSound DEF Inv
<1>7. CASE UNCHANGED <<server, been>>
  <2> HIDE DEF c
  <2> QED
    BY <1>3, <1>5, <1>6, <1>7, LocalStep
<1>8. CASE Acceptable(b, s) /\ ApplyDelta(b, s)
  <2>1. Base(b) /\ In("STAGING") = {}
    BY <1>8 DEF Acceptable
  <2> HIDE DEF c, b, s
  <2>2. ServerSound' /\ expired' = expired
    BY <1>2, <1>4, <1>8, <2>1, PatchKeepsServer DEF Inv
  <2>3. ClientTyped'
    BY <1>3, <1>5, MovesKeepTypes DEF Inv, s
  <2>4. StagingFresh'
    BY <1>3, <1>5, <2>2, MovesKeepFresh DEF Inv
  <2>5. WalkSound'
    BY <1>5, WalkUnchanged DEF Inv
  <2> QED
    BY <1>6, <2>2, <2>3, <2>4, <2>5 DEF Inv
<1> QED
  BY <1>7, <1>8 DEF Delta
-----------------------------------------------------------------------------
\* What verifyNewsProjection recomputes is what activation promised.
LEMMA ActiveVerifies ==
  ASSUME ServerSound, NEW g \in Generations, Full(g), state.active = g
  PROVE  /\ Projection(g) = Items(Snap(g)) /\ Live = Projection(g)
         /\ Missing(g) = {} /\ Violations(g) = 0
         /\ Cardinality(Projection(g)) = Count(Snap(g))
<1> DEFINE s == Snap(g)
<1>1. s \in Snapshots /\ g # NoGen
  BY SnapOfGen DEF Generations
<1>2. Live = Items(s) /\ Staged(g, "index") = Count(s)
  BY <1>1 DEF ServerSound, ActiveWhole
<1>3. Projection(g) = Items(s)
  BY <1>1, <1>2, ItemFacts DEF FromReceipts, Projection
<1>4. Missing(g) = {}
  BY <1>2, <1>3 DEF Missing, ServerSound, ActiveWhole, LiveKeys
<1>5. Violations(g) = 0
  <2>1. Projection(g) \ Live = {} /\ Live \ Projection(g) = {}
    BY <1>2, <1>3
  <2>2. Cardinality({}) = 0
    BY FS_EmptySet
  <2> QED
    BY <2>1, <2>2 DEF Violations
<1>6. Cardinality(Items(s)) = Count(s)
  <2> DEFINE f == [i \in 1..Count(s) |-> Content[s][i]]
  <2>1. Count(s) \in Nat /\ Items(s) = {Content[s][i] : i \in 1..Count(s)}
    BY <1>1, ItemFacts
  <2>2. \A i, j \in 1..Count(s) : Content[s][i] = Content[s][j] => i = j
    BY <1>1, ContentAssumption DEF Count
  <2> HIDE DEF s
  <2>3. f \in Bijection(1..Count(s), Items(s))
    <3>1. f \in [1..Count(s) -> Items(s)]
      BY <2>1
    <3>2. \A x, y \in 1..Count(s) : f[x] = f[y] => x = y
      BY <2>2
    <3>3. \A t \in Items(s) : \E x \in 1..Count(s) : f[x] = t
      BY <2>1
    <3> QED
      BY <3>1, <3>2, <3>3, Fun_IsBij
  <2>4. IsFiniteSet(1..Count(s)) /\ Cardinality(1..Count(s)) = Count(s)
    <3>1. Cardinality(1..Count(s)) = IF 1 > Count(s) THEN 0 ELSE Count(s) - 1 + 1
      BY <2>1, FS_Interval
    <3>2. IsFiniteSet(1..Count(s))
      BY <2>1, FS_Interval
    <3> QED
      BY <2>1, <3>1, <3>2
  <2>5. ExistsBijection(1..Count(s), Items(s))
    BY <2>3 DEF ExistsBijection
  <2> QED
    BY <2>4, <2>5, FS_Bijection
<1> QED
  BY <1>2, <1>3, <1>4, <1>5, <1>6

\* The full verification of a generation finds nothing and changes nothing.
LEMMA VerifyPreserves ==
  ASSUME Inv, ~ Overlap, NEW p \in Producers, Verify(p)
  PROVE  Inv'
<1> DEFINE g == Mine(p)
           c == [Quiet EXCEPT !.step = "confirm"]
<1>1. \A q \in Producers : flight[q] = <<>>
  BY NobodyInFlight DEF Verify
<1>2. g \in Generations /\ Full(g) /\ Target(p) \in Snapshots /\ g # NoGen
  BY MineFacts DEF Inv
<1>3. CASE state.active # g
  BY <1>1, <1>3, RefusedStep DEF Verify
<1>4. CASE state.active = g
  <2>1. /\ Missing(g) = {} /\ Violations(g) = 0
        /\ Cardinality(Projection(g)) = Count(Snap(g))
    BY <1>2, <1>4, ActiveVerifies DEF Inv
  <2>2. Cardinality(Missing(g)) = 0
    BY <2>1, FS_EmptySet
  <2>3. /\ state' = [state EXCEPT !.missing = 0, !.violations = 0, !.status = "CURRENT"]
        /\ Answer(p, c)
        /\ UNCHANGED <<gens, receipts, details, rows, counts, expired, flight, been>> /\ Rest
    BY <1>4, <2>1, <2>2 DEF Verify
  <2>4. /\ state \in [active : Generations \cup {NoGen}, status : {"NONE", "CURRENT"},
                      missing : {0}, violations : {0}]
        /\ state.status = "CURRENT"
    BY <1>2, <1>4 DEF Inv, ServerSound, ServerTyped, ActiveWhole
  <2>5. state' = state
    BY <2>3, <2>4
  <2>6. Moves(p, c) /\ UNCHANGED <<server, flight, file, reader>>
    BY <2>3, <2>5, AnswerMoves DEF Rest, server
  <2>7. c \in ClientRow /\ Fits(c, Target(p)) /\ c.step # "stage"
    BY <1>2, QuietFits DEF Quiet, ClientRow, Steps, Fits
  <2>8. FlightSound'
    BY <1>1, <2>6, NoFlightIsSound DEF Inv
  <2> HIDE DEF c
  <2> QED
    BY <2>6, <2>7, <2>8, LocalStep
<1> QED
  BY <1>3, <1>4

LEMMA ConfirmPreserves ==
  ASSUME Inv, ~ Overlap, NEW p \in Producers, Confirm(p)
  PROVE  Inv'
<1> DEFINE g == IF client[p].step = "patched" THEN Append(file[p].baseline, Target(p))
                ELSE Mine(p)
           row == [gen |-> g, status |-> "CURRENT", active |-> Target(p), baseline |-> g]
<1>1. \A q \in Producers : flight[q] = <<>>
  BY NobodyInFlight DEF Confirm
<1>2. /\ Quiet \in ClientRow /\ Fits(Quiet, Target(p)) /\ Quiet.step # "stage"
      /\ Mine(p) \in Seq(Snapshots) /\ Target(p) \in Snapshots
  BY QuietFits, MineFacts DEF Quiet, Inv
<1>3. g \in Seq(Snapshots)
  <2>1. file[p] \in FileRow
    BY DEF Inv, ClientTyped
  <2>2. file[p].baseline \in Seq(Snapshots)
    BY <2>1 DEF FileRow
  <2>3. Append(file[p].baseline, Target(p)) \in Seq(Snapshots)
    BY <1>2, <2>2
  <2> QED
    BY <1>2, <2>3
<1> HIDE DEF g
<1>4. row \in FileRow
  BY <1>2, <1>3 DEF FileRow
<1> HIDE DEF row
<1>5. /\ Moves(p, Quiet) /\ UNCHANGED <<server, flight, reader>>
      /\ file' = file \/ file' = [file EXCEPT ![p] = row]
  BY DEF Confirm, Refused, Same, Stop, Moves, row, g
<1>6. file' = file \/ file' \in [Producers -> FileRow]
  BY <1>4, <1>5 DEF Inv, ClientTyped
<1>7. ClientTyped'
  BY <1>2, <1>5, <1>6, MovesKeepTypes DEF Inv
<1>8. StagingFresh'
  BY <1>2, <1>5, MovesKeepFresh DEF Inv, server
<1>9. ServerSound' /\ WalkSound' /\ FlightSound'
  BY <1>1, <1>5, ServerUnchanged, WalkUnchanged, NoFlightIsSound DEF Inv
<1> QED
  BY <1>7, <1>8, <1>9 DEF Inv

LEMMA FreezePreserves ==
  ASSUME Inv, NEW p \in Producers, Freeze(p)
  PROVE  Inv'
<1>1. /\ client[p] = Quiet /\ flight[p] = <<>> /\ frozen[p] < Len(Source[p])
      /\ frozen' = [frozen EXCEPT ![p] = @ + 1]
      /\ UNCHANGED <<server, file, client, flight, reader>>
  BY DEF Freeze
<1>2. frozen' \in [Producers -> Nat] /\ \A q \in Producers : frozen'[q] \in 1..Len(Source[q])
  <2>1. frozen[p] \in Nat /\ frozen \in [Producers -> Nat]
    BY DEF Inv, ClientTyped
  <2>2. Len(Source[p]) \in Nat
    BY SourceAssumption
  <2>3. frozen[p] + 1 \in 1..Len(Source[p])
    BY <1>1, <2>1, <2>2
  <2> QED
    BY <1>1, <2>1, <2>3 DEF Inv, ClientTyped
<1>3. \A q \in Producers \ {p} : Mine(q)' = Mine(q) /\ Target(q)' = Target(q)
  BY <1>1 DEF Mine, Target, Inv, ClientTyped
<1>4. Target(p)' \in Snapshots
  <2>1. Source[p][frozen'[p]] \in Snapshots
    BY <1>2, SourceAssumption
  <2>2. Target(p)' = Source[p][frozen'[p]]
    <3> DEFINE s == Source[p][frozen'[p]]
    <3>1. Mine(p)' = <<s>>
      BY DEF Mine
    <3>2. Len(<<s>>) = 1 /\ <<s>>[Len(<<s>>)] = s
      OBVIOUS
    <3> QED
      BY <3>1, <3>2 DEF Target, Snap, Last
  <2> QED
    BY <2>1, <2>2
<1>5. \A q \in Producers : Fits(client[q], Target(q))'
  <2>1. TAKE q \in Producers
  <2>2. CASE q = p
    <3>1. Fits(Quiet, Target(p)')
      BY <1>4, QuietFits
    <3> QED
      BY <1>1, <2>2, <3>1 DEF Fits
  <2>3. CASE q # p
    BY <1>1, <1>3, <2>3 DEF Fits, Inv, ClientTyped
  <2> QED
    BY <2>2, <2>3
<1>6. ClientTyped'
  BY <1>1, <1>2, <1>5 DEF Inv, ClientTyped
<1>7. StagingFresh'
  BY <1>1, <1>3 DEF Inv, StagingFresh, Quiet, server
<1>8. FlightSound'
  <2>1. Obsolete' = Obsolete /\ gens' = gens
    BY <1>1 DEF Obsolete, In, server
  <2> QED
    BY <2>1, <1>1, <1>3 DEF Inv, FlightSound
<1>9. ServerSound' /\ WalkSound'
  BY <1>1, ServerUnchanged, WalkUnchanged DEF Inv
<1> QED
  BY <1>6, <1>7, <1>8, <1>9 DEF Inv

LEMMA AgePreserves ==
  ASSUME Inv, NEW g \in DOMAIN gens, Age(g)
  PROVE  Inv'
<1>1. /\ g \in In("STAGING") /\ expired' = expired \cup {g}
      /\ \A p \in Producers : flight[p] = <<>> /\ (Mine(p) = g => client[p] = Quiet)
      /\ UNCHANGED <<gens, receipts, details, rows, counts, state, frozen, file, client,
                     flight, reader>>
  BY DEF Age, local
<1>2. /\ Live' = Live /\ LiveKeys' = LiveKeys
      /\ \A s : In(s)' = In(s)
      /\ \A x, k : Staged(x, k)' = Staged(x, k)
  BY <1>1 DEF Live, LiveKeys, In, Staged
<1>3. ServerTyped'
  BY <1>1 DEF Inv, ServerSound, ServerTyped
<1>4. ActiveWhole'
  BY <1>1, <1>2 DEF Inv, ServerSound, ActiveWhole
<1>5. StagingSound'
  BY <1>1, <1>2 DEF Inv, ServerSound, StagingSound, StagedKept
<1>6. \A q \in Producers : Mine(q)' = Mine(q) /\ Target(q)' = Target(q)
  BY <1>1 DEF Mine, Target
<1>7. ClientTyped'
  BY <1>1, <1>6 DEF Inv, ClientTyped, Fits
<1>8. StagingFresh'
  BY <1>1, <1>6 DEF Inv, StagingFresh, Quiet
<1>9. FlightSound' /\ WalkSound'
  BY <1>1, NoFlightIsSound, WalkUnchanged DEF Inv
<1> QED
  BY <1>3, <1>4, <1>5, <1>7, <1>8, <1>9 DEF Inv, ServerSound
-----------------------------------------------------------------------------
\* A step of a reader.
LEMMA ReaderStep ==
  ASSUME Inv, UNCHANGED <<server, local, flight>>, WalkSound'
  PROVE  Inv'
<1>1. ServerSound'
  BY ServerUnchanged DEF Inv
<1>2. \A q \in Producers : Mine(q)' = Mine(q) /\ Target(q)' = Target(q)
  BY DEF Mine, Target, local
<1>3. ClientTyped'
  BY <1>2 DEF Inv, ClientTyped, Fits, local
<1>4. StagingFresh'
  BY <1>2 DEF Inv, StagingFresh, local, server
<1>5. Obsolete' = Obsolete /\ gens' = gens
  BY DEF Obsolete, In, server
<1>6. FlightSound'
  BY <1>2, <1>5 DEF Inv, FlightSound
<1> QED
  BY <1>1, <1>3, <1>4, <1>6 DEF Inv

\* A page holds the next item of the generation the walk is of.
LEMMA PagePreserves ==
  ASSUME Inv, Page
  PROVE  Inv'
<1> DEFINE s == Snap(state.active)
           later == {i \in Live : \A x \in reader.seen : i[1] > x[1]}
<1>1. state.active \in Generations /\ state.active # NoGen
  BY DEF Page, Cursor, Inv, ServerSound, ServerTyped, ActiveWhole
<1>2. /\ s \in Snapshots /\ Live = Items(s) /\ Items(s) \subseteq Nat \X Nat
      /\ \A i, j \in Items(s) : i[1] = j[1] => i = j
  BY <1>1, SnapOfGen, ItemFacts DEF Inv, ServerSound, ActiveWhole
<1>3. /\ reader.seen \subseteq Items(s)
      /\ \A i \in Items(s) : \A x \in reader.seen : i[1] <= x[1] => i \in reader.seen
  <2>1. reader.gen \in {NoGen, state.active}
    BY DEF Page, Cursor
  <2>2. CASE reader.gen = NoGen
    BY <2>2 DEF Inv, WalkSound
  <2>3. CASE reader.gen = state.active
    BY <1>1, <2>3 DEF Inv, WalkSound
  <2> QED
    BY <2>1, <2>2, <2>3
<1>4. \A i \in Items(s) : i[1] \in Nat
  BY <1>2
<1>5. \A i \in Items(s) : i \notin later => i \in reader.seen
  <2>1. TAKE i \in Items(s)
  <2>2. HAVE i \notin later
  <2>3. PICK x \in reader.seen : ~ (i[1] > x[1])
    BY <1>2, <2>2
  <2>4. i[1] <= x[1]
    BY <1>3, <1>4, <2>3
  <2> QED
    BY <1>3, <2>3, <2>4
<1>6. state.active \in Seq(Snapshots)
  BY <1>1 DEF Generations
<1>7. CASE later = {} /\ reader' = [reader EXCEPT !.done = TRUE, !.gen = state.active]
  <2>0. reader \in [gen : Seq(Snapshots), seen : SUBSET (Nat \X Nat), done : BOOLEAN]
    BY DEF Inv, WalkSound
  <2>1. reader'.gen = state.active /\ reader'.seen = reader.seen /\ reader'.done
    BY <1>7, <2>0
  <2>4. reader' \in [gen : Seq(Snapshots), seen : SUBSET (Nat \X Nat), done : BOOLEAN]
    BY <1>6, <1>7, <2>0
  <2>2. reader.seen = Items(s)
    BY <1>3, <1>5, <1>7
  <2>3. WalkSound'
    BY <1>1, <1>3, <2>1, <2>2, <2>4 DEF WalkSound, WalkIsSnapshot
  <2> QED
    BY <2>3, ReaderStep DEF Page
<1>8. ASSUME NEW i \in later, \A x \in later : i[1] <= x[1],
             reader' = [gen |-> state.active, seen |-> reader.seen \cup {i}, done |-> FALSE]
      PROVE  Inv'
  <2>1. /\ reader'.gen = state.active /\ reader'.seen = reader.seen \cup {i}
        /\ ~ reader'.done /\ i \in Items(s)
    BY <1>2, <1>8
  <2>2. ASSUME NEW j \in Items(s), NEW x \in reader.seen \cup {i}, j[1] <= x[1]
        PROVE  j \in reader.seen \cup {i}
    <3>1. CASE x \in reader.seen
      BY <1>3, <2>2, <3>1
    <3>2. CASE x = i /\ j \notin later
      BY <1>5, <3>2
    <3>3. CASE x = i /\ j \in later
      <4>1. i[1] <= j[1] /\ j[1] <= i[1]
        BY <1>8, <2>2, <3>3
      <4>2. i[1] = j[1]
        BY <1>4, <2>1, <4>1
      <4> QED
        BY <1>2, <2>1, <4>2
    <3> QED
      BY <3>1, <3>2, <3>3
  <2> HIDE DEF later
  <2>4. reader' \in [gen : Seq(Snapshots), seen : SUBSET (Nat \X Nat), done : BOOLEAN]
    <3>1. reader.seen \cup {i} \in SUBSET (Nat \X Nat)
      BY <1>2, <1>3, <2>1
    <3> QED
      BY <1>6, <1>8, <3>1
  <2>3. WalkSound'
    BY <1>1, <1>3, <2>1, <2>2, <2>4 DEF WalkSound, WalkIsSnapshot
  <2> QED
    BY <2>3, ReaderStep DEF Page
<1> QED
  BY <1>7, <1>8 DEF Page

LEMMA ReopenPreserves ==
  ASSUME Inv, Reopen
  PROVE  Inv'
<1>1. reader' = Walk0 /\ UNCHANGED <<server, local, flight>>
  BY DEF Reopen
<1>2. /\ reader'.gen = NoGen /\ reader'.seen = {} /\ ~ reader'.done
      /\ NoGen \in Seq(Snapshots)
  BY <1>1 DEF Walk0, NoGen
<1>3. reader' \in [gen : Seq(Snapshots), seen : SUBSET (Nat \X Nat), done : BOOLEAN]
  BY <1>1, <1>2 DEF Walk0
<1>4. WalkSound'
  BY <1>2, <1>3 DEF WalkSound, WalkIsSnapshot
<1> QED
  BY <1>1, <1>4, ReaderStep

-----------------------------------------------------------------------------
LEMMA InitEstablishes ==
  ASSUME Init
  PROVE  Inv
<1>1. DOMAIN gens = {} /\ DOMAIN receipts = {} /\ DOMAIN rows = {}
  BY DEF Init, Empty
<1>2. Live = {} /\ LiveKeys = {}
  BY <1>1 DEF Live, LiveKeys
<1>3. ServerTyped
  <2>1. gens = [g \in {} |-> gens[g]] /\ receipts = [g \in {} |-> receipts[g]]
        /\ rows = [k \in {} |-> rows[k]]
    BY DEF Init, Empty
  <2> QED
    BY <1>1, <2>1 DEF Init, ServerTyped
<1>4. ActiveWhole
  BY <1>1, <1>2 DEF Init, ActiveWhole
<1>5. StagingSound
  BY <1>1 DEF Init, StagingSound, StagedKept, In
<1>6. ClientTyped
  <2>1. \A p \in Producers : Source[p][1] \in Snapshots /\ 1 \in 1..Len(Source[p])
    BY SourceAssumption
  <2>2. \A p \in Producers : Target(p) = Source[p][1]
    <3>1. TAKE p \in Producers
    <3> DEFINE s == Source[p][1]
    <3>2. Mine(p) = <<s>>
      BY DEF Mine, Init
    <3>3. Len(<<s>>) = 1 /\ <<s>>[Len(<<s>>)] = s
      OBVIOUS
    <3> QED
      BY <3>2, <3>3 DEF Target, Snap, Last
  <2>3. \A p \in Producers : Quiet \in ClientRow /\ Fits(Quiet, Target(p))
    BY <2>1, <2>2, QuietFits
  <2>4. \A p \in Producers : client[p] = Quiet /\ frozen[p] = 1
    BY DEF Init
  <2>5. client \in [Producers -> ClientRow]
    BY <2>3 DEF Init
  <2>6. NoFile \in FileRow
    BY DEF NoFile, FileRow, NoGen
  <2>7. file \in [Producers -> FileRow] /\ frozen \in [Producers -> Nat]
    BY <2>6 DEF Init
  <2>8. \A p \in Producers : Fits(client[p], Target(p)) /\ frozen[p] \in 1..Len(Source[p])
    BY <2>1, <2>3, <2>4
  <2> QED
    BY <2>5, <2>7, <2>8 DEF ClientTyped
<1>7. StagingFresh /\ FlightSound
  BY DEF Init, StagingFresh, FlightSound, Quiet
<1>8. WalkSound
  <2>1. reader \in [gen : Seq(Snapshots), seen : SUBSET (Nat \X Nat), done : BOOLEAN]
    BY DEF Init, Walk0, NoGen
  <2>2. reader.gen = NoGen /\ reader.seen = {} /\ reader.done = FALSE
    BY DEF Init, Walk0
  <2> QED
    BY <2>1, <2>2 DEF WalkSound, WalkIsSnapshot
<1> QED
  BY <1>3, <1>4, <1>5, <1>6, <1>7, <1>8 DEF Inv, ServerSound

LEMMA NextPreserves ==
  ASSUME Inv, ~ Overlap, [Next]_vars
  PROVE  Inv'
<1>1. CASE UNCHANGED vars
  BY <1>1, ReaderStep, WalkUnchanged DEF vars, Inv
<1>2. ASSUME NEW p \in Producers, Cycle(p)
      PROVE  Inv'
  BY <1>2, BeginPreserves, DeltaPreserves, PreparePreserves, PreparedPreserves, StagePreserves,
     YieldPreserves, ActivatePreserves, VerifyPreserves, ConfirmPreserves DEF Cycle
<1>3. CASE \E p \in Producers : Freeze(p)
  BY <1>3, FreezePreserves
<1>4. CASE \E g \in DOMAIN gens : Age(g)
  BY <1>4, AgePreserves
<1>5. CASE Page \/ Reopen
  BY <1>5, PagePreserves, ReopenPreserves
<1> QED
  BY <1>1, <1>2, <1>3, <1>4, <1>5 DEF Next

\* The inductive invariant holds in every behaviour.
THEOREM InvAlways ==
  ASSUME ~ Overlap
  PROVE  Spec => []Inv
<1>1. Init => Inv
  BY InitEstablishes
<1>2. Inv /\ [Next]_vars => Inv'
  BY NextPreserves
<1> QED
  BY <1>1, <1>2, PTL DEF Spec

\* The tables, the files and the clients keep their shapes.
THEOREM TypeCorrect ==
  ASSUME ~ Overlap
  PROVE  Spec => []TypeOK
<1>1. ASSUME Inv
      PROVE  TypeOK
  <2> USE DEF Inv, ServerSound
  <2>1. \A g \in DOMAIN receipts : receipts[g] \in [{"detail", "index"} -> 0..Count(Snap(g))]
    <3>1. TAKE g \in DOMAIN receipts
    <3>2. Count(Snap(g)) \in Nat
      BY <1>1, SnapOfGen, ItemFacts DEF ServerTyped
    <3>3. receipts[g] \in [Kinds -> Nat] /\ \A k \in Kinds : receipts[g][k] <= Count(Snap(g))
      BY <1>1 DEF ServerTyped
    <3> QED
      BY <3>2, <3>3 DEF Kinds
  <2>2. \A k \in DOMAIN rows : rows[k].live \in BOOLEAN
    BY <1>1 DEF ServerTyped
  <2>3. state.active \in Gens /\ state.status \in {"NONE", "CURRENT", "RECOVERY_REQUIRED"}
    BY <1>1 DEF ServerTyped, ActiveWhole, Gens
  <2>4. ASSUME NEW p \in Producers
        PROVE  /\ frozen[p] \in 1..Len(Source[p])
               /\ file[p].status \in {"NONE", "REPLAYING", "CURRENT"}
               /\ client[p].work \in 0..BATCHES
    <3>1. file[p] \in FileRow /\ client[p] \in ClientRow /\ client[p].work <= BATCHES
      BY <1>1 DEF ClientTyped, Fits
    <3> QED
      BY <1>1, <3>1, BoundAssumption DEF ClientTyped, FileRow, ClientRow
  <2> QED
    BY <1>1, <2>1, <2>2, <2>3, <2>4 DEF TypeOK, ServerTyped, StagingSound
<1> QED
  BY <1>1, InvAlways, PTL

\* The current generation is whole, what a replay has acknowledged survives every
\* sweep of the other producer's, and a walk that ends has read one snapshot.
THEOREM ArchiveAlwaysWhole ==
  ASSUME ~ Overlap
  PROVE  Spec => []ArchiveWhole
<1>1. Inv => ArchiveWhole
  <2>1. Inv => CurrentComplete
    BY DEF Inv, ServerSound, ActiveWhole, ServerTyped, CurrentComplete
  <2> QED
    BY <2>1 DEF Inv, ServerSound, StagingSound, WalkSound, ArchiveWhole
<1> QED
  BY <1>1, InvAlways, PTL

\* At most one replacement is staging (docs/contracts/NEWS_PROJECTION.md).
THEOREM OneStagingAtATime ==
  ASSUME ~ Overlap
  PROVE  Spec => []OneStaging
<1>1. Inv => OneStaging
  <2>1. SUFFICES ASSUME Inv PROVE OneStaging
    OBVIOUS
  <2>2. CASE In("STAGING") = {}
    BY <2>2, FS_EmptySet DEF OneStaging
  <2>3. ASSUME NEW g \in In("STAGING")
        PROVE  OneStaging
    <3>1. In("STAGING") = {g}
      BY <2>1 DEF Inv, ServerSound, StagingSound
    <3>2. Cardinality({g}) = 1
      BY FS_Singleton
    <3> QED
      BY <3>1, <3>2 DEF OneStaging
  <2> QED
    BY <2>2, <2>3
<1> QED
  BY <1>1, InvAlways, PTL

\* Neither replay nor patch leaves anything for verifyNewsProjection to find: the
\* archive never asks for recovery.
NeverRecovers ==
  /\ state.status # "RECOVERY_REQUIRED" /\ state.missing = 0 /\ state.violations = 0
THEOREM ArchiveNeverRecovers ==
  ASSUME ~ Overlap
  PROVE  Spec => []NeverRecovers
<1>1. Inv => NeverRecovers
  BY DEF Inv, ServerSound, ServerTyped, NeverRecovers
<1> QED
  BY <1>1, InvAlways, PTL

\* What readers see changes only by activation and by a patch.
LEMMA ShownStep ==
  ASSUME Inv, Next
  PROVE  Live' = Live \/ \E s \in Snapshots : Live' = Items(s)
<1> SUFFICES ASSUME Live' # Live
             PROVE  \E s \in Snapshots : Live' = Items(s)
  OBVIOUS
<1>1. rows' # rows
  BY DEF Live
<1>2. \A gs : ~ DeleteGenerations(gs)
  BY SweepKeepsLive DEF Inv, ServerSound
<1>3. PICK p \in Producers : Delta(p) \/ Activate(p)
  <2>1. ASSUME NEW p \in Producers, Begin(p) \/ Prepare(p) \/ Prepared(p) \/ Stage(p)
        PROVE  rows' = rows
    BY <1>2, <2>1 DEF Begin, Prepare, Prepared, Stage, Refused, server
  <2>2. ASSUME NEW p \in Producers, Yield(p) \/ Verify(p) \/ Confirm(p) \/ Freeze(p)
        PROVE  rows' = rows
    BY <1>2, <2>2 DEF Yield, Verify, Confirm, Freeze, Refused, server
  <2>3. ASSUME (\E g \in DOMAIN gens : Age(g)) \/ Page \/ Reopen
        PROVE  rows' = rows
    BY <2>3 DEF Age, Page, Reopen, server
  <2> QED
    BY <1>1, <2>1, <2>2, <2>3 DEF Next, Cycle
<1>4. CASE Delta(p)
  <2> DEFINE b == file[p].baseline
             s == Target(p)
  <2>1. ApplyDelta(b, s) /\ Base(b) /\ In("STAGING") = {}
    BY <1>1, <1>4 DEF Delta, server, Acceptable
  <2>2. s \in Snapshots
    BY MineFacts DEF Inv
  <2>3. b \in Generations
    <3>1. file[p] \in FileRow
      BY DEF Inv, ClientTyped
    <3> QED
      BY <1>4, <3>1 DEF FileRow, Generations, Delta
  <2> HIDE DEF b, s
  <2>4. Live' = Items(s)
    BY <2>1, <2>2, <2>3, PatchKeepsServer DEF Inv
  <2> QED
    BY <2>2, <2>4
<1>5. CASE Activate(p)
  <2> DEFINE g == Mine(p)
  <2>1. g \in Generations /\ Full(g) /\ Snap(g) \in Snapshots
    BY MineFacts DEF Inv
  <2>2. g \notin expired
    BY <1>5 DEF Activate, At, Inv, StagingFresh
  <2>3. /\ state.active # g /\ Ready(g)
        /\ gens' = [x \in DOMAIN gens |-> IF x = g THEN "CURRENT"
                      ELSE IF gens[x] = "CURRENT" THEN "SUPERSEDED" ELSE gens[x]]
        /\ counts' = counts \cup {g}
        /\ state' = [active |-> g, status |-> "CURRENT", missing |-> 0, violations |-> 0]
        /\ rows' = Replaced(g) /\ UNCHANGED <<receipts, details, expired>>
    BY <1>1, <1>5 DEF Activate, Refused, server
  <2> HIDE DEF g
  <2>4. Live' = Items(Snap(g))
    BY <2>1, <2>2, <2>3, ActivateKeepsServer DEF Inv
  <2> QED
    BY <2>1, <2>4
<1> QED
  BY <1>3, <1>4, <1>5

\* The archive readers see implements the abstract one.
THEOREM ArchiveIsReplacedWhole ==
  ASSUME ~ Overlap
  PROVE  Spec => ArchiveImplemented
<1>1. Init => Archive!Init
  <2>1. Init => Live = {}
    BY DEF Init, Empty, Live
  <2> QED
    BY <2>1 DEF Archive!Init
<1>2. Inv /\ [Next]_vars => [Archive!Next]_Live
  <2>1. CASE UNCHANGED vars
    BY <2>1 DEF vars, server, Live
  <2>2. ASSUME Inv, Next
        PROVE  [Archive!Next]_Live
    BY <2>2, ShownStep DEF Archive!Next, Archive!Publish
  <2> QED
    BY <2>1, <2>2
<1> QED
  BY <1>1, <1>2, InvAlways, PTL DEF Spec, ArchiveImplemented, Archive!Spec
=============================================================================
