------------------------- MODULE NewsEvidenceProofs -------------------------
(******************************************************************************)
(* The published evidence archive is exact: what readers page through, what   *)
(* the sync's file names and what a finished walk read is one snapshot, item  *)
(* by item, for every history, batch size and order of the requests.          *)
(*                                                                            *)
(* Each receipt holds the differences to the snapshot that was published      *)
(* when it was staged.  The invariant follows one generation from its freeze  *)
(* to the next: b is what was published when manifest was frozen, so the      *)
(* publication is b until manifest replaces it, and the receipts that an      *)
(* activation may use are differences to b.                                   *)
(******************************************************************************)
EXTENDS NewsEvidence, FiniteSetTheorems, NaturalsInduction, TLAPS

\* What a publication shows: nothing before the first one.
Base(s) == IF s = Nil THEN {} ELSE Items(s)

\* A receipt of s is one batch of s, with its differences to snapshot b.
Grounded(s, b) ==
  \A r \in Of(s) : r.changes = Slice(s, r.offset, r.count) \ Base(b)

\* The rows of the tables, the requests and the local variables.
Named == Snapshots \cup {Nil}
AllItems == UNION {Items(s) : s \in Snapshots}
ReceiptRow ==
  [snap : Snapshots, offset : Nat, count : Nat, keys : SUBSET Nat,
   changes : SUBSET AllItems, aged : BOOLEAN]
TransferRow == [base : Named, next : Nat, old : BOOLEAN]
CallRow ==
  [op : {"cleanup", "prepare", "stage", "activate"}, snap : Named, from : Nat,
   count : Nat, late : BOOLEAN, read : BOOLEAN, base : Named, prefix : Nat]
ClientRow ==
  [step : {"idle", "cleanup", "prepare", "stage"}, snap : Named, sent : Nat, left : Int]

\* A receipt is one batch of its snapshot, and no two start at the same item.
ReceiptsTyped ==
  \A r \in receipts :
    /\ r \in ReceiptRow
    /\ r.offset + r.count <= Total(r.snap)
    /\ r.keys = {i[1] : i \in Slice(r.snap, r.offset, r.count)}
    /\ \A q \in receipts : r.snap = q.snap /\ r.offset = q.offset => r = q

TransfersTyped ==
  \A s \in DOMAIN transfers :
    s \in Snapshots /\ transfers[s] \in TransferRow /\ transfers[s].next <= Total(s)

Typed ==
  /\ ledger \in 1..Len(History)
  /\ active \in Named /\ manifest \in Named
  /\ file \in [active : Named, debt : BOOLEAN]
  /\ client \in ClientRow
  /\ client.step # "idle" => client.snap = manifest /\ manifest # Nil
  /\ ReceiptsTyped /\ TransfersTyped

\* A request of the transfer is one of the generation in progress, and the client
\* waits for at most one request, the one of its step.
CallsFollow ==
  /\ \A c \in calls :
       /\ c \in CallRow
       /\ manifest # Nil
       /\ c.op # "cleanup" => c.snap = manifest
       /\ c.op = "stage" => c.from < Total(manifest) /\ c.from + c.count <= Total(manifest)
       /\ c.op = "prepare" /\ c.read => c.prefix <= Total(manifest)
  /\ \A c \in calls : ~c.late =>
       /\ c.op = "cleanup" => client.step = "cleanup" /\ c.snap = file.active
       /\ c.op = "prepare" => client.step = "prepare"
       /\ c.op \in {"stage", "activate"} => client.step = "stage"
  /\ \A c, d \in calls : ~c.late /\ ~d.late => c = d

\* The generation in progress replaces b and nothing else; the file names one of both.
OneStep(b) ==
  /\ b \in Named
  /\ active \in {b, manifest}
  /\ manifest # Nil => b # manifest
  /\ manifest = Nil => b = Nil /\ receipts = {} /\ DOMAIN transfers = {}
  /\ file.active \in {Nil, b, manifest}
  /\ file.active = manifest => active = manifest

\* Every transfer's receipts are differences to its baseline, except a transfer that a
\* late request opened for the snapshot already published.
TransfersGrounded ==
  \A s \in DOMAIN transfers :
    transfers[s].base # s => Grounded(s, transfers[s].base)

\* Once published, the receipts of a generation remain what they were, and the batch
\* at offset 0 keeps a late request from staging another one.
PublishedGrounded(b) ==
  active = manifest /\ manifest # Nil =>
    /\ Grounded(manifest, b)
    /\ manifest \in DOMAIN transfers /\ transfers[manifest].base = manifest =>
         transfers[manifest].next = 0
    /\ (manifest \in DOMAIN transfers => transfers[manifest].base = manifest) =>
         Total(manifest) = 0 \/ \E r \in Of(manifest) : r.offset = 0

\* The generation in progress has no transfer against what is published, and receipts
\* an earlier publication left.
Unprepared ==
  /\ active # manifest
  /\ IF manifest \in DOMAIN transfers THEN transfers[manifest].base # active
     ELSE ~Grounded(manifest, active)

\* Such receipts go before one is staged: the first cleanup removes those no transfer
\* protects, the preparation those of a transfer.
LeftReceiptsGo ==
  Unprepared =>
    /\ file.active = active /\ active # Nil /\ client.step # "stage"
    /\ manifest \notin DOMAIN transfers \/ transfers[manifest].old =>
         /\ client.step \in {"idle", "cleanup"}
         /\ \A c \in calls : c.op = "cleanup"
         /\ \A r \in Of(manifest) : r.aged

\* What a preparation read stays true of the baseline of its generation.
ReadsGrounded(b) ==
  \A c \in calls : c.op = "prepare" /\ c.read =>
    c.base = b /\ (c.prefix # 0 => Grounded(manifest, b))

\* A reader who started has read the first items of one snapshot.
WalkIsPrefix ==
  /\ reader \in [snap : Named, seen : SUBSET AllItems, done : BOOLEAN]
  /\ reader.snap = Nil => reader.seen = {} /\ ~reader.done
  /\ reader.snap # Nil =>
       /\ reader.seen \subseteq Items(reader.snap)
       /\ \A i \in Items(reader.snap), x \in reader.seen : i[1] <= x[1] => i \in reader.seen

Generation(b) ==
  /\ OneStep(b) /\ PublishedGrounded(b) /\ ReadsGrounded(b)

Core(b) ==
  /\ Typed /\ CallsFollow
  /\ TransfersGrounded /\ LeftReceiptsGo
  /\ current = Base(active)
  /\ Generation(b)

Inv ==
  /\ \E b \in Named : Core(b)
  /\ WalkIsPrefix /\ WalkIsWhole

-----------------------------------------------------------------------------
(* The operators the publication is built from.                              *)

\* The lesser of two numbers.
LEMMA MinOfTwo ==
  ASSUME NEW m \in Int, NEW n \in Int
  PROVE  Min({m, n}) = IF m <= n THEN m ELSE n
BY DEF Min

\* A snapshot's content is a sequence of items with numbered keys.
LEMMA ContentFacts ==
  ASSUME NEW s \in Snapshots
  PROVE  /\ Total(s) \in Nat /\ DOMAIN Content[s] = 1..Total(s)
         /\ Items(s) = {Content[s][i] : i \in 1..Total(s)}
         /\ \A i \in Items(s) : i[1] \in Nat
         /\ \A i, j \in Items(s) : i[1] = j[1] => i = j
         /\ s # Nil
<1>1. Content[s] \in Seq(Range(Content[s]))
  BY ContentAssumption DEF Snapshots
<1>2. Total(s) \in Nat /\ DOMAIN Content[s] = 1..Total(s)
  BY <1>1 DEF Total
<1>3. Items(s) = {Content[s][i] : i \in 1..Total(s)}
  BY <1>2 DEF Items, Range
<1>4. \A i \in Items(s) : i[1] \in Nat
  BY <1>2, <1>3, ContentAssumption DEF Snapshots
<1>5. ASSUME NEW i \in Items(s), NEW j \in Items(s), i[1] = j[1]
      PROVE  i = j
  <2>1. PICK m \in DOMAIN Content[s] : i = Content[s][m]
    BY <1>2, <1>3
  <2>2. PICK n \in DOMAIN Content[s] : j = Content[s][n]
    BY <1>2, <1>3
  <2>3. m = n
    BY <1>5, <2>1, <2>2, ContentAssumption DEF Snapshots
  <2> QED
    BY <2>1, <2>2, <2>3
<1> QED
  BY <1>2, <1>3, <1>4, <1>5, ContentAssumption DEF Snapshots, Nil

\* A slice holds items of its snapshot, and the first item only from offset 0.
LEMMA SliceFacts ==
  ASSUME NEW s \in Snapshots, NEW from \in Nat, NEW n \in Nat
  PROVE  /\ Slice(s, from, n) \subseteq Items(s)
         /\ Total(s) # 0 /\ Content[s][1] \in Slice(s, from, n) => from = 0
<1> DEFINE to == Min({from + n, Total(s)})
<1>1. to \in Nat /\ to <= Total(s)
  BY ContentFacts, MinOfTwo
<1>2. Slice(s, from, n) = {Content[s][i] : i \in from + 1..to}
  BY DEF Slice
<1> HIDE DEF to
<1>3. \A i \in from + 1..to : i \in DOMAIN Content[s] /\ i \in 1..Total(s)
  BY <1>1, ContentFacts
<1>4. Slice(s, from, n) \subseteq Items(s)
  BY <1>2, <1>3, ContentFacts
<1>5. ASSUME Total(s) # 0, Content[s][1] \in Slice(s, from, n)
      PROVE  from = 0
  <2>1. PICK i \in from + 1..to : Content[s][i] = Content[s][1]
    BY <1>2, <1>5
  <2>2. 1 \in DOMAIN Content[s] /\ i \in DOMAIN Content[s]
    BY <1>3, <1>5, ContentFacts
  <2>3. i = 1
    BY <2>1, <2>2, ContentAssumption DEF Snapshots
  <2> QED
    BY <2>3
<1> QED
  BY <1>4, <1>5

\* A snapshot has at most as many keys as items.
LEMMA KeysAreFew ==
  ASSUME NEW s \in Snapshots
  PROVE  /\ IsFiniteSet({i[1] : i \in Items(s)})
         /\ Cardinality({i[1] : i \in Items(s)}) \in Nat
         /\ Cardinality({i[1] : i \in Items(s)}) <= Total(s)
<1> DEFINE K == {i[1] : i \in Items(s)}
           f == [i \in 1..Total(s) |-> Content[s][i][1]]
<1>1. Total(s) \in Nat /\ Items(s) = {Content[s][i] : i \in 1..Total(s)}
  BY ContentFacts
<1>2. f \in Surjection(1..Total(s), K)
  <2>1. f \in [1..Total(s) -> K]
    BY <1>1
  <2>2. \A k \in K : \E i \in 1..Total(s) : f[i] = k
    BY <1>1
  <2> QED
    BY <2>1, <2>2 DEF Surjection
<1>3. ExistsSurjection(1..Total(s), K)
  BY <1>2 DEF ExistsSurjection
<1> HIDE DEF K, f
<1>4. IsFiniteSet(K)
  BY <1>1, <1>3, FS_NatSurjection
<1>5. Cardinality(K) <= Total(s)
  BY <1>1, <1>3, FS_SurjCardinalityBound
<1> QED
  BY <1>4, <1>5, FS_CardinalityType DEF K

\* Of some numbers, one is the least.
LEMMA LeastNumber ==
  ASSUME NEW K, K \subseteq Nat, K # {}
  PROVE  \E k \in K : \A l \in K : k <= l
<1> DEFINE R == {p \in Nat \X Nat : p[1] < p[2]}
<1>1. IsWellFoundedOn(R, Nat)
  BY NatLessThanWellFounded DEF OpToRel
<1>2. PICK k \in K : \A l \in K : ~ (<<l, k>> \in R)
  <2> HIDE DEF R
  <2> QED
    BY <1>1, WFMin
<1>3. ASSUME NEW l \in K
      PROVE  k <= l
  <2>1. k \in Nat /\ l \in Nat
    OBVIOUS
  <2>2. <<l, k>> \in R <=> l < k
    BY <2>1
  <2>3. ~ (<<l, k>> \in R)
    BY <1>2
  <2> HIDE DEF R
  <2> QED
    BY <2>1, <2>2, <2>3
<1> QED
  BY <1>3

\* Of some items, one has the least key.
LEMMA LeastItem ==
  ASSUME NEW T, T # {}, \A i \in T : i[1] \in Nat
  PROVE  \E i \in T : \A j \in T : i[1] <= j[1]
<1> DEFINE K == {i[1] : i \in T}
<1>1. PICK k \in K : \A l \in K : k <= l
  BY LeastNumber
<1>2. PICK i \in T : i[1] = k
  OBVIOUS
<1>3. \A j \in T : j[1] \in K
  OBVIOUS
<1> HIDE DEF K
<1>4. \A j \in T : i[1] <= j[1]
  BY <1>1, <1>2, <1>3
<1> QED
  BY <1>4

\* The greatest of some numbers up to n.
LEMMA MaxFacts ==
  ASSUME NEW n \in Nat, NEW S, S \subseteq 0..n, S # {}
  PROVE  Max(S) \in S /\ \A x \in S : x <= Max(S)
<1> DEFINE K == {n - x : x \in S}
<1>1. K \subseteq Nat /\ K # {}
  <2>1. \A x \in S : x \in 0..n /\ n - x \in Nat
    OBVIOUS
  <2> QED
    BY <2>1
<1>2. PICK k \in K : \A l \in K : k <= l
  <2> HIDE DEF K
  <2> QED
    BY <1>1, LeastNumber
<1>3. PICK m \in S : k = n - m
  OBVIOUS
<1>4. \A x \in S : n - x \in K
  OBVIOUS
<1> HIDE DEF K
<1>5. \A x \in S : m >= x
  <2>1. ASSUME NEW x \in S
        PROVE  m >= x
    <3>1. n - m <= n - x
      BY <1>2, <1>3, <1>4
    <3>2. m \in Int /\ x \in Int
      OBVIOUS
    <3> QED
      BY <3>1, <3>2
  <2> QED
    BY <2>1
<1>6. Max(S) \in S /\ \A x \in S : Max(S) >= x
  BY <1>5 DEF Max
<1> QED
  BY <1>6

\* The prefix a preparation counts is a number of items of its snapshot.
LEMMA UsableFacts ==
  ASSUME NEW s \in Snapshots, ReceiptsTyped
  PROVE  Usable(s) \in 0..Total(s)
<1> DEFINE ends == {r.offset + r.count : r \in {q \in Of(s) :
             \A i \in 1..q.offset : \E p \in Of(s) : p.offset < i /\ i <= p.offset + p.count}}
<1>1. Total(s) \in Nat
  BY ContentFacts
<1>2. \A r \in Of(s) : r.offset + r.count \in 0..Total(s)
  BY <1>1 DEF Of, ReceiptsTyped, ReceiptRow
<1>3. ends \subseteq 0..Total(s)
  BY <1>2
<1> HIDE DEF ends
<1>4. Max({0} \cup ends) \in 0..Total(s)
  <2>1. {0} \cup ends \subseteq 0..Total(s) /\ {0} \cup ends # {}
    BY <1>1, <1>3
  <2>2. Max({0} \cup ends) \in {0} \cup ends
    BY <1>1, <2>1, MaxFacts
  <2> QED
    BY <2>1, <2>2
<1> QED
  BY <1>1, <1>4 DEF Usable, Prefix, ends

-----------------------------------------------------------------------------
(* Publication: complete receipts of differences give the snapshot.          *)

\* The keys of a complete transfer's receipts are those of its snapshot.
LEMMA CompleteCovers ==
  ASSUME NEW s \in Snapshots, ReceiptsTyped, Complete(s)
  PROVE  /\ Member(s) = {i[1] : i \in Items(s)}
         /\ \A i \in Items(s) : \E r \in Of(s) : i \in Slice(s, r.offset, r.count)
<1> DEFINE K == {i[1] : i \in Items(s)}
<1>1. ASSUME NEW r \in Of(s)
      PROVE  /\ r \in receipts /\ r.offset \in Nat /\ r.count \in Nat
             /\ r.keys = {i[1] : i \in Slice(s, r.offset, r.count)}
             /\ Slice(s, r.offset, r.count) \subseteq Items(s)
  <2>1. r \in receipts /\ r.snap = s /\ r \in ReceiptRow
    BY <1>1 DEF Of, ReceiptsTyped
  <2> QED
    BY <2>1, SliceFacts DEF ReceiptsTyped, ReceiptRow
<1>2. Member(s) \subseteq K
  <2>1. ASSUME NEW r \in Of(s)
        PROVE  r.keys \subseteq K
    BY <1>1, <2>1
  <2> QED
    BY <2>1 DEF Member
<1>3. Member(s) = K
  <2>1. IsFiniteSet(K) /\ Cardinality(K) \in Nat /\ Cardinality(K) <= Total(s)
    BY KeysAreFew
  <2>2. Cardinality(Member(s)) = Total(s)
    BY DEF Complete
  <2> HIDE DEF K
  <2>3. Cardinality(Member(s)) <= Cardinality(K)
    BY <1>2, <2>1, FS_Subset
  <2>4. Cardinality(Member(s)) = Cardinality(K)
    BY <2>1, <2>2, <2>3, ContentFacts
  <2> QED
    BY <1>2, <2>1, <2>4, FS_Subset
<1>4. ASSUME NEW i \in Items(s)
      PROVE  \E r \in Of(s) : i \in Slice(s, r.offset, r.count)
  <2>1. i[1] \in Member(s)
    BY <1>3
  <2>2. PICK r \in Of(s) : i[1] \in r.keys
    BY <2>1 DEF Member
  <2>3. PICK j \in Slice(s, r.offset, r.count) : j[1] = i[1]
    BY <1>1, <2>2
  <2>4. j = i
    BY <1>1, <2>3, ContentFacts
  <2> QED
    BY <2>3, <2>4
<1> QED
  BY <1>3, <1>4

\* What an activation publishes, though only differences were uploaded, is the
\* snapshot item by item.
LEMMA MergeIsExact ==
  ASSUME NEW s \in Snapshots, ReceiptsTyped, Complete(s), Grounded(s, active),
         active \in Named, current = Base(active)
  PROVE  Merged(s) = Items(s)
<1>1. \A r \in Of(s) : Slice(s, r.offset, r.count) \subseteq Items(s)
  BY SliceFacts DEF ReceiptsTyped, ReceiptRow, Of
<1>2. \A i, j \in current : i[1] = j[1] => i = j
  BY ContentFacts DEF Base, Named
<1>3. Changes(s) \subseteq Items(s)
  <2>1. \A r \in Of(s) : r.changes \subseteq Items(s)
    BY <1>1 DEF Grounded
  <2> QED
    BY <2>1 DEF Changes
<1>4. Items(s) \subseteq current \cup Changes(s)
  <2>1. ASSUME NEW i \in Items(s), i \notin current
        PROVE  i \in Changes(s)
    <3>1. PICK r \in Of(s) : i \in Slice(s, r.offset, r.count)
      BY CompleteCovers
    <3>2. i \in r.changes
      BY <2>1, <3>1 DEF Grounded
    <3> QED
      BY <3>2 DEF Changes
  <2> QED
    BY <2>1
<1>5. ASSUME NEW i \in Merged(s)
      PROVE  i \in Items(s)
  <2>1. PICK j \in Items(s) : j[1] = i[1]
    BY CompleteCovers DEF Merged
  <2>2. CASE i \in Changes(s)
    BY <1>3, <2>2
  <2>3. CASE i \notin Changes(s)
    <3>1. i \in current /\ i[1] \notin {c[1] : c \in Changes(s)}
      BY <1>5, <2>3 DEF Merged, MergedOver
    <3>2. j \notin Changes(s)
      BY <2>1, <3>1
    <3>3. j \in current
      BY <1>4, <3>2
    <3> QED
      BY <1>2, <2>1, <3>1, <3>3
  <2> QED
    BY <2>2, <2>3
<1>6. ASSUME NEW i \in Items(s)
      PROVE  i \in Merged(s)
  <2>1. i[1] \in Member(s)
    BY CompleteCovers
  <2>2. i \in MergedOver(s)
    <3>1. CASE i \in Changes(s)
      BY <3>1 DEF MergedOver
    <3>2. CASE i \notin Changes(s)
      <4>1. i \in current
        BY <1>4, <3>2
      <4>2. \A c \in Changes(s) : c[1] # i[1]
        BY <1>3, <3>2, ContentFacts
      <4> QED
        BY <4>1, <4>2 DEF MergedOver
    <3> QED
      BY <3>1, <3>2
  <2> QED
    BY <2>1, <2>2 DEF Merged
<1> QED
  BY <1>5, <1>6

\* A complete transfer has a batch at offset 0.
LEMMA CompleteFromZero ==
  ASSUME NEW s \in Snapshots, ReceiptsTyped, Complete(s), Total(s) # 0
  PROVE  \E r \in Of(s) : r.offset = 0
<1>1. Content[s][1] \in Items(s)
  BY ContentFacts
<1>2. PICK r \in Of(s) : Content[s][1] \in Slice(s, r.offset, r.count)
  BY <1>1, CompleteCovers
<1>3. r.offset \in Nat /\ r.count \in Nat
  BY <1>2 DEF ReceiptsTyped, ReceiptRow, Of
<1> QED
  BY <1>2, <1>3, SliceFacts

-----------------------------------------------------------------------------
(* The steps.                                                                 *)

\* An idle client, and the file after an activation.
LEMMA IdleTyped ==
  /\ Idle \in ClientRow /\ Idle.step = "idle"
  /\ \A s \in Named : /\ [active |-> s, debt |-> FALSE] \in [active : Named, debt : BOOLEAN]
                       /\ [active |-> s, debt |-> FALSE].active = s
BY DEF Idle, ClientRow, Named

\* What the worker stores stays as it is when no request runs.
LEMMA StoreStays ==
  ASSUME NEW b, UNCHANGED <<receipts, transfers, active>>, UNCHANGED manifest
  PROVE  /\ TransfersGrounded => TransfersGrounded'
         /\ PublishedGrounded(b) => PublishedGrounded(b)'
         /\ ReceiptsTyped => ReceiptsTyped'
         /\ TransfersTyped => TransfersTyped'
         /\ Grounded(manifest, active) => Grounded(manifest, active)'
         /\ Grounded(manifest, b) => Grounded(manifest, b)'
         /\ Of(manifest)' = Of(manifest)
         /\ Unprepared' = Unprepared
BY DEF TransfersGrounded, PublishedGrounded, ReceiptsTyped, TransfersTyped, Grounded, Of,
  Unprepared

\* A client that leaves the file alone, sends at most the request of its step, or
\* stops and leaves its request to run late, changes nothing of a generation.
LEMMA ClientStep ==
  ASSUME NEW b \in Named, Core(b), UNCHANGED store, UNCHANGED <<manifest, file>>,
         ledger' \in 1..Len(History), Typed', CallsFollow', ReadsGrounded(b)',
         client'.step \in {client.step, "idle"},
         client.step \in {"idle", "cleanup"} => \A c \in calls' :
           c.op = "cleanup" \/ \E d \in calls : d.op = c.op
  PROVE  Core(b)'
<1>1. TransfersGrounded' /\ PublishedGrounded(b)'
  BY StoreStays DEF Core, Generation, store
<1>2. current' = Base(active')
  BY DEF Core, store
<1>3. OneStep(b)'
  BY DEF Core, Generation, OneStep, store
<1>4. LeftReceiptsGo'
  <2>1. Unprepared' = Unprepared /\ Of(manifest)' = Of(manifest)
    BY StoreStays DEF store
  <2> QED
    BY <2>1 DEF Core, LeftReceiptsGo, store
<1> QED
  BY <1>1, <1>2, <1>3, <1>4 DEF Core, Generation

\* A request the client sends is the one of its step, and the only one awaited.
LEMMA SendStep ==
  ASSUME NEW b \in Named, Core(b),
         NEW c \in CallRow, c.late = FALSE, c.read = FALSE, ~Waiting, Send(c),
         UNCHANGED <<store, disk, client>>,
         \/ c.op = "cleanup" /\ client.step = "cleanup" /\ c.snap = file.active
         \/ c.op = "prepare" /\ client.step = "prepare" /\ c.snap = client.snap
         \/ c.op = "activate" /\ client.step = "stage" /\ c.snap = client.snap
         \/ /\ c.op = "stage" /\ client.step = "stage" /\ c.snap = client.snap
            /\ c.from < Total(client.snap) /\ c.from + c.count <= Total(client.snap)
  PROVE  Core(b)'
<1>1. /\ client' = client /\ file' = file /\ manifest' = manifest /\ ledger' = ledger
      /\ calls' = calls \cup {c} /\ receipts' = receipts /\ active' = active
  BY DEF Send, store, disk
<1>2. Typed'
  BY <1>1, StoreStays DEF Core, Typed, store
<1>3. client.snap = manifest /\ manifest # Nil
  BY DEF Core, Typed
<1>4. \A d \in calls : d.late
  BY DEF Waiting
<1>5. CallsFollow'
  <2>1. ASSUME NEW d \in calls'
        PROVE  /\ d \in CallRow
               /\ manifest # Nil
               /\ d.op # "cleanup" => d.snap = manifest
               /\ d.op = "stage" => d.from < Total(manifest) /\ d.from + d.count <= Total(manifest)
               /\ d.op = "prepare" /\ d.read => d.prefix <= Total(manifest)
    <3>1. CASE d = c
      BY <1>3, <3>1
    <3>2. CASE d \in calls
      BY <3>2 DEF Core, CallsFollow
    <3> QED
      BY <1>1, <2>1, <3>1, <3>2
  <2>2. ASSUME NEW d \in calls', ~d.late
        PROVE  /\ d.op = "cleanup" => client.step = "cleanup" /\ d.snap = file.active
               /\ d.op = "prepare" => client.step = "prepare"
               /\ d.op \in {"stage", "activate"} => client.step = "stage"
               /\ d = c
    <3>1. d = c
      BY <1>1, <1>4, <2>2
    <3> QED
      BY <3>1
  <2> QED
    BY <1>1, <2>1, <2>2 DEF CallsFollow
<1>6. ReadsGrounded(b)'
  <2>1. ASSUME NEW d \in calls', d.op = "prepare", d.read
        PROVE  d.base = b /\ (d.prefix # 0 => Grounded(manifest, b)')
    <3>1. d \in calls
      BY <1>1, <2>1
    <3>2. Grounded(manifest, b) => Grounded(manifest, b)'
      BY <1>1 DEF Grounded, Of
    <3> QED
      BY <2>1, <3>1, <3>2 DEF Core, Generation, ReadsGrounded
  <2> QED
    BY <2>1 DEF ReadsGrounded
<1>7. client.step \in {"idle", "cleanup"} => \A d \in calls' :
        d.op = "cleanup" \/ \E e \in calls : e.op = d.op
  BY <1>1
<1> QED
  BY <1>1, <1>2, <1>5, <1>6, <1>7, ClientStep DEF store, disk, Core, Typed

\* Each request of a cycle, and the pause after the pages of one.
LEMMA CycleStep ==
  ASSUME NEW b \in Named, Core(b),
         SendCleanup \/ SendPrepare \/ SendStage \/ SendActivate
  PROVE  Core(b)'
<1>0. \A op \in {"cleanup", "prepare", "stage", "activate"}, s \in Named, from, n \in Nat :
        /\ Call(op, s, from, n) \in CallRow
        /\ Call(op, s, from, n).op = op /\ Call(op, s, from, n).snap = s
        /\ Call(op, s, from, n).from = from /\ Call(op, s, from, n).count = n
        /\ Call(op, s, from, n).late = FALSE /\ Call(op, s, from, n).read = FALSE
  BY DEF Call, CallRow, Named
<1>t. file.active \in Named /\ client.snap \in Named
  BY DEF Core, Typed, ClientRow
<1>z. 0 \in Nat
  OBVIOUS
<1>1. CASE SendCleanup
  <2> DEFINE c == Call("cleanup", file.active, 0, 0)
  <2>1. /\ c \in CallRow /\ c.op = "cleanup" /\ c.snap = file.active
        /\ c.late = FALSE /\ c.read = FALSE
    BY <1>0, <1>t, <1>z
  <2>2. /\ Send(c) /\ ~Waiting /\ client.step = "cleanup"
        /\ UNCHANGED <<store, disk, client>>
    BY <1>1 DEF SendCleanup, Ready
  <2> HIDE DEF c
  <2> QED
    BY <2>1, <2>2, SendStep
<1>2. CASE SendPrepare
  <2> DEFINE c == Call("prepare", client.snap, 0, 0)
  <2>1. /\ c \in CallRow /\ c.op = "prepare" /\ c.snap = client.snap
        /\ c.late = FALSE /\ c.read = FALSE
    BY <1>0, <1>t, <1>z
  <2>2. /\ Send(c) /\ ~Waiting /\ client.step = "prepare"
        /\ UNCHANGED <<store, disk, client>>
    BY <1>2 DEF SendPrepare, Ready
  <2> HIDE DEF c
  <2> QED
    BY <2>1, <2>2, SendStep
<1>3. CASE SendActivate
  <2> DEFINE c == Call("activate", client.snap, 0, 0)
  <2>1. /\ c \in CallRow /\ c.op = "activate" /\ c.snap = client.snap
        /\ c.late = FALSE /\ c.read = FALSE
    BY <1>0, <1>t, <1>z
  <2>2. /\ Send(c) /\ ~Waiting /\ client.step = "stage"
        /\ UNCHANGED <<store, disk, client>>
    BY <1>3 DEF SendActivate, Ready
  <2> HIDE DEF c
  <2> QED
    BY <2>1, <2>2, SendStep
<1>4. CASE SendStage
  <2>1. client.snap = manifest /\ manifest \in Snapshots /\ client.sent \in Nat
    BY <1>4 DEF SendStage, Ready, Core, Typed, Named, ClientRow
  <2>2. client.sent < Total(client.snap) /\ Total(client.snap) \in Nat
    BY <1>4, <2>1, ContentFacts DEF SendStage
  <2>3. Batch \in Nat /\ client.sent + Batch <= Total(client.snap)
    BY <2>1, <2>2, MinOfTwo, PageAssumption DEF Batch
  <2> DEFINE c == Call("stage", client.snap, client.sent, Batch)
  <2>4. /\ c \in CallRow /\ c.op = "stage" /\ c.snap = client.snap
        /\ c.from = client.sent /\ c.count = Batch /\ c.late = FALSE /\ c.read = FALSE
    BY <1>0, <1>t, <2>1, <2>3
  <2>5. /\ Send(c) /\ ~Waiting /\ client.step = "stage"
        /\ UNCHANGED <<store, disk, client>>
    BY <1>4 DEF SendStage, Ready
  <2> HIDE DEF c
  <2> QED
    BY <2>2, <2>3, <2>4, <2>5, SendStep
<1> QED
  BY <1>1, <1>2, <1>3, <1>4

\* A pause forgets the publication in the file, and a request given up runs late or
\* never.
LEMMA PauseStep ==
  ASSUME NEW b \in Named, Core(b), Pause
  PROVE  Core(b)'
<1>1. /\ file' = NoFile /\ client' = Idle /\ client.step = "stage" /\ calls' = calls
      /\ manifest' = manifest /\ ledger' = ledger /\ UNCHANGED store /\ \A c \in calls : c.late
  BY DEF Pause, Ready, Stop, Waiting
<1>2. Typed'
  BY <1>1, StoreStays DEF Core, Typed, store, NoFile, Idle, ClientRow, Named
<1>3. CallsFollow'
  BY <1>1 DEF Core, CallsFollow
<1>4. TransfersGrounded' /\ PublishedGrounded(b)' /\ current' = Base(active')
  BY <1>1, StoreStays DEF Core, Generation, store
<1>5. OneStep(b)'
  BY <1>1 DEF Core, Generation, OneStep, Typed, NoFile, store
<1>6. ReadsGrounded(b)'
  BY <1>1, StoreStays DEF Core, Generation, ReadsGrounded, store
<1>7. LeftReceiptsGo'
  <2>1. ~Unprepared
    BY <1>1 DEF Core, LeftReceiptsGo
  <2>2. Unprepared' = Unprepared
    BY <1>1, StoreStays DEF store
  <2> QED
    BY <2>1, <2>2 DEF LeftReceiptsGo
<1> QED
  BY <1>2, <1>3, <1>4, <1>5, <1>6, <1>7 DEF Core, Generation

LEMMA GiveUpStep ==
  ASSUME NEW b \in Named, Core(b), GiveUp
  PROVE  Core(b)'
<1>1. /\ file' = file /\ client' = Idle /\ manifest' = manifest /\ ledger' = ledger
      /\ UNCHANGED store /\ calls' = {[c EXCEPT !.late = TRUE] : c \in calls}
  BY DEF GiveUp, Stop, disk
<1>2. \A d \in calls' : \E c \in calls :
        /\ d \in CallRow /\ d.late /\ d.op = c.op /\ d.snap = c.snap /\ d.from = c.from
        /\ d.count = c.count /\ d.read = c.read /\ d.base = c.base /\ d.prefix = c.prefix
  <2>1. \A c \in calls : c \in CallRow
    BY DEF Core, CallsFollow
  <2> QED
    BY <1>1, <2>1 DEF CallRow
<1>3. Typed'
  BY <1>1, StoreStays DEF Core, Typed, store, Idle, ClientRow, Named
<1>4. CallsFollow'
  BY <1>1, <1>2 DEF Core, CallsFollow
<1>5. ReadsGrounded(b)'
  <2>1. ASSUME NEW d \in calls', d.op = "prepare", d.read
        PROVE  d.base = b /\ (d.prefix # 0 => Grounded(manifest, b)')
    BY <1>1, <1>2, <2>1, StoreStays DEF Core, Generation, ReadsGrounded, store
  <2> QED
    BY <2>1 DEF ReadsGrounded
<1>6. \A d \in calls' : d.op = "cleanup" \/ \E c \in calls : c.op = d.op
  BY <1>2
<1> QED
  BY <1>1, <1>3, <1>4, <1>5, <1>6, ClientStep DEF Idle, Core, Typed

LEMMA LoseStep ==
  ASSUME NEW b \in Named, Core(b), NEW c \in calls, Lose(c)
  PROVE  Core(b)'
<1>1. /\ file' = file /\ client' = client /\ manifest' = manifest /\ ledger' = ledger
      /\ UNCHANGED store /\ calls' \subseteq calls
  BY DEF Lose, disk
<1>2. Typed'
  BY <1>1, StoreStays DEF Core, Typed, store
<1>3. CallsFollow'
  BY <1>1 DEF Core, CallsFollow
<1>4. ReadsGrounded(b)'
  BY <1>1, StoreStays DEF Core, Generation, ReadsGrounded, store
<1> QED
  BY <1>1, <1>2, <1>3, <1>4, ClientStep DEF Core, Typed

\* A reader's page, a new revision of the ledger, and a step of no component.
LEMMA OutsideStep ==
  ASSUME NEW b \in Named, Core(b), UNCHANGED <<store, manifest, file, client, calls>>,
         ledger' \in 1..Len(History)
  PROVE  Core(b)'
<1>1. Typed'
  BY StoreStays DEF Core, Typed, store
<1>2. CallsFollow'
  BY DEF Core, CallsFollow
<1>3. ReadsGrounded(b)'
  BY StoreStays DEF Core, Generation, ReadsGrounded, store
<1> QED
  BY <1>1, <1>2, <1>3, ClientStep

\* A cycle resumes the frozen generation or freezes the next one.  The next one replaces
\* what is published now: every request of the last one has ended.
LEMMA BeginStep ==
  ASSUME NEW b \in Named, Core(b), Begin, ~Quick
  PROVE  \E d \in Named : Core(d)'
<1>1. /\ manifest' = Frozen /\ file' = file /\ calls' = calls /\ ledger' = ledger
      /\ UNCHANGED store /\ \A c \in calls : c.late
      /\ client'.snap = Frozen /\ client'.step \in {"cleanup", "prepare"}
      /\ client'.step = "prepare" => file.active = Nil
  BY DEF Begin, Waiting
<1>2. Frozen \in Snapshots /\ Frozen # Nil
  <2>1. History[ledger] \in Snapshots
    <3>1. ledger \in 1..Len(History)
      BY DEF Core, Typed
    <3>2. History \in Seq(Snapshots)
      BY ContentAssumption DEF Snapshots
    <3> QED
      BY <3>1, <3>2
  <2>2. Frozen \in Snapshots
    BY <2>1 DEF Frozen, Core, Typed, Named
  <2> QED
    BY <2>2, ContentFacts
<1>3. client' \in ClientRow
  BY <1>2, PageAssumption DEF Begin, ClientRow, Named
<1>4. Typed'
  <2>1. ReceiptsTyped' /\ TransfersTyped'
    BY <1>1 DEF Core, Typed, ReceiptsTyped, TransfersTyped, store
  <2> QED
    BY <1>1, <1>2, <1>3, <2>1 DEF Core, Typed, Named, store
<1>5. TransfersGrounded' /\ current' = Base(active')
  BY <1>1 DEF Core, TransfersGrounded, Grounded, Of, store
<1>6. CASE Frozen = manifest
  <2>1. CallsFollow'
    BY <1>1, <1>6 DEF Core, CallsFollow
  <2>2. PublishedGrounded(b)' /\ OneStep(b)' /\ ReadsGrounded(b)'
    <3>1. manifest' = manifest
      BY <1>1, <1>6
    <3> QED
      BY <1>1, <3>1, StoreStays DEF Core, Generation, OneStep, ReadsGrounded, store
  <2>3. LeftReceiptsGo'
    <3>1. manifest' = manifest
      BY <1>1, <1>6
    <3>2. Unprepared' = Unprepared /\ Of(manifest)' = Of(manifest)
      BY <1>1, <3>1, StoreStays DEF store
    <3>3. Unprepared => client'.step = "cleanup" /\ file.active = active /\ active # Nil
      BY <1>1 DEF Core, LeftReceiptsGo
    <3> QED
      BY <1>1, <3>1, <3>2, <3>3 DEF Core, LeftReceiptsGo, store
  <2> QED
    BY <1>4, <1>5, <2>1, <2>2, <2>3 DEF Core, Generation
<1>7. CASE Frozen # manifest
  <2>1. calls = {} /\ \A r \in receipts : r.aged
    BY <1>1, <1>7 DEF Begin, Settled
  <2>2. manifest = Nil \/ manifest = file.active
    BY <1>7 DEF Frozen
  <2>3. active = manifest
    BY <2>2 DEF Core, Generation, OneStep
  <2>4. file.active = active \/ file.active = Nil
    BY <2>2, <2>3 DEF Core, Generation, OneStep
  <2>5. active \in Named
    BY DEF Core, Typed
  <2>6. OneStep(active)'
    BY <1>1, <1>2, <1>7, <2>3, <2>4, <2>5 DEF OneStep, store
  <2>7. PublishedGrounded(active)'
    BY <1>1, <1>7, <2>3 DEF PublishedGrounded, store
  <2>8. CallsFollow' /\ ReadsGrounded(active)'
    BY <1>1, <2>1 DEF CallsFollow, ReadsGrounded
  <2>9. LeftReceiptsGo'
    <3>1. CASE manifest = Nil
      <4>1. receipts = {} /\ DOMAIN transfers = {}
        BY <3>1 DEF Core, Generation, OneStep
      <4>2. Grounded(manifest, active)'
        BY <1>1, <4>1 DEF Grounded, Of, store
      <4> QED
        BY <1>1, <4>1, <4>2 DEF LeftReceiptsGo, Unprepared, store
    <3>2. CASE manifest # Nil
      <4>1. file.active = active /\ active # Nil
        BY <2>2, <2>3, <3>2
      <4>2. client'.step = "cleanup"
        BY <1>1, <4>1
      <4>3. \A r \in Of(manifest)' : r.aged
        BY <1>1, <2>1 DEF Of, store
      <4> QED
        BY <1>1, <2>1, <4>1, <4>2, <4>3 DEF LeftReceiptsGo, store
    <3> QED
      BY <3>1, <3>2
  <2>10. active' = active
    BY <1>1 DEF store
  <2>11. Core(active)'
    BY <1>4, <1>5, <2>6, <2>7, <2>8, <2>9 DEF Core, Generation
  <2>12. \E d \in Named : d = active' /\ Core(d)'
    BY <2>5, <2>10, <2>11
  <2> QED
    BY <2>12
<1> QED
  BY <1>6, <1>7

\* Receipts that only grow older keep what they hold.
LEMMA AgedStays ==
  ASSUME NEW b, ReceiptsTyped, receipts' = {[r EXCEPT !.aged = TRUE] : r \in receipts},
         UNCHANGED manifest
  PROVE  /\ ReceiptsTyped'
         /\ \A s : Grounded(s, b) => \A r \in receipts' : r.snap = s =>
              r.changes = Slice(s, r.offset, r.count) \ Base(b)
         /\ \A r \in receipts : \E q \in receipts' : q.snap = r.snap /\ q.offset = r.offset
         /\ \A q \in receipts' : q.aged
<1>1. \A q \in receipts' : \E r \in receipts : q = [r EXCEPT !.aged = TRUE]
  OBVIOUS
<1>2. \A r \in receipts : r \in ReceiptRow
  BY DEF ReceiptsTyped
<1>3. \A q \in receipts' : \E r \in receipts :
        /\ q = [r EXCEPT !.aged = TRUE] /\ q \in ReceiptRow /\ q.aged
        /\ q.snap = r.snap /\ q.offset = r.offset /\ q.count = r.count
        /\ q.keys = r.keys /\ q.changes = r.changes
  BY <1>1, <1>2 DEF ReceiptRow
<1>4. \A r \in receipts : [r EXCEPT !.aged = TRUE] \in receipts'
  OBVIOUS
<1>5. \A r \in receipts : \E q \in receipts' : q.snap = r.snap /\ q.offset = r.offset
  BY <1>2, <1>4 DEF ReceiptRow
<1>6. ReceiptsTyped'
  <2>1. ASSUME NEW q \in receipts'
        PROVE  /\ q \in ReceiptRow
               /\ q.offset + q.count <= Total(q.snap)
               /\ q.keys = {i[1] : i \in Slice(q.snap, q.offset, q.count)}
    BY <1>3 DEF ReceiptsTyped
  <2>2. ASSUME NEW p \in receipts', NEW q \in receipts', p.snap = q.snap, p.offset = q.offset
        PROVE  p = q
    <3>1. PICK r \in receipts : p = [r EXCEPT !.aged = TRUE] /\ p.snap = r.snap /\ p.offset = r.offset
      BY <1>3
    <3>2. PICK t \in receipts : q = [t EXCEPT !.aged = TRUE] /\ q.snap = t.snap /\ q.offset = t.offset
      BY <1>3
    <3>3. r = t
      BY <2>2, <3>1, <3>2 DEF ReceiptsTyped
    <3> QED
      BY <3>1, <3>2, <3>3
  <2> QED
    BY <2>1, <2>2 DEF ReceiptsTyped
<1>7. ASSUME NEW s, Grounded(s, b), NEW q \in receipts', q.snap = s
      PROVE  q.changes = Slice(s, q.offset, q.count) \ Base(b)
  BY <1>3, <1>7 DEF Grounded, Of
<1> QED
  BY <1>3, <1>5, <1>6, <1>7

\* Time passes for the receipts, and a transfer that lasted a day expires.
LEMMA TimeStep ==
  ASSUME NEW b \in Named, Core(b), UNCHANGED <<current, active, manifest, ledger, file, client>>,
         calls' = calls,
         receipts' = {[r EXCEPT !.aged = TRUE] : r \in receipts},
         DOMAIN transfers' = DOMAIN transfers,
         \A s \in DOMAIN transfers :
           /\ transfers'[s] \in TransferRow
           /\ transfers'[s].base = transfers[s].base
           /\ transfers'[s].next = transfers[s].next,
         transfers' = transfers \/ (calls = {} /\ client.step = "idle")
  PROVE  Core(b)'
<1>1. ReceiptsTyped /\ TransfersTyped
  BY DEF Core, Typed
<1>2. ReceiptsTyped'
  BY <1>1, AgedStays
<1>g. ASSUME NEW s, NEW d, Grounded(s, d)
      PROVE  \A r \in receipts' : r.snap = s =>
               r.changes = Slice(s, r.offset, r.count) \ Base(d)
  BY <1>1, <1>g, AgedStays
<1>3. Typed'
  BY <1>1, <1>2 DEF Core, Typed, TransfersTyped
<1>h. ASSUME NEW d, Grounded(manifest, d)
      PROVE  \A r \in Of(manifest)' : r.changes = Slice(manifest, r.offset, r.count) \ Base(d)
  <2>1. \A r \in receipts' : r.snap = manifest =>
           r.changes = Slice(manifest, r.offset, r.count) \ Base(d)
    BY <1>g, <1>h
  <2> QED
    BY <2>1 DEF Of
<1>4. TransfersGrounded'
  <2>1. ASSUME NEW s \in DOMAIN transfers, transfers[s].base # s
        PROVE  Grounded(s, transfers[s].base)'
    <3>1. Grounded(s, transfers[s].base)
      BY <2>1 DEF Core, TransfersGrounded
    <3>2. \A r \in receipts' : r.snap = s =>
            r.changes = Slice(s, r.offset, r.count) \ Base(transfers[s].base)
      BY <1>g, <3>1
    <3> QED
      BY <3>2 DEF Grounded, Of
  <2> QED
    BY <2>1 DEF TransfersGrounded
<1>5. PublishedGrounded(b)'
  <2>1. SUFFICES ASSUME active = manifest, manifest # Nil
                 PROVE  PublishedGrounded(b)'
    BY DEF PublishedGrounded
  <2>2. Grounded(manifest, b)'
    <3>1. Grounded(manifest, b)
      BY <2>1 DEF Core, Generation, PublishedGrounded
    <3>2. \A r \in Of(manifest)' : r.changes = Slice(manifest, r.offset, r.count) \ Base(b)
      BY <1>h, <3>1
    <3> QED
      BY <3>2 DEF Grounded
  <2>3. (\E r \in Of(manifest) : r.offset = 0) => \E r \in Of(manifest)' : r.offset = 0
    BY <1>1, AgedStays DEF Of
  <2> QED
    BY <2>1, <2>2, <2>3 DEF Core, Generation, PublishedGrounded
<1>6. OneStep(b)'
  <2>1. receipts = {} => receipts' = {}
    OBVIOUS
  <2> QED
    BY <2>1 DEF Core, Generation, OneStep
<1>7. LeftReceiptsGo'
  <2>1. Grounded(manifest, active) => Grounded(manifest, active)'
    <3>1. SUFFICES ASSUME Grounded(manifest, active)
                   PROVE  Grounded(manifest, active)'
      OBVIOUS
    <3>2. \A r \in Of(manifest)' : r.changes = Slice(manifest, r.offset, r.count) \ Base(active)
      BY <1>h, <3>1
    <3> QED
      BY <3>2 DEF Grounded
  <2>2. \A r \in Of(manifest)' : r.aged
    BY <1>1, AgedStays DEF Of
  <2>3. Unprepared' => Unprepared
    BY <2>1 DEF Unprepared
  <2> QED
    BY <2>2, <2>3 DEF Core, LeftReceiptsGo
<1>8. ReadsGrounded(b)'
  <2>1. Grounded(manifest, b) => Grounded(manifest, b)'
    <3>1. SUFFICES ASSUME Grounded(manifest, b)
                   PROVE  Grounded(manifest, b)'
      OBVIOUS
    <3>2. \A r \in Of(manifest)' : r.changes = Slice(manifest, r.offset, r.count) \ Base(b)
      BY <1>h, <3>1
    <3> QED
      BY <3>2 DEF Grounded
  <2> QED
    BY <2>1 DEF Core, Generation, ReadsGrounded
<1>9. CallsFollow'
  BY DEF Core, CallsFollow
<1> QED
  BY <1>3, <1>4, <1>5, <1>6, <1>7, <1>8, <1>9 DEF Core, Generation

\* The client hears of an answer only while it waits for it.
LEMMA AnswerCalls ==
  ASSUME NEW b \in Named, Core(b), NEW c \in calls, calls' = calls \ {c},
         UNCHANGED manifest, c.late => UNCHANGED <<client, file>>
  PROVE  CallsFollow'
<1>1. \A d \in calls' :
        /\ d \in CallRow
        /\ manifest' # Nil
        /\ d.op # "cleanup" => d.snap = manifest'
        /\ d.op = "stage" => d.from < Total(manifest') /\ d.from + d.count <= Total(manifest')
        /\ d.op = "prepare" /\ d.read => d.prefix <= Total(manifest')
  BY DEF Core, CallsFollow
<1>2. CASE c.late
  BY <1>2 DEF Core, CallsFollow
<1>3. CASE ~c.late
  <2>1. \A d \in calls' : d.late
    BY <1>3 DEF Core, CallsFollow
  <2> QED
    BY <1>1, <2>1 DEF CallsFollow
<1> QED
  BY <1>2, <1>3

\* Receipts that go leave the others as they are.
LEMMA FewerReceipts ==
  ASSUME receipts' \subseteq receipts, UNCHANGED manifest
  PROVE  /\ ReceiptsTyped => ReceiptsTyped'
         /\ \A s, d : Grounded(s, d) => \A r \in receipts' : r.snap = s =>
              r.changes = Slice(s, r.offset, r.count) \ Base(d)
         /\ \A d : Grounded(manifest, d) => \A r \in Of(manifest)' :
              r.changes = Slice(manifest, r.offset, r.count) \ Base(d)
BY DEF ReceiptsTyped, Grounded, Of

\* A cleanup leaves the published snapshot's rows and the transfers in progress.
LEMMA CleanupEffect ==
  ASSUME NEW gone, Cleanup(gone)
  PROVE  /\ receipts' \subseteq receipts
         /\ \A r \in receipts : r.snap = active => r \in receipts'
         /\ DOMAIN transfers' \subseteq DOMAIN transfers
         /\ \A s \in DOMAIN transfers' :
              /\ transfers'[s] = transfers[s]
              /\ s # active => ~transfers[s].old
         /\ \A s \in DOMAIN transfers : s \notin DOMAIN transfers' =>
              transfers[s].old /\ s # active
<1>1. receipts' = receipts \ gone /\ gone \subseteq Garbage
  BY DEF Cleanup
<1>2. \A r \in Garbage : r.snap # active
  BY DEF Garbage, Obsolete
<1>3. transfers' = Restrict(transfers, DOMAIN transfers \ Abandoned)
  BY DEF Cleanup
<1>4. DOMAIN transfers' = DOMAIN transfers \ Abandoned
      /\ \A s \in DOMAIN transfers' : transfers'[s] = transfers[s]
  BY <1>3 DEF Restrict
<1> QED
  BY <1>1, <1>2, <1>4 DEF Abandoned

\* What an answer to a cleanup does.
LEMMA AfterCleanupEffect ==
  ASSUME NEW ok, NEW pending, AfterCleanup(ok, pending), Typed
  PROVE  /\ file' \in [active : Named, debt : BOOLEAN] /\ file'.active = file.active
         /\ client' \in ClientRow
         /\ client'.step # "idle" => client'.snap = client.snap /\ client'.step \in {client.step, "prepare"}
         /\ client'.step = client.step \/ client'.step = "idle" \/ ~ok \/ ~pending
<1>1. file \in [active : Named, debt : BOOLEAN] /\ client \in ClientRow
  BY DEF Typed
<1> DEFINE prep == client' = [client EXCEPT !.step = "prepare", !.left = PAGES]
           file1 == file' = file \/ file' = [file EXCEPT !.debt = FALSE]
                      \/ file' = [file EXCEPT !.debt = TRUE]
<1>2. /\ file1
      /\ \/ prep /\ (~ok \/ ~pending)
         \/ client' = [client EXCEPT !.left = @ - 1]
         \/ client' = Idle
  BY Zenon DEF AfterCleanup, Stop
<1>3. file' \in [active : Named, debt : BOOLEAN] /\ file'.active = file.active
  BY <1>1, <1>2
<1>4. ASSUME prep \/ client' = [client EXCEPT !.left = @ - 1] \/ client' = Idle
      PROVE  /\ client' \in ClientRow
             /\ client'.step # "idle" =>
                  client'.snap = client.snap /\ client'.step \in {client.step, "prepare"}
             /\ prep \/ client'.step = client.step \/ client'.step = "idle"
  <2>1. CASE prep
    <3>1. PAGES \in Int
      BY PageAssumption
    <3>2. client' \in ClientRow
      BY <1>1, <2>1, <3>1 DEF ClientRow
    <3>3. client'.snap = client.snap /\ client'.step = "prepare"
      BY <1>1, <2>1 DEF ClientRow
    <3> QED
      BY <2>1, <3>2, <3>3
  <2>2. CASE client' = [client EXCEPT !.left = @ - 1]
    BY <1>1, <2>2 DEF ClientRow
  <2>3. CASE client' = Idle
    BY <2>3 DEF ClientRow, Idle, Named
  <2> QED
    BY <1>4, <2>1, <2>2, <2>3
<1>5. CASE prep /\ (~ok \/ ~pending)
  BY <1>3, <1>4, <1>5
<1>6. CASE client' = [client EXCEPT !.left = @ - 1] \/ client' = Idle
  <2>1. client'.step = client.step \/ client'.step = "idle"
    BY <1>1, <1>6 DEF ClientRow, Idle
  <2> QED
    BY <1>3, <1>4, <1>6, <2>1
<1> QED
  BY <1>2, <1>5, <1>6

\* A cleanup of another publication than the active one changes nothing, and the
\* client goes on; only the file's own publication is cleaned while it waits.
LEMMA RunCleanupStep ==
  ASSUME NEW b \in Named, Core(b), NEW c \in calls, RunCleanup(c),
         UNCHANGED <<ledger, manifest>>
  PROVE  Core(b)'
<1>1. /\ calls' = calls \ {c} /\ active' = active /\ current' = current /\ c.op = "cleanup"
      /\ c.late => UNCHANGED <<client, file>>
  BY DEF RunCleanup, Answer, Unheard
<1>2. CallsFollow'
  BY <1>1, AnswerCalls
<1>3. \/ /\ c.snap # active /\ UNCHANGED <<receipts, transfers>>
         /\ ~c.late => AfterCleanup(FALSE, FALSE)
      \/ /\ c.snap = active
         /\ \E gone : Cleanup(gone) /\ (~c.late => AfterCleanup(TRUE, gone # Garbage))
  BY DEF RunCleanup, Answer
<1>4. ~c.late => client.step = "cleanup" /\ c.snap = file.active
  BY <1>1 DEF Core, CallsFollow
<1>5. /\ file' \in [active : Named, debt : BOOLEAN] /\ file'.active = file.active
      /\ client' \in ClientRow
      /\ client'.step # "idle" => client'.snap = manifest /\ manifest # Nil
      /\ ~c.late => client'.step \in {"idle", "cleanup", "prepare"}
  <2>1. CASE c.late
    BY <1>1, <2>1 DEF Core, Typed
  <2>2. CASE ~c.late
    <3>1. PICK ok, pending : AfterCleanup(ok, pending)
      BY <1>3, <2>2
    <3> QED
      BY <1>4, <2>2, <3>1, AfterCleanupEffect DEF Core, Typed
  <2> QED
    BY <2>1, <2>2
<1>6. /\ receipts' \subseteq receipts
      /\ \A r \in receipts : r.snap = active => r \in receipts'
      /\ DOMAIN transfers' \subseteq DOMAIN transfers
      /\ \A s \in DOMAIN transfers' : transfers'[s] = transfers[s]
      /\ \A s \in DOMAIN transfers : s \notin DOMAIN transfers' => transfers[s].old /\ s # active
  BY <1>3, CleanupEffect
<1>7. Typed'
  BY <1>1, <1>5, <1>6, FewerReceipts DEF Core, Typed, TransfersTyped
<1>8. TransfersGrounded'
  <2>1. ASSUME NEW s \in DOMAIN transfers', transfers'[s].base # s
        PROVE  Grounded(s, transfers[s].base)'
    <3>1. Grounded(s, transfers[s].base)
      BY <1>6, <2>1 DEF Core, TransfersGrounded
    <3>2. \A r \in receipts' : r.snap = s =>
            r.changes = Slice(s, r.offset, r.count) \ Base(transfers[s].base)
      BY <1>6, <3>1, FewerReceipts
    <3> QED
      BY <1>6, <3>2 DEF Grounded, Of
  <2> QED
    BY <2>1 DEF TransfersGrounded
<1>9. ASSUME NEW d, Grounded(manifest, d)
      PROVE  \A r \in Of(manifest)' : r.changes = Slice(manifest, r.offset, r.count) \ Base(d)
  BY <1>6, <1>9, FewerReceipts
<1>10. PublishedGrounded(b)'
  <2>1. SUFFICES ASSUME active = manifest, manifest # Nil
                 PROVE  PublishedGrounded(b)'
    BY <1>1 DEF PublishedGrounded
  <2>2. Grounded(manifest, b)'
    <3>1. Grounded(manifest, b)
      BY <2>1 DEF Core, Generation, PublishedGrounded
    <3>2. \A r \in Of(manifest)' : r.changes = Slice(manifest, r.offset, r.count) \ Base(b)
      BY <1>9, <3>1
    <3> QED
      BY <3>2 DEF Grounded
  <2>3. \A r \in Of(manifest) : r \in Of(manifest)'
    BY <1>6, <2>1 DEF Of
  <2>4. manifest \in DOMAIN transfers <=> manifest \in DOMAIN transfers'
    BY <1>6, <2>1
  <2> QED
    BY <1>1, <1>6, <2>1, <2>2, <2>3, <2>4 DEF Core, Generation, PublishedGrounded
<1>11. OneStep(b)'
  <2>1. receipts = {} => receipts' = {}
    BY <1>6
  <2>2. DOMAIN transfers = {} => DOMAIN transfers' = {}
    BY <1>6
  <2> QED
    BY <1>1, <1>5, <2>1, <2>2 DEF Core, Generation, OneStep
<1>12. ReadsGrounded(b)'
  <2>1. Grounded(manifest, b) => Grounded(manifest, b)'
    <3>1. SUFFICES ASSUME Grounded(manifest, b)
                   PROVE  Grounded(manifest, b)'
      OBVIOUS
    <3>2. \A r \in Of(manifest)' : r.changes = Slice(manifest, r.offset, r.count) \ Base(b)
      BY <1>9, <3>1
    <3> QED
      BY <3>2 DEF Grounded
  <2> QED
    BY <1>1, <2>1 DEF Core, Generation, ReadsGrounded
<1>13. LeftReceiptsGo'
  <2>1. SUFFICES ASSUME Unprepared'
                 PROVE  LeftReceiptsGo'
    BY DEF LeftReceiptsGo
  <2>2. active # manifest
    BY <1>1, <2>1 DEF Unprepared
  <2>3. Grounded(manifest, active) => Grounded(manifest, active)'
    <3>1. SUFFICES ASSUME Grounded(manifest, active)
                   PROVE  Grounded(manifest, active)'
      OBVIOUS
    <3>2. \A r \in Of(manifest)' : r.changes = Slice(manifest, r.offset, r.count) \ Base(active)
      BY <1>9, <3>1
    <3> QED
      BY <1>1, <3>2 DEF Grounded
  <2>4. Unprepared
    <3>1. CASE manifest \in DOMAIN transfers'
      BY <1>1, <1>6, <2>1, <3>1 DEF Unprepared
    <3>2. CASE manifest \notin DOMAIN transfers'
      <4>1. ~Grounded(manifest, active)
        BY <1>1, <2>1, <2>3, <3>2 DEF Unprepared
      <4>2. manifest \in DOMAIN transfers => transfers[manifest].base # active
        BY <2>2, <4>1 DEF Core, TransfersGrounded
      <4> QED
        BY <2>2, <4>1, <4>2 DEF Unprepared
    <3> QED
      BY <3>1, <3>2
  <2>5. file.active = active /\ active # Nil /\ client.step # "stage"
    BY <2>4 DEF Core, LeftReceiptsGo
  <2> DEFINE loose == manifest \notin DOMAIN transfers' \/ transfers'[manifest].old
  <2>6. ASSUME loose
        PROVE  /\ client.step \in {"idle", "cleanup"}
               /\ \A d \in calls : d.op = "cleanup"
               /\ \A r \in Of(manifest) : r.aged
               /\ manifest \in DOMAIN transfers => transfers[manifest].old
    <3>1. manifest \in DOMAIN transfers => transfers[manifest].old
      BY <1>6, <2>6
    <3>2. manifest \notin DOMAIN transfers \/ transfers[manifest].old
      BY <3>1
    <3> QED
      BY <2>4, <3>1, <3>2 DEF Core, LeftReceiptsGo
  <2>7. ASSUME loose
        PROVE  client'.step # "prepare"
    <3>1. SUFFICES ASSUME client'.step = "prepare"
                   PROVE  FALSE
      OBVIOUS
    <3>2. ~c.late
      BY <1>1, <2>6, <2>7, <3>1
    <3>3. PICK gone : Cleanup(gone) /\ AfterCleanup(TRUE, gone # Garbage)
      BY <1>3, <1>4, <2>5, <3>2
    <3>4. gone = Garbage
      BY <1>4, <3>1, <3>2, <3>3, AfterCleanupEffect DEF Core
    <3>5. Of(manifest) \subseteq Garbage
      BY <2>2, <2>6, <2>7 DEF Garbage, Obsolete, Of
    <3>6. Of(manifest)' = {}
      BY <3>3, <3>4, <3>5 DEF Cleanup, Of
    <3>7. manifest \in DOMAIN transfers'
      BY <2>1, <3>6 DEF Unprepared, Grounded
    <3> QED
      BY <2>2, <2>7, <3>3, <3>7, CleanupEffect
  <2>8. client'.step # "stage"
    BY <1>1, <1>5, <2>5
  <2>9. loose => /\ client'.step \in {"idle", "cleanup"}
                 /\ \A d \in calls' : d.op = "cleanup"
                 /\ \A r \in Of(manifest)' : r.aged
    <3>1. Of(manifest)' \subseteq Of(manifest)
      BY <1>6 DEF Of
    <3> QED
      BY <1>1, <1>5, <2>6, <2>7, <2>8, <3>1 DEF ClientRow
  <2> QED
    BY <1>1, <1>5, <2>5, <2>8, <2>9 DEF LeftReceiptsGo
<1> QED
  BY <1>1, <1>2, <1>7, <1>8, <1>10, <1>11, <1>12, <1>13 DEF Core, Generation

\* A preparation reads the prefix that counts against what is published.
LEMMA ReadPrepareStep ==
  ASSUME NEW b \in Named, Core(b), NEW c \in calls, ReadPrepare(c),
         UNCHANGED <<ledger, manifest>>
  PROVE  Core(b)'
<1>1. /\ UNCHANGED store /\ UNCHANGED <<receipts, transfers, active>> /\ current' = current
      /\ c.op = "prepare" /\ ~c.read /\ c \in CallRow
      /\ c.snap = manifest /\ manifest # Nil /\ manifest \in Snapshots
  BY DEF ReadPrepare, store, Core, CallsFollow, Typed, Named
<1>2. ~c.late => client.step = "prepare" /\ client.snap = manifest
  BY <1>1 DEF Core, CallsFollow, Typed
<1>3. ReceiptsTyped' /\ TransfersTyped' /\ TransfersGrounded' /\ PublishedGrounded(b)'
      /\ Unprepared' = Unprepared /\ Of(manifest)' = Of(manifest)
      /\ (Grounded(manifest, b) => Grounded(manifest, b)')
  BY <1>1, StoreStays DEF Core, Typed, Generation
<1>4. CASE active = manifest
  <2>1. /\ calls' = calls \ {c}
        /\ \/ c.late /\ UNCHANGED <<client, file>>
           \/ ~c.late /\ client' = Idle /\ file' = [active |-> client.snap, debt |-> FALSE]
    BY <1>1, <1>4 DEF ReadPrepare, Answer, Unheard, AfterPrepare, Stop
  <2>2. CallsFollow'
    BY <2>1, AnswerCalls
  <2>3. Typed'
    <3>1. /\ client' \in ClientRow /\ file' \in [active : Named, debt : BOOLEAN]
          /\ client'.step # "idle" => client'.snap = client.snap /\ client.step # "idle"
      <4>1. CASE c.late
        BY <2>1, <4>1 DEF Core, Typed
      <4>2. CASE ~c.late
        <5>1. client.snap \in Named
          BY DEF Core, Typed, ClientRow
        <5> QED
          BY <2>1, <4>2, <5>1, IdleTyped
      <4> QED
        BY <4>1, <4>2
    <3> QED
      BY <1>1, <1>3, <3>1 DEF Core, Typed
  <2>4. OneStep(b)'
    BY <1>1, <1>2, <1>4, <2>1 DEF Core, Generation, OneStep
  <2>5. LeftReceiptsGo'
    BY <1>1, <1>4 DEF LeftReceiptsGo, Unprepared
  <2>6. ReadsGrounded(b)'
    BY <1>3, <2>1 DEF Core, Generation, ReadsGrounded
  <2> QED
    BY <1>1, <1>3, <2>2, <2>3, <2>4, <2>5, <2>6 DEF Core, Generation
<1>5. CASE active # manifest
  <2> DEFINE d == [c EXCEPT !.read = TRUE, !.base = active, !.prefix = Usable(c.snap)]
  <2>1. calls' = (calls \ {c}) \cup {d} /\ UNCHANGED <<client, file>>
    BY <1>1, <1>5 DEF ReadPrepare, Unheard
  <2>2. Usable(manifest) \in 0..Total(manifest) /\ Total(manifest) \in Nat
    BY <1>1, UsableFacts, ContentFacts DEF Core, Typed
  <2>3. active \in Named /\ active = b
    BY <1>5 DEF Core, Typed, Generation, OneStep
  <2>4. /\ d \in CallRow /\ d.op = "prepare" /\ d.snap = manifest /\ d.late = c.late
        /\ d.read = TRUE /\ d.base = b /\ d.prefix = Usable(manifest)
    <3>1. Usable(c.snap) \in Nat
      BY <1>1, <2>2
    <3>2. d \in CallRow
      BY <1>1, <2>3, <3>1 DEF CallRow
    <3>3. /\ d.op = c.op /\ d.snap = c.snap /\ d.late = c.late
          /\ d.read = TRUE /\ d.base = active /\ d.prefix = Usable(c.snap)
      BY <1>1 DEF CallRow
    <3> HIDE DEF d
    <3> QED
      BY <1>1, <2>3, <3>2, <3>3
  <2>5. d.prefix # 0 => Grounded(manifest, b)
    <3>1. d.prefix # 0 => manifest \in DOMAIN transfers /\ transfers[manifest].base = b
      BY <2>3, <2>4 DEF Usable
    <3>2. b # manifest
      BY <1>5, <2>3
    <3> QED
      BY <3>1, <3>2 DEF Core, TransfersGrounded
  <2> HIDE DEF d
  <2>6. CallsFollow'
    <3>1. ASSUME NEW e \in calls'
          PROVE  /\ e \in CallRow /\ manifest # Nil
                 /\ e.op # "cleanup" => e.snap = manifest
                 /\ e.op = "stage" => e.from < Total(manifest) /\ e.from + e.count <= Total(manifest)
                 /\ e.op = "prepare" /\ e.read => e.prefix <= Total(manifest)
      <4>1. CASE e = d
        BY <1>1, <2>2, <2>4, <4>1
      <4>2. CASE e \in calls
        BY <4>2 DEF Core, CallsFollow
      <4> QED
        BY <2>1, <4>1, <4>2
    <3>2. ASSUME NEW e \in calls', ~e.late
          PROVE  \E f \in calls : ~f.late /\ f.op = e.op /\ (e.op = "cleanup" => f.snap = e.snap)
                   /\ (e = f \/ (e = d /\ f = c))
      BY <1>1, <2>1, <2>4, <3>2
    <3>3. ASSUME NEW e \in calls', NEW f \in calls', ~e.late, ~f.late
          PROVE  e = f
      BY <2>1, <3>2, <3>3 DEF Core, CallsFollow
    <3>4. ASSUME NEW e \in calls', ~e.late
          PROVE  /\ e.op = "cleanup" => client.step = "cleanup" /\ e.snap = file.active
                 /\ e.op = "prepare" => client.step = "prepare"
                 /\ e.op \in {"stage", "activate"} => client.step = "stage"
      BY <3>2, <3>4 DEF Core, CallsFollow
    <3> QED
      BY <2>1, <3>1, <3>3, <3>4 DEF CallsFollow
  <2>7. ReadsGrounded(b)'
    BY <1>3, <2>1, <2>4, <2>5 DEF Core, Generation, ReadsGrounded
  <2>8. Typed' /\ OneStep(b)'
    BY <1>1, <1>3, <2>1 DEF Core, Typed, Generation, OneStep
  <2>9. LeftReceiptsGo'
    <3>1. Unprepared => ~(manifest \notin DOMAIN transfers \/ transfers[manifest].old)
      BY <1>1 DEF Core, LeftReceiptsGo
    <3> QED
      BY <1>1, <1>3, <2>1, <3>1 DEF Core, LeftReceiptsGo
  <2> QED
    BY <1>1, <1>3, <2>6, <2>7, <2>8, <2>9 DEF Core, Generation
<1> QED
  BY <1>4, <1>5

\* What the writes of a preparation do: the transfer counts against b from then on, and
\* keeps only receipts that are differences to b.
LEMMA PrepareEffect ==
  ASSUME NEW b \in Named, Core(b), NEW c \in calls, c.op = "prepare", c.read, Prepare(c),
         UNCHANGED <<current, active, manifest>>
  PROVE  /\ ReceiptsTyped' /\ TransfersTyped' /\ TransfersGrounded'
         /\ PublishedGrounded(b)' /\ ~Unprepared'
         /\ (Grounded(manifest, b) => Grounded(manifest, b)')
<1>1. /\ c \in CallRow /\ c.snap = manifest /\ manifest # Nil /\ manifest \in Snapshots
      /\ c.base = b /\ c.prefix \in Nat /\ c.prefix <= Total(manifest)
      /\ c.prefix # 0 => Grounded(manifest, b)
  BY DEF Core, CallsFollow, Typed, Named, CallRow, Generation, ReadsGrounded
<1>2. active \in {b, manifest} /\ b # manifest /\ active \in Named
  BY <1>1 DEF Core, Generation, OneStep, Typed
<1>3. ReceiptsTyped /\ TransfersTyped /\ TransfersGrounded
  BY DEF Core, Typed
<1>4. receipts' \subseteq receipts
  BY DEF Prepare
<1>5. ReceiptsTyped'
  BY <1>3, <1>4, FewerReceipts
<1>6. ASSUME NEW d, Grounded(manifest, d)
      PROVE  \A r \in Of(manifest)' : r.changes = Slice(manifest, r.offset, r.count) \ Base(d)
  BY <1>4, <1>6, FewerReceipts
<1>7. Grounded(manifest, b) => Grounded(manifest, b)'
  <2>1. SUFFICES ASSUME Grounded(manifest, b)
                 PROVE  Grounded(manifest, b)'
    OBVIOUS
  <2>2. \A r \in Of(manifest)' : r.changes = Slice(manifest, r.offset, r.count) \ Base(b)
    BY <1>6, <2>1
  <2> QED
    BY <2>2 DEF Grounded
<1>9. CASE manifest \notin DOMAIN transfers
  <2>1. /\ DOMAIN transfers' = DOMAIN transfers \cup {manifest}
        /\ transfers'[manifest] = [base |-> active, next |-> 0, old |-> FALSE]
        /\ \A t \in DOMAIN transfers : transfers'[t] = transfers[t] /\ t # manifest
        /\ receipts' = receipts
    BY <1>1, <1>9 DEF Prepare
  <2>2. transfers'[manifest] \in TransferRow /\ transfers'[manifest].base = active
        /\ transfers'[manifest].next = 0
    BY <1>2, <2>1 DEF TransferRow
  <2>3. TransfersTyped'
    <3>1. 0 <= Total(manifest)
      BY <1>1, ContentFacts
    <3>2. ASSUME NEW t \in DOMAIN transfers'
          PROVE  t \in Snapshots /\ transfers'[t] \in TransferRow /\ transfers'[t].next <= Total(t)
      <4>1. CASE t = manifest
        BY <1>1, <2>2, <3>1, <4>1
      <4>2. CASE t # manifest
        BY <1>3, <2>1, <3>2, <4>2 DEF TransfersTyped
      <4> QED
        BY <4>1, <4>2
    <3> QED
      BY <3>2 DEF TransfersTyped
  <2>4. active # manifest => Grounded(manifest, active)
    <3>1. ~Unprepared
      BY <1>9 DEF Core, LeftReceiptsGo
    <3> QED
      BY <1>9, <3>1 DEF Unprepared
  <2>5. TransfersGrounded'
    <3>1. ASSUME NEW t \in DOMAIN transfers', transfers'[t].base # t
          PROVE  Grounded(t, transfers[t].base)'
      <4>1. CASE t = manifest
        <5>1. Grounded(manifest, active)
          BY <2>2, <2>4, <3>1, <4>1
        <5>2. \A r \in Of(manifest)' : r.changes = Slice(manifest, r.offset, r.count) \ Base(active)
          BY <1>6, <5>1
        <5> QED
          BY <2>2, <4>1, <5>2 DEF Grounded, Of
      <4>2. CASE t # manifest
        <5>1. t \in DOMAIN transfers /\ transfers'[t] = transfers[t]
          BY <2>1, <3>1, <4>2
        <5>2. Grounded(t, transfers[t].base)
          BY <1>3, <3>1, <5>1 DEF TransfersGrounded
        <5>3. \A r \in receipts' : r.snap = t =>
                r.changes = Slice(t, r.offset, r.count) \ Base(transfers[t].base)
          BY <1>4, <5>2, FewerReceipts
        <5> QED
          BY <5>1, <5>3 DEF Grounded, Of
      <4> QED
        BY <4>1, <4>2
    <3> QED
      BY <3>1 DEF TransfersGrounded
  <2>6. PublishedGrounded(b)'
    <3>1. SUFFICES ASSUME active = manifest
                   PROVE  PublishedGrounded(b)'
      BY DEF PublishedGrounded
    <3>2. Grounded(manifest, b) /\ (Total(manifest) = 0 \/ \E r \in Of(manifest) : r.offset = 0)
      BY <1>1, <1>9, <3>1 DEF Core, Generation, PublishedGrounded
    <3>3. Of(manifest)' = Of(manifest)
      BY <2>1 DEF Of
    <3> QED
      BY <1>7, <2>2, <3>2, <3>3 DEF PublishedGrounded
  <2>7. ~Unprepared'
    BY <2>1, <2>2 DEF Unprepared
  <2> QED
    BY <1>5, <1>7, <2>3, <2>5, <2>6, <2>7
<1>10. CASE manifest \in DOMAIN transfers /\
         (c.prefix # transfers[manifest].next \/ transfers[manifest].base # c.base)
  <2>1. /\ DOMAIN transfers' = DOMAIN transfers
        /\ transfers'[manifest] = [base |-> b, next |-> c.prefix, old |-> FALSE]
        /\ \A t \in DOMAIN transfers : t # manifest => transfers'[t] = transfers[t]
        /\ receipts' = {r \in receipts : r.snap # manifest \/ r.offset < c.prefix}
    BY <1>1, <1>10 DEF Prepare
  <2>2. transfers'[manifest] \in TransferRow /\ transfers'[manifest].base = b
        /\ transfers'[manifest].next = c.prefix
    BY <1>1, <2>1 DEF TransferRow
  <2>3. TransfersTyped'
    BY <1>1, <1>3, <2>1, <2>2 DEF TransfersTyped
  <2>4. \A r \in Of(manifest)' : r.changes = Slice(manifest, r.offset, r.count) \ Base(b)
    <3>1. CASE c.prefix = 0
      <4>1. \A r \in receipts : r.offset \in Nat
        BY <1>3 DEF ReceiptsTyped, ReceiptRow
      <4>2. Of(manifest)' = {}
        BY <2>1, <3>1, <4>1 DEF Of
      <4> QED
        BY <4>2
    <3>2. CASE c.prefix # 0
      BY <1>1, <1>6, <3>2
    <3> QED
      BY <3>1, <3>2
  <2>5. TransfersGrounded'
    <3>1. ASSUME NEW t \in DOMAIN transfers', transfers'[t].base # t
          PROVE  Grounded(t, transfers[t].base)'
      <4>1. CASE t = manifest
        BY <2>2, <2>4, <4>1 DEF Grounded, Of
      <4>2. CASE t # manifest
        <5>1. t \in DOMAIN transfers /\ transfers'[t] = transfers[t]
          BY <2>1, <3>1, <4>2
        <5>2. Grounded(t, transfers[t].base)
          BY <1>3, <3>1, <5>1 DEF TransfersGrounded
        <5>3. \A r \in receipts' : r.snap = t =>
                r.changes = Slice(t, r.offset, r.count) \ Base(transfers[t].base)
          BY <1>4, <5>2, FewerReceipts
        <5> QED
          BY <5>1, <5>3 DEF Grounded, Of
      <4> QED
        BY <4>1, <4>2
    <3> QED
      BY <3>1 DEF TransfersGrounded
  <2>6. PublishedGrounded(b)'
    <3>1. Grounded(manifest, b)'
      BY <2>4 DEF Grounded
    <3>2. manifest \in DOMAIN transfers' /\ transfers'[manifest].base # manifest
      BY <1>2, <1>10, <2>1, <2>2
    <3> QED
      BY <3>1, <3>2 DEF PublishedGrounded
  <2>7. ~Unprepared'
    BY <1>2, <1>10, <2>1, <2>2 DEF Unprepared
  <2> QED
    BY <1>5, <1>7, <2>3, <2>5, <2>6, <2>7
<1>11. CASE manifest \in DOMAIN transfers /\
         ~(c.prefix # transfers[manifest].next \/ transfers[manifest].base # c.base)
  <2>1. UNCHANGED <<transfers, receipts, active, manifest>>
    BY <1>1, <1>11 DEF Prepare
  <2>2. ~Unprepared
    BY <1>1, <1>2, <1>11 DEF Unprepared
  <2> QED
    BY <1>3, <1>7, <2>1, <2>2, StoreStays DEF Core, Generation
<1> QED
  BY <1>9, <1>10, <1>11

LEMMA RunPrepareStep ==
  ASSUME NEW b \in Named, Core(b), NEW c \in calls, RunPrepare(c),
         UNCHANGED <<ledger, manifest>>
  PROVE  Core(b)'
<1>1. /\ calls' = calls \ {c} /\ current' = current /\ active' = active
      /\ c.op = "prepare" /\ c.read /\ Prepare(c) /\ file' = file
      /\ \/ c.late /\ client' = client
         \/ ~c.late /\ client' = [client EXCEPT !.step = "stage", !.sent = c.prefix]
  BY DEF RunPrepare, Answer, Unheard, AfterPrepare
<1>2. /\ ReceiptsTyped' /\ TransfersTyped' /\ TransfersGrounded'
      /\ PublishedGrounded(b)' /\ ~Unprepared'
      /\ (Grounded(manifest, b) => Grounded(manifest, b)')
  BY <1>1, PrepareEffect
<1>3. CallsFollow'
  BY <1>1, AnswerCalls
<1>4. Typed'
  <2>1. c.prefix \in Nat /\ (~c.late => client.step = "prepare")
    BY <1>1 DEF Core, CallsFollow, CallRow
  <2>2. client' \in ClientRow /\ (client'.step # "idle" => client'.snap = client.snap /\ client.step # "idle")
    BY <1>1, <2>1 DEF Core, Typed, ClientRow
  <2> QED
    BY <1>1, <1>2, <2>2 DEF Core, Typed
<1>5. OneStep(b)'
  <2>1. manifest # Nil
    BY DEF Core, CallsFollow
  <2> QED
    BY <1>1, <2>1 DEF Core, Generation, OneStep
<1>6. ReadsGrounded(b)' /\ LeftReceiptsGo'
  BY <1>1, <1>2 DEF Core, Generation, ReadsGrounded, LeftReceiptsGo
<1> QED
  BY <1>1, <1>2, <1>3, <1>4, <1>5, <1>6 DEF Core, Generation

\* A request that changes nothing in the store: the client hears the answer, and only
\* one past the cleanup of its generation waits for it.
LEMMA HeardStep ==
  ASSUME NEW b \in Named, Core(b), NEW c \in calls, c.op \in {"stage", "activate"},
         UNCHANGED store, UNCHANGED <<ledger, manifest>>, calls' = calls \ {c},
         c.late => UNCHANGED <<client, file>>,
         client' \in ClientRow, file' \in [active : Named, debt : BOOLEAN],
         client'.step # "idle" => client'.snap = client.snap /\ client.step # "idle",
         file'.active = file.active \/ (file'.active = manifest /\ active = manifest)
  PROVE  Core(b)'
<1>1. UNCHANGED <<receipts, transfers, active>> /\ current' = current
  BY DEF store
<1>2. CallsFollow'
  BY AnswerCalls
<1>3. ReceiptsTyped' /\ TransfersTyped' /\ TransfersGrounded' /\ PublishedGrounded(b)'
      /\ Unprepared' = Unprepared /\ Of(manifest)' = Of(manifest)
      /\ (Grounded(manifest, b) => Grounded(manifest, b)')
  BY <1>1, StoreStays DEF Core, Typed, Generation
<1>4. Typed'
  BY <1>1, <1>3 DEF Core, Typed
<1>5. OneStep(b)'
  BY <1>1 DEF Core, Generation, OneStep
<1>6. ReadsGrounded(b)'
  BY <1>3 DEF Core, Generation, ReadsGrounded
<1>7. LeftReceiptsGo'
  <2>1. CASE c.late
    BY <1>1, <1>3, <2>1 DEF Core, LeftReceiptsGo
  <2>2. CASE ~c.late
    <3>1. client.step = "stage"
      BY <2>2 DEF Core, CallsFollow
    <3>2. ~Unprepared
      BY <3>1 DEF Core, LeftReceiptsGo
    <3> QED
      BY <1>3, <3>2 DEF LeftReceiptsGo
  <2> QED
    BY <2>1, <2>2
<1> QED
  BY <1>1, <1>2, <1>3, <1>4, <1>5, <1>6, <1>7 DEF Core, Generation

\* A batch is stored only against the present baseline, with its differences to it.
LEMMA StageEffect ==
  ASSUME NEW b \in Named, Core(b), NEW c \in calls, c.op = "stage",
         c.snap \in DOMAIN transfers, Fits(c), Stage(c),
         UNCHANGED <<current, active, manifest>>
  PROVE  /\ ReceiptsTyped' /\ TransfersTyped' /\ TransfersGrounded'
         /\ PublishedGrounded(b)' /\ ~Unprepared'
         /\ Grounded(manifest, b)'
<1>1. /\ c \in CallRow /\ c.snap = manifest /\ manifest # Nil /\ manifest \in Snapshots
      /\ c.from \in Nat /\ c.count \in Nat
      /\ c.from < Total(manifest) /\ c.from + c.count <= Total(manifest)
  BY DEF Core, CallsFollow, Typed, Named, CallRow
<1>2. ReceiptsTyped /\ TransfersTyped /\ TransfersGrounded
  BY DEF Core, Typed
<1>3. /\ transfers[manifest].next = c.from /\ transfers[manifest].base = active
      /\ \A r \in Of(manifest) : r.offset # c.from
      /\ manifest \in DOMAIN transfers
  BY <1>1 DEF Fits
<1>4. active # manifest
  <2>1. SUFFICES ASSUME active = manifest
                 PROVE  FALSE
    OBVIOUS
  <2>2. /\ transfers[manifest].next = 0
        /\ Total(manifest) = 0 \/ \E r \in Of(manifest) : r.offset = 0
    BY <1>1, <1>3, <2>1 DEF Core, Generation, PublishedGrounded
  <2>3. Total(manifest) # 0
    BY <1>1, ContentFacts
  <2> QED
    BY <1>3, <2>2, <2>3
<1>5. active = b /\ b # manifest
  BY <1>1, <1>4 DEF Core, Generation, OneStep
<1> DEFINE batch == Slice(manifest, c.from, c.count)
           new == [snap |-> manifest, offset |-> c.from, count |-> c.count,
                   keys |-> {i[1] : i \in batch}, changes |-> batch \ current, aged |-> FALSE]
<1>6. batch \subseteq Items(manifest)
  BY <1>1, SliceFacts
<1>7. /\ new \in ReceiptRow /\ new.snap = manifest /\ new.offset = c.from /\ new.count = c.count
      /\ new.keys = {i[1] : i \in batch} /\ new.changes = batch \ current
  <2>1. {i[1] : i \in batch} \in SUBSET Nat
    BY <1>1, <1>6, ContentFacts
  <2>2. batch \ current \in SUBSET AllItems
    BY <1>1, <1>6 DEF AllItems
  <2> HIDE DEF batch
  <2> QED
    BY <1>1, <2>1, <2>2 DEF ReceiptRow
<1>8. receipts' = receipts \cup {new}
  BY <1>1 DEF Stage
<1>9. /\ DOMAIN transfers' = DOMAIN transfers
      /\ transfers'[manifest] \in TransferRow
      /\ transfers'[manifest].base = active /\ transfers'[manifest].next = c.from + c.count
      /\ \A t \in DOMAIN transfers : t # manifest => transfers'[t] = transfers[t]
  <2>1. transfers' = [transfers EXCEPT ![manifest].next = c.from + c.count, ![manifest].old = FALSE]
    BY <1>1 DEF Stage
  <2>2. transfers[manifest] \in TransferRow
    BY <1>2, <1>3 DEF TransfersTyped
  <2>3. DOMAIN transfers' = DOMAIN transfers
        /\ \A t \in DOMAIN transfers : t # manifest => transfers'[t] = transfers[t]
    BY <2>1
  <2>4. transfers'[manifest] = [transfers[manifest] EXCEPT !.next = c.from + c.count, !.old = FALSE]
    BY <1>3, <2>1
  <2>5. c.from + c.count \in Nat
    BY <1>1
  <2> QED
    BY <1>3, <2>2, <2>3, <2>4, <2>5 DEF TransferRow
<1> HIDE DEF new
<1>10. ReceiptsTyped'
  <2>1. ASSUME NEW r \in receipts'
        PROVE  /\ r \in ReceiptRow
               /\ r.offset + r.count <= Total(r.snap)
               /\ r.keys = {i[1] : i \in Slice(r.snap, r.offset, r.count)}
    <3>1. CASE r = new
      BY <1>1, <1>7, <3>1
    <3>2. CASE r \in receipts
      BY <1>2, <3>2 DEF ReceiptsTyped
    <3> QED
      BY <1>8, <3>1, <3>2
  <2>2. ASSUME NEW r \in receipts', NEW q \in receipts', r.snap = q.snap, r.offset = q.offset
        PROVE  r = q
    <3>1. \A p \in receipts : p.snap = manifest => p.offset # c.from
      BY <1>3 DEF Of
    <3> QED
      BY <1>2, <1>7, <1>8, <2>2, <3>1 DEF ReceiptsTyped
  <2> QED
    BY <2>1, <2>2 DEF ReceiptsTyped
<1>11. TransfersTyped'
  BY <1>1, <1>2, <1>9 DEF TransfersTyped
<1>12. Grounded(manifest, b)'
  <2>1. Grounded(manifest, b)
    BY <1>2, <1>3, <1>5 DEF TransfersGrounded
  <2>2. ASSUME NEW r \in receipts', r.snap = manifest
        PROVE  r.changes = Slice(manifest, r.offset, r.count) \ Base(b)
    <3>1. CASE r = new
      <4>1. current = Base(b)
        BY <1>5 DEF Core
      <4> QED
        BY <1>7, <3>1, <4>1
    <3>2. CASE r \in receipts
      BY <2>1, <2>2, <3>2 DEF Grounded, Of
    <3> QED
      BY <1>8, <3>1, <3>2
  <2> QED
    BY <2>2 DEF Grounded, Of
<1>13. TransfersGrounded'
  <2>1. ASSUME NEW t \in DOMAIN transfers', transfers'[t].base # t
        PROVE  Grounded(t, transfers[t].base)'
    <3>1. CASE t = manifest
      BY <1>5, <1>9, <1>12, <3>1 DEF Grounded, Of
    <3>2. CASE t # manifest
      <4>1. t \in DOMAIN transfers /\ transfers'[t] = transfers[t]
        BY <1>9, <2>1, <3>2
      <4>2. Grounded(t, transfers[t].base)
        BY <1>2, <2>1, <4>1 DEF TransfersGrounded
      <4>3. \A r \in receipts' : r.snap = t => r \in receipts
        BY <1>7, <1>8, <3>2
      <4> QED
        BY <4>1, <4>2, <4>3 DEF Grounded, Of
    <3> QED
      BY <3>1, <3>2
  <2> QED
    BY <2>1 DEF TransfersGrounded
<1> QED
  BY <1>3, <1>4, <1>9, <1>10, <1>11, <1>12, <1>13 DEF PublishedGrounded, Unprepared

LEMMA RunStageStep ==
  ASSUME NEW b \in Named, Core(b), NEW c \in calls, RunStage(c), UNCHANGED <<ledger, manifest>>
  PROVE  Core(b)'
<1>1. /\ c \in CallRow /\ c.op = "stage" /\ c.count \in Nat /\ 0 \in Nat
      /\ ~c.late => client.step = "stage"
      /\ active' = active /\ current' = current
  BY DEF RunStage, Core, CallsFollow, CallRow
<1>2. \E ok \in BOOLEAN, n \in {0, c.count} :
        /\ Answer(c, AfterStage(ok, n))
        /\ \/ UNCHANGED <<receipts, transfers>>
           \/ c.snap \in DOMAIN transfers /\ Fits(c) /\ Stage(c)
  <2>1. CASE c.snap \notin DOMAIN transfers
    BY <2>1 DEF RunStage
  <2>2. CASE c.snap \in DOMAIN transfers /\ c.from < transfers[c.snap].next
    <3>1. Duplicate(c) \in BOOLEAN
      BY DEF Duplicate
    <3> QED
      BY <2>2, <3>1 DEF RunStage
  <2>3. CASE c.snap \in DOMAIN transfers /\ ~(c.from < transfers[c.snap].next)
    BY <2>3 DEF RunStage
  <2> QED
    BY <2>1, <2>2, <2>3
<1>3. PICK ok \in BOOLEAN, n \in {0, c.count} :
        /\ Answer(c, AfterStage(ok, n))
        /\ \/ UNCHANGED <<receipts, transfers>>
           \/ c.snap \in DOMAIN transfers /\ Fits(c) /\ Stage(c)
  BY <1>2
<1>4. /\ calls' = calls \ {c}
      /\ c.late => UNCHANGED <<client, file>>
      /\ file' = file
      /\ client' \in ClientRow
      /\ client'.step # "idle" => client'.snap = client.snap /\ client.step # "idle"
  <2>1. CASE c.late
    BY <1>3, <2>1 DEF Answer, Unheard, Core, Typed
  <2>2. CASE ~c.late
    <3>1. client \in ClientRow /\ client.step = "stage" /\ n \in Nat
      BY <1>1, <2>2 DEF Core, Typed
    <3>2. /\ calls' = calls \ {c} /\ file' = file
          /\ \/ client' = Idle
             \/ client' = [client EXCEPT !.sent = @ + n, !.left = @]
             \/ client' = [client EXCEPT !.sent = @ + n, !.left = @ - 1]
      BY <1>3, <2>2 DEF Answer, AfterStage
    <3>3. CASE client' = Idle
      BY <2>2, <3>2, <3>3, IdleTyped
    <3>4. ASSUME NEW l \in Int, client' = [client EXCEPT !.sent = @ + n, !.left = l]
          PROVE  client' \in ClientRow /\ client'.snap = client.snap
      <4>1. client.sent + n \in Nat
        BY <3>1 DEF ClientRow
      <4>2. client' \in ClientRow
        BY <3>1, <3>4, <4>1 DEF ClientRow
      <4> QED
        BY <3>1, <3>4, <4>2 DEF ClientRow
    <3>5. client.left \in Int /\ client.left - 1 \in Int
      BY <3>1 DEF ClientRow
    <3>6. client' # Idle => client' \in ClientRow /\ client'.snap = client.snap
      BY <3>2, <3>4, <3>5
    <3> QED
      BY <2>2, <3>1, <3>2, <3>3, <3>6
  <2> QED
    BY <2>1, <2>2
<1>5. file' \in [active : Named, debt : BOOLEAN]
  BY <1>4 DEF Core, Typed
<1>6. CASE UNCHANGED <<receipts, transfers>>
  <2>1. UNCHANGED store
    BY <1>1, <1>6 DEF store
  <2> QED
    BY <1>1, <1>4, <1>5, <2>1, HeardStep
<1>7. CASE c.snap \in DOMAIN transfers /\ Fits(c) /\ Stage(c)
  <2>1. /\ ReceiptsTyped' /\ TransfersTyped' /\ TransfersGrounded'
        /\ PublishedGrounded(b)' /\ ~Unprepared'
        /\ Grounded(manifest, b)'
    BY <1>1, <1>7, StageEffect
  <2>2. CallsFollow'
    BY <1>4, AnswerCalls
  <2>3. Typed'
    BY <1>1, <1>4, <1>5, <2>1 DEF Core, Typed
  <2>4. OneStep(b)'
    <3>1. manifest # Nil
      BY DEF Core, CallsFollow
    <3> QED
      BY <1>1, <1>4, <3>1 DEF Core, Generation, OneStep
  <2>5. ReadsGrounded(b)' /\ LeftReceiptsGo'
    BY <1>4, <2>1 DEF Core, Generation, ReadsGrounded, LeftReceiptsGo
  <2> QED
    BY <1>1, <2>1, <2>2, <2>3, <2>4, <2>5 DEF Core, Generation
<1> QED
  BY <1>3, <1>6, <1>7

\* An activation publishes the frozen generation, exactly.
LEMMA RunActivateStep ==
  ASSUME NEW b \in Named, Core(b), NEW c \in calls, RunActivate(c),
         UNCHANGED <<ledger, manifest>>
  PROVE  /\ Core(b)'
         /\ current' = current \/ (manifest \in Snapshots /\ current' = Items(manifest))
<1>1. /\ c \in CallRow /\ c.op = "activate" /\ c.snap = manifest /\ manifest # Nil
      /\ manifest \in Snapshots
      /\ ~c.late => client.step = "stage" /\ client.snap = manifest
  BY DEF RunActivate, Core, CallsFollow, Typed, Named
<1>2. CASE active # manifest /\ Complete(manifest)
  <2>1. /\ Activate(manifest) /\ Answer(c, AfterActivate(TRUE)) /\ receipts' = receipts
    BY <1>1, <1>2 DEF RunActivate
  <2>2. active = b /\ b # manifest /\ manifest \in DOMAIN transfers /\ transfers[manifest].base = b
    BY <1>1, <1>2 DEF Complete, Core, Generation, OneStep
  <2>3. ReceiptsTyped /\ TransfersTyped /\ TransfersGrounded /\ current = Base(active)
        /\ active \in Named
    BY DEF Core, Typed
  <2>4. Grounded(manifest, b)
    BY <2>2, <2>3 DEF TransfersGrounded
  <2>5. Merged(manifest) = Items(manifest)
    BY <1>1, <1>2, <2>2, <2>3, <2>4, MergeIsExact
  <2>6. Total(manifest) = 0 \/ \E r \in Of(manifest) : r.offset = 0
    BY <1>1, <1>2, <2>3, CompleteFromZero
  <2>7. /\ current' = Items(manifest) /\ active' = manifest
        /\ DOMAIN transfers' = DOMAIN transfers \ {manifest}
        /\ \A t \in DOMAIN transfers' : transfers'[t] = transfers[t]
    BY <2>1, <2>5 DEF Activate, Restrict
  <2>8. Of(manifest)' = Of(manifest)
    BY <2>1 DEF Of
  <2>9. current' = Base(active')
    BY <1>1, <2>7 DEF Base
  <2>10. TransfersTyped' /\ ReceiptsTyped'
    BY <2>1, <2>3, <2>7 DEF TransfersTyped, ReceiptsTyped
  <2>11. TransfersGrounded'
    BY <2>1, <2>3, <2>7 DEF TransfersGrounded, Grounded, Of
  <2>12. Grounded(manifest, b)'
    BY <2>4, <2>8 DEF Grounded
  <2>13. PublishedGrounded(b)'
    BY <2>6, <2>7, <2>8, <2>12 DEF PublishedGrounded
  <2>14. /\ calls' = calls \ {c}
         /\ \/ c.late /\ UNCHANGED <<client, file>>
            \/ /\ ~c.late /\ file' = [active |-> manifest, debt |-> FALSE]
               /\ client' = [client EXCEPT !.step = "cleanup", !.left = STEPS]
    BY <1>1, <2>1 DEF Answer, Unheard, AfterActivate
  <2>15. CallsFollow'
    BY <2>14, AnswerCalls
  <2>16. Typed'
    <3>1. client' \in ClientRow /\ file' \in [active : Named, debt : BOOLEAN]
          /\ (client'.step # "idle" => client'.snap = manifest)
      <4>1. CASE c.late
        BY <2>14, <4>1 DEF Core, Typed
      <4>2. CASE ~c.late
        <5>1. client \in ClientRow /\ STEPS \in Int /\ manifest \in Named
          BY PageAssumption DEF Core, Typed
        <5>2. file' \in [active : Named, debt : BOOLEAN]
          BY <2>14, <4>2, <5>1, IdleTyped
        <5>3. client' \in ClientRow /\ client'.snap = client.snap
          BY <2>14, <4>2, <5>1 DEF ClientRow
        <5> QED
          BY <1>1, <4>2, <5>2, <5>3
      <4> QED
        BY <4>1, <4>2
    <3> QED
      BY <1>1, <2>7, <2>10, <3>1 DEF Core, Typed, Named
  <2>17. OneStep(b)'
    BY <1>1, <2>7, <2>14 DEF Core, Generation, OneStep
  <2>18. LeftReceiptsGo'
    BY <2>7 DEF LeftReceiptsGo, Unprepared
  <2>19. ReadsGrounded(b)'
    BY <2>12, <2>14 DEF Core, Generation, ReadsGrounded
  <2> QED
    BY <1>1, <2>7, <2>9, <2>11, <2>13, <2>15, <2>16, <2>17, <2>18, <2>19 DEF Core, Generation
<1>3. CASE ~(active # manifest /\ Complete(manifest))
  <2>1. /\ UNCHANGED store /\ current' = current /\ calls' = calls \ {c}
        /\ \/ c.late /\ UNCHANGED <<client, file>>
           \/ /\ ~c.late /\ active = manifest /\ file' = [active |-> manifest, debt |-> FALSE]
              /\ client' = [client EXCEPT !.step = "cleanup", !.left = STEPS]
           \/ ~c.late /\ client' = Idle /\ file' = file
    BY <1>1, <1>3 DEF RunActivate, Answer, Unheard, AfterActivate, Stop, store
  <2>2. /\ client' \in ClientRow /\ file' \in [active : Named, debt : BOOLEAN]
        /\ client'.step # "idle" => client'.snap = client.snap /\ client.step # "idle"
        /\ file'.active = file.active \/ (file'.active = manifest /\ active = manifest)
    <3>1. CASE c.late
      BY <2>1, <3>1 DEF Core, Typed
    <3>2. CASE ~c.late /\ client' = Idle /\ file' = file
      BY <3>2, IdleTyped DEF Core, Typed
    <3>3. CASE /\ ~c.late /\ active = manifest /\ file' = [active |-> manifest, debt |-> FALSE]
               /\ client' = [client EXCEPT !.step = "cleanup", !.left = STEPS]
      <4>1. client \in ClientRow /\ STEPS \in Int /\ manifest \in Named
        BY PageAssumption DEF Core, Typed
      <4>2. file' \in [active : Named, debt : BOOLEAN] /\ file'.active = manifest
        BY <3>3, <4>1, IdleTyped
      <4>3. client' \in ClientRow /\ client'.snap = client.snap
        BY <3>3, <4>1 DEF ClientRow
      <4> QED
        BY <1>1, <3>3, <4>2, <4>3
    <3> QED
      BY <2>1, <3>1, <3>2, <3>3
  <2>3. c.late => UNCHANGED <<client, file>>
    BY <2>1
  <2> QED
    BY <1>1, <2>1, <2>2, <2>3, HeardStep
<1> QED
  BY <1>2, <1>3

-----------------------------------------------------------------------------
(* A reader who pages through the archive.                                    *)

\* An item a walk has not read comes after those it read.
LEMMA PageStep ==
  ASSUME WalkIsPrefix, active \in Named, current = Base(active), Page
  PROVE  WalkIsPrefix' /\ WalkIsWhole'
<1> DEFINE rest == {i \in current : \A x \in reader.seen : i[1] > x[1]}
           least == CHOOSE i \in rest : \A j \in rest : i[1] <= j[1]
<1>1. /\ active # Nil /\ active \in Snapshots /\ current = Items(active)
      /\ reader.snap \in {Nil, active}
      /\ reader \in [snap : Named, seen : SUBSET AllItems, done : BOOLEAN]
  BY DEF Page, SameCursor, Base, Named, WalkIsPrefix
<1>2. /\ reader.seen \subseteq Items(active)
      /\ \A i \in Items(active), x \in reader.seen : i[1] <= x[1] => i \in reader.seen
  BY <1>1 DEF WalkIsPrefix
<1>3. \A i \in Items(active) : i[1] \in Nat
  BY <1>1, ContentFacts
<1>4. \A i \in Items(active) : i \in rest \/ i \in reader.seen
  BY <1>1, <1>2, <1>3
<1>5. CASE rest = {}
  <2>1. reader' = [reader EXCEPT !.snap = active, !.done = TRUE]
    BY <1>5 DEF Page
  <2>2. /\ reader'.snap = active /\ reader'.seen = reader.seen
        /\ reader' \in [snap : Named, seen : SUBSET AllItems, done : BOOLEAN]
    BY <1>1, <2>1 DEF Named
  <2>3. reader.seen = Items(active)
    BY <1>2, <1>4, <1>5
  <2> QED
    BY <1>1, <1>2, <2>2, <2>3 DEF WalkIsPrefix, WalkIsWhole
<1>6. CASE rest # {}
  <2>1. \E i \in rest : \A j \in rest : i[1] <= j[1]
    <3>1. \A i \in rest : i[1] \in Nat
      BY <1>1, <1>3
    <3> HIDE DEF rest
    <3> QED
      BY <1>6, <3>1, LeastItem
  <2>2. least \in rest /\ \A j \in rest : least[1] <= j[1]
    <3> HIDE DEF rest
    <3> QED
      BY <2>1
  <2>3. least \in Items(active)
    BY <1>1, <2>2
  <2>4. reader' = [reader EXCEPT !.snap = active, !.seen = @ \cup {least}]
    BY <1>6 DEF Page
  <2> HIDE DEF rest, least
  <2>5. /\ reader'.snap = active /\ reader'.seen = reader.seen \cup {least}
        /\ reader'.done = reader.done
    BY <1>1, <2>4
  <2>6. reader' \in [snap : Named, seen : SUBSET AllItems, done : BOOLEAN]
    <3>1. reader.seen \cup {least} \in SUBSET AllItems
      BY <1>1, <2>3 DEF AllItems
    <3> QED
      BY <1>1, <2>4, <3>1 DEF Named
  <2>7. ~reader'.done
    BY <2>5 DEF Page
  <2>8. ASSUME NEW i \in Items(active), NEW x \in reader.seen \cup {least}, i[1] <= x[1]
        PROVE  i \in reader.seen \cup {least}
    <3>1. CASE x \in reader.seen
      BY <1>2, <2>8, <3>1
    <3>2. CASE x = least /\ i \in rest
      <4>1. i[1] = least[1]
        BY <1>3, <2>2, <2>3, <2>8, <3>2
      <4> QED
        BY <1>1, <2>3, <4>1, ContentFacts
    <3>3. CASE i \in reader.seen
      BY <3>3
    <3> QED
      BY <1>4, <2>8, <3>1, <3>2, <3>3
  <2>9. reader.seen \cup {least} \subseteq Items(active)
    BY <1>2, <2>3
  <2> QED
    BY <1>1, <2>5, <2>6, <2>7, <2>8, <2>9 DEF WalkIsPrefix, WalkIsWhole
<1> QED
  BY <1>5, <1>6

-----------------------------------------------------------------------------
(* The theorems.                                                             *)

\* Every step keeps the invariant, and what readers page through changes only to the
\* content of one snapshot.
LEMMA InvStep ==
  ASSUME ~Quick, Inv, [Next]_evidenceVars
  PROVE  /\ Inv'
         /\ current' = current \/ \E s \in Snapshots : current' = Items(s)
<1>1. PICK b \in Named : Core(b)
  BY DEF Inv
<1>2. Typed /\ active \in Named /\ current = Base(active) /\ WalkIsPrefix /\ WalkIsWhole
  BY <1>1 DEF Inv, Core, Typed
<1> DEFINE Walks == WalkIsPrefix' /\ WalkIsWhole'
           Same == current' = current \/ \E s \in Snapshots : current' = Items(s)
           Goal == (\E d \in Named : Core(d)') /\ Walks /\ Same
<1> SUFFICES Goal
  BY DEF Inv
<1>3. reader' = reader => Walks
  BY <1>2 DEF WalkIsPrefix, WalkIsWhole
<1>4. CASE UNCHANGED evidenceVars
  BY <1>1, <1>2, <1>3, <1>4, OutsideStep DEF evidenceVars, store, disk, Typed
<1>5. CASE Begin
  BY <1>1, <1>3, <1>5, BeginStep DEF Begin, store
<1>6. CASE SendCleanup \/ SendPrepare \/ SendStage \/ SendActivate
  <2>1. reader' = reader /\ current' = current
    BY <1>6 DEF SendCleanup, SendPrepare, SendStage, SendActivate, store
  <2> QED
    BY <1>1, <1>3, <1>6, <2>1, CycleStep
<1>7. CASE Pause
  BY <1>1, <1>3, <1>7, PauseStep DEF Pause, store
<1>8. CASE GiveUp
  BY <1>1, <1>3, <1>8, GiveUpStep DEF GiveUp, store
<1>9. CASE Age
  <2>1. /\ UNCHANGED <<current, active, manifest, ledger, file, client>> /\ calls' = calls
        /\ receipts' = {[r EXCEPT !.aged = TRUE] : r \in receipts}
        /\ transfers' = transfers /\ reader' = reader
    BY <1>9 DEF Age, disk
  <2>2. \A s \in DOMAIN transfers : transfers[s] \in TransferRow
    BY <1>2 DEF Typed, TransfersTyped
  <2>3. Core(b)'
    BY <1>1, <2>1, <2>2, TimeStep
  <2> QED
    BY <1>3, <2>1, <2>3
<1>10. CASE Revise
  <2>1. ledger' \in 1..Len(History)
    <3>1. ledger \in 1..Len(History) /\ ledger < Len(History) /\ ledger' = ledger + 1
      BY <1>2, <1>10 DEF Revise, Typed
    <3>2. History \in Seq(Snapshots)
      BY ContentAssumption DEF Snapshots
    <3> QED
      BY <3>1, <3>2
  <2> QED
    BY <1>1, <1>3, <1>10, <2>1, OutsideStep DEF Revise, store
<1>11. CASE Page
  <2>1. /\ UNCHANGED <<store, manifest, file, client, calls>> /\ ledger' = ledger
        /\ current' = current
    BY <1>11 DEF Page, store, disk
  <2>2. Core(b)'
    BY <1>1, <1>2, <2>1, OutsideStep DEF Typed
  <2> QED
    BY <1>2, <1>11, <2>1, <2>2, PageStep
<1>12. CASE Reopen
  <2>1. /\ UNCHANGED <<store, manifest, file, client, calls>> /\ ledger' = ledger
        /\ current' = current /\ reader' = Unread
    BY <1>12 DEF Reopen, store, disk
  <2>2. Core(b)'
    BY <1>1, <1>2, <2>1, OutsideStep DEF Typed
  <2>3. Walks
    BY <2>1 DEF Unread, WalkIsPrefix, WalkIsWhole, Named
  <2> QED
    BY <2>1, <2>2, <2>3
<1>13. ASSUME NEW c \in calls, Lose(c)
       PROVE  Goal
  BY <1>1, <1>3, <1>13, LoseStep DEF Lose, store
<1>14. ASSUME NEW c \in calls, Run(c)
       PROVE  Goal
  <2>1. UNCHANGED <<ledger, manifest>> /\ reader' = reader
    BY <1>14 DEF Run
  <2>2. Core(b)' /\ Same
    <3>1. CASE RunCleanup(c)
      BY <1>1, <2>1, <3>1, RunCleanupStep DEF RunCleanup
    <3>2. CASE ReadPrepare(c)
      BY <1>1, <2>1, <3>2, ReadPrepareStep DEF ReadPrepare, store
    <3>3. CASE RunPrepare(c)
      BY <1>1, <2>1, <3>3, RunPrepareStep DEF RunPrepare
    <3>4. CASE RunStage(c)
      BY <1>1, <2>1, <3>4, RunStageStep DEF RunStage
    <3>5. CASE RunActivate(c)
      BY <1>1, <2>1, <3>5, RunActivateStep
    <3> QED
      BY <1>14, <3>1, <3>2, <3>3, <3>4, <3>5 DEF Run
  <2> QED
    BY <1>3, <2>1, <2>2
<1>15. ASSUME NEW s \in DOMAIN transfers, Expire(s)
       PROVE  Goal
  <2>1. /\ UNCHANGED <<current, active, manifest, ledger, file, client>> /\ calls' = calls
        /\ calls = {} /\ client.step = "idle" /\ reader' = reader
        /\ receipts' = {[r EXCEPT !.aged = TRUE] : r \in receipts}
        /\ transfers' = [transfers EXCEPT ![s].old = TRUE]
    BY <1>15 DEF Expire, disk
  <2>2. \A t \in DOMAIN transfers : transfers[t] \in TransferRow
    BY <1>2 DEF Typed, TransfersTyped
  <2>3. DOMAIN transfers' = DOMAIN transfers
    BY <2>1
  <2>4. ASSUME NEW t \in DOMAIN transfers
        PROVE  /\ transfers'[t] \in TransferRow
               /\ transfers'[t].base = transfers[t].base
               /\ transfers'[t].next = transfers[t].next
    <3>1. CASE t = s
      <4>1. transfers'[t] = [transfers[t] EXCEPT !.old = TRUE]
        BY <2>1, <3>1
      <4> QED
        BY <2>2, <4>1 DEF TransferRow
    <3>2. CASE t # s
      BY <2>1, <2>2, <3>2
    <3> QED
      BY <3>1, <3>2
  <2>5. Core(b)'
    BY <1>1, <2>1, <2>3, <2>4, TimeStep
  <2> QED
    BY <1>3, <2>1, <2>5
<1> QED
  BY <1>4, <1>5, <1>6, <1>7, <1>8, <1>9, <1>10, <1>11, <1>12, <1>13, <1>14, <1>15
    DEF Next, Cycle

LEMMA InvInit == Init => Inv
<1> SUFFICES ASSUME Init
             PROVE  Inv
  OBVIOUS
<1>1. 1 \in 1..Len(History)
  <2>1. History \in Seq(Snapshots) /\ History # <<>>
    BY ContentAssumption DEF Snapshots
  <2> QED
    BY <2>1
<1>2. Nil \in Named /\ receipts = {} /\ DOMAIN transfers = {} /\ calls = {}
      /\ active = Nil /\ manifest = Nil /\ file.active = Nil /\ client = Idle /\ ledger = 1
  BY DEF Init, Named, NoFile
<1>3. file \in [active : Named, debt : BOOLEAN]
  BY <1>2 DEF Init, NoFile
<1>4. Typed
  BY <1>1, <1>2, <1>3, IdleTyped DEF Typed, ReceiptsTyped, TransfersTyped
<1>5. CallsFollow /\ TransfersGrounded /\ LeftReceiptsGo /\ current = Base(active)
  BY <1>2 DEF Init, CallsFollow, TransfersGrounded, LeftReceiptsGo, Unprepared, Base
<1>6. Generation(Nil)
  BY <1>2 DEF Generation, OneStep, PublishedGrounded, ReadsGrounded
<1>7. WalkIsPrefix /\ WalkIsWhole
  BY <1>2 DEF Init, Unread, WalkIsPrefix, WalkIsWhole
<1> QED
  BY <1>2, <1>4, <1>5, <1>6, <1>7 DEF Inv, Core

\* The invariant holds in every reachable state when a new generation waits for the last
\* one's requests and receipts to pass.
THEOREM InvAlways ==
  ASSUME ~Quick
  PROVE  Spec => []Inv
<1>1. Inv /\ [Next]_evidenceVars => Inv'
  BY InvStep
<1> QED
  BY <1>1, InvInit, PTL DEF Spec

\* The tables, the requests and the local variables keep their shapes, a transfer's next
\* offset lies within its snapshot, and no two receipts of a snapshot share an offset.
THEOREM TypeCorrect ==
  ASSUME ~Quick
  PROVE  Spec => []TypeOK
<1>1. Inv => TypeOK
  <2> SUFFICES ASSUME Inv
               PROVE  TypeOK
    OBVIOUS
  <2>1. Typed
    BY DEF Inv, Core
  <2>2. ASSUME NEW s \in DOMAIN transfers
        PROVE  transfers[s].next \in 0..Total(s)
    <3>1. s \in Snapshots /\ transfers[s].next \in Nat /\ transfers[s].next <= Total(s)
      BY <2>1 DEF Typed, TransfersTyped, TransferRow
    <3> QED
      BY <3>1, ContentFacts
  <2> QED
    BY <2>1, <2>2 DEF Typed, Named, ReceiptsTyped, ClientRow, TypeOK
<1> QED
  BY <1>1, InvAlways, PTL

\* The published archive, the sync's file and a finished walk each name one published
\* snapshot and hold exactly its items, though only differences were uploaded.
THEOREM EvidenceAlwaysExact ==
  ASSUME ~Quick
  PROVE  Spec => []EvidenceExact
<1>1. Inv => EvidenceExact
  BY DEF Inv, Core, Generation, OneStep, Base, EvidenceExact, PublishedIsExact,
    FileIsPublished
<1> QED
  BY <1>1, InvAlways, PTL

\* Readers see the abstract archive: empty at first, then one complete snapshot after
\* another, each replaced in one step.
THEOREM EvidenceRefinesArchive ==
  ASSUME ~Quick
  PROVE  Spec => EvidenceImplementsArchive
<1>1. Init => Archive!Init
  BY DEF Init, Archive!Init
<1>2. Inv /\ [Next]_evidenceVars => [Archive!Next]_current
  BY InvStep DEF Archive!Next, Archive!Publish
<1> QED
  BY <1>1, <1>2, InvAlways, PTL DEF Spec, EvidenceImplementsArchive, Archive!Spec
=============================================================================
