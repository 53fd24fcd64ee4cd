---------------------------- MODULE UpkeepProofs ----------------------------
(*****************************************************************************)
(* Proofs about three loops of the runtime, in this order: the status the    *)
(* news collection shows (Intake), the files of the daily backup             *)
(* (BackupRetention), and the daily briefs (DailyBrief).  They share no      *)
(* state; each has an inductive invariant of its own.                        *)
(*****************************************************************************)
EXTENDS Intake, BackupRetention, DailyBrief, FiniteSetTheorems, WellFoundedInduction, TLAPS

\* A nonempty set of naturals has a least element.
LEMMA HasLeast ==
  ASSUME NEW T \in SUBSET Nat, T # {}
  PROVE  \E m \in T : \A n \in T : m <= n
<1> DEFINE R == {s \in Nat \X Nat : s[1] < s[2]}
<1>1. R = OpToRel(<, Nat)
  BY DEF OpToRel
<1>2. IsWellFoundedOn(R, Nat)
  BY <1>1, NatLessThanWellFounded
<1> HIDE DEF R
<1>3. PICK x \in T : \A y \in T : ~(<<y, x>> \in R)
  BY <1>2, WFMin
<1>4. \A y \in T : x <= y
  <2> TAKE y \in T
  <2>1. x \in Nat /\ y \in Nat /\ <<y, x>> \in Nat \X Nat
    OBVIOUS
  <2>2. y < x => <<y, x>> \in R
    BY <2>1 DEF R
  <2> QED
    BY <1>3, <2>1, <2>2
<1> QED
  BY <1>4

\* A finite nonempty set of naturals has a greatest element.
LEMMA HasGreatest ==
  ASSUME NEW T \in SUBSET Nat, T # {}, IsFiniteSet(T)
  PROVE  \E m \in T : \A n \in T : n <= m
<1> SUFFICES ASSUME \A m \in T : \E n \in T : ~(n <= m) PROVE FALSE
  OBVIOUS
<1> DEFINE Tops == {S \in SUBSET T : S # {} /\ \A m \in S : \E n \in S : ~(n <= m)}
           sizes == {Cardinality(S) : S \in Tops}
<1>1. T \in Tops
  OBVIOUS
<1>2. \A S \in Tops : IsFiniteSet(S) /\ Cardinality(S) \in Nat
  BY FS_Subset, FS_CardinalityType
<1>3. sizes \in SUBSET Nat /\ sizes # {}
  BY <1>1, <1>2
<1>4. PICK k \in sizes : \A n \in sizes : k <= n
  BY <1>3, HasLeast
<1>5. PICK S \in Tops : k = Cardinality(S)
  OBVIOUS
<1>6. PICK x \in S : TRUE
  BY <1>5
<1>7. S \ {x} # {} /\ S \ {x} \in SUBSET T
  BY <1>5, <1>6
<1>8. S \ {x} \in Tops
  <2> SUFFICES ASSUME NEW m \in S \ {x} PROVE \E n \in S \ {x} : ~(n <= m)
    BY <1>7
  <2>1. PICK n \in S : ~(n <= m)
    BY <1>5
  <2>2. CASE n # x
    BY <2>1, <2>2
  <2>3. CASE n = x
    <3>1. PICK y \in S : ~(y <= x)
      BY <1>5, <1>6
    <3>2. x \in Nat /\ y \in Nat /\ m \in Nat /\ n \in Nat
      BY <1>5, <1>6
    <3>3. ~(y <= m) /\ y # x
      BY <3>1, <3>2, <2>1, <2>3
    <3> QED
      BY <3>3
  <2> QED
    BY <2>2, <2>3
<1>9. Cardinality(S \ {x}) = Cardinality(S) - 1
  BY <1>2, <1>5, <1>6, FS_RemoveElement
<1>10. k \in Nat /\ Cardinality(S \ {x}) \in sizes
  BY <1>3, <1>4, <1>8
<1>11. k <= k - 1
  BY <1>4, <1>5, <1>9, <1>10
<1> QED
  BY <1>10, <1>11

LEMMA MinOfTwo ==
  ASSUME NEW a \in Nat, NEW b \in Nat
  PROVE  Min({a, b}) \in Nat /\ Min({a, b}) <= a /\ Min({a, b}) <= b
<1>1. \E x \in {a, b} : \A y \in {a, b} : x <= y
  <2>1. CASE a <= b
    BY <2>1
  <2>2. CASE ~(a <= b)
    BY <2>2
  <2> QED
    BY <2>1, <2>2
<1>2. Min({a, b}) \in {a, b} /\ \A y \in {a, b} : Min({a, b}) <= y
  BY <1>1 DEF Min
<1> QED
  BY <1>2

\* The values of a function with a finite domain.
LEMMA RangeIsFinite ==
  ASSUME NEW S, NEW T, NEW f \in [S -> T], IsFiniteSet(S)
  PROVE  IsFiniteSet(Range(f)) /\ Range(f) \subseteq T
<1>1. Range(f) = {f[i] : i \in S}
  BY DEF Range
<1>2. f \in [S -> Range(f)] /\ \A t \in Range(f) : \E i \in S : f[i] = t
  BY <1>1
<1>3. f \in Surjection(S, Range(f))
  BY <1>2 DEF Surjection
<1> QED
  BY <1>1, <1>3, FS_Surjection

LEMMA SeqRangeIsFinite ==
  ASSUME NEW T, NEW s \in Seq(T)
  PROVE  IsFiniteSet(Range(s)) /\ Range(s) \subseteq T
<1>1. s \in [1..Len(s) -> T] /\ Len(s) \in Nat
  OBVIOUS
<1>2. IsFiniteSet(1..Len(s))
  BY <1>1, FS_Interval
<1> QED
  BY <1>1, <1>2, RangeIsFinite

\* Ages are counted up to a natural number.
LEMMA LongestIsNat == Longest \in Nat
<1> DEFINE delays == Range(TRANSIENT) \cup Range(RATE) \cup RetryAfters \cup {AUTH}
                       \cup {Interval[s] : s \in Sources}
<1>1. IsFiniteSet(Sources)
  BY SeqRangeIsFinite, IntakeAssumption DEF Sources
<1>2. {Interval[s] : s \in Sources} = Range(Interval)
  BY IntakeAssumption DEF Range
<1>3. /\ IsFiniteSet({Interval[s] : s \in Sources})
      /\ {Interval[s] : s \in Sources} \subseteq Nat
  BY <1>1, <1>2, RangeIsFinite, IntakeAssumption
<1>4. /\ IsFiniteSet(Range(TRANSIENT)) /\ Range(TRANSIENT) \subseteq Nat
      /\ IsFiniteSet(Range(RATE)) /\ Range(RATE) \subseteq Nat
      /\ IsFiniteSet(RetryAfters) /\ RetryAfters \subseteq Nat
      /\ IsFiniteSet({AUTH}) /\ AUTH \in Nat
  BY SeqRangeIsFinite, FS_Singleton, IntakeAssumption
<1>5. IsFiniteSet(delays)
  BY <1>3, <1>4, FS_Union
<1>6. delays \in SUBSET Nat /\ delays # {}
  BY <1>3, <1>4
<1>9. Longest = Max(delays) + MaxRound + 1
  BY DEF Longest
<1> HIDE DEF delays
<1>7. \E m \in delays : \A n \in delays : m >= n
  BY <1>5, <1>6, HasGreatest
<1>8. Max(delays) \in delays
  BY <1>7 DEF Max
<1>10. Max(delays) \in Nat
  BY <1>6, <1>8
<1> QED
  BY <1>9, <1>10, IntakeAssumption

LEMMA OlderIsLater ==
  ASSUME NEW t \in Nat
  PROVE  Older(t) \in Nat /\ Older(t) <= t + 1
BY MinOfTwo, LongestIsNat DEF Older

-----------------------------------------------------------------------------
(* The shape of the state: the owner's clock, the ages, and the statuses.    *)

Ages ==
  /\ collector \in [phase : {"waiting", "round", "ended"}, next : Nat, clock : Nat, stop : BOOLEAN]
  /\ InRound => collector.next >= 1 /\ collector.clock <= MaxRound
  /\ succeeded \in [Sources -> Nat]
  /\ results = [s \in Sources |-> results[s]]
  /\ shown = [done |-> shown.done, age |-> shown.age, status |-> shown.status]
  /\ shown.done \in BOOLEAN /\ shown.age \in Nat
\* A complete status of the running round is of a poll no older than the round.
RoundExact ==
  \A s \in Sources : InRound /\ results[s] = "OK" => succeeded[s] <= collector.clock
\* A complete status that is shown is older by the longest round at most.
ShownExact ==
  \A s \in Sources : shown.done /\ shown.status[s] = "OK" /\ shown.age <= 2 * POLL
                       => succeeded[s] <= shown.age + MaxRound
IntakeInv == Ages /\ RoundExact /\ ShownExact

LEMMA IntakeInitially == IntakeInit => IntakeInv
<1> SUFFICES ASSUME IntakeInit PROVE IntakeInv
  OBVIOUS
<1> USE DEF IntakeInit, AtRest, Nothing, Unpolled, InRound
<1>1. Ages
  BY LongestIsNat DEF Ages
<1>2. RoundExact
  BY DEF RoundExact
<1>3. ShownExact
  BY DEF ShownExact
<1> QED
  BY <1>1, <1>2, <1>3 DEF IntakeInv

LEMMA CurrentIsSource == Ages /\ InRound /\ collector.next <= Len(Order) => Current \in Sources
BY IntakeAssumption DEF Ages, Current, Sources, Range

\* A source the gate passes over is not shown as complete.
LEMMA GateIsNoStatus == ASSUME NEW s PROVE Gate(s) # "OK"
BY DEF Gate

\* A round given up shows no source as complete.
LEMMA Aborted ==
  ASSUME Ages, ShownExact, Abort, succeeded' \in [Sources -> Nat]
  PROVE  Ages' /\ RoundExact' /\ ShownExact'
<1>1. /\ collector' = [AtRest EXCEPT !.clock = POLL, !.stop = collector.stop]
      /\ shown' = [done |-> TRUE, age |-> 0, status |-> [s \in Sources |-> "FAILED"]]
      /\ results' = Unpolled
  BY DEF Abort
<1>2. collector' \in [phase : {"waiting", "round", "ended"}, next : Nat, clock : Nat, stop : BOOLEAN]
      /\ collector'.phase = "waiting"
  BY <1>1, IntakeAssumption DEF AtRest, Ages
<1> QED
  BY <1>1, <1>2 DEF Ages, RoundExact, ShownExact, InRound, Unpolled

LEMMA IntakeSteps == IntakeInv /\ [IntakeNext]_intakeVars => IntakeInv'
<1> SUFFICES ASSUME IntakeInv, [IntakeNext]_intakeVars PROVE IntakeInv'
  OBVIOUS
<1> USE DEF InRound
<1>a. Ages /\ RoundExact /\ ShownExact
  BY DEF IntakeInv
<1>b. POLL \in Nat /\ MaxRound \in Nat
  BY IntakeAssumption
<1>c. SUFFICES Ages' /\ RoundExact' /\ ShownExact'
  BY DEF IntakeInv
<1>1. CASE StartRound
  <2>1. /\ collector' = [collector EXCEPT !.phase = "round", !.next = 1] /\ collector.clock = 0
        /\ results' = Unpolled /\ UNCHANGED <<succeeded, shown>>
    BY <1>1 DEF StartRound, durable
  <2>2. /\ collector' \in [phase : {"waiting", "round", "ended"}, next : Nat, clock : Nat, stop : BOOLEAN]
        /\ collector'.next = 1 /\ collector'.clock = 0
    BY <2>1, <1>a DEF Ages
  <2> QED
    BY <2>1, <2>2, <1>a, <1>b DEF Ages, RoundExact, ShownExact, Unpolled
<1>2. CASE Skip
  <2>1. Current \in Sources /\ Gate(Current) # "OK"
    BY <1>2, <1>a, CurrentIsSource, GateIsNoStatus DEF Skip
  <2>2. /\ collector' = [collector EXCEPT !.next = @ + 1]
        /\ results' = [results EXCEPT ![Current] = Gate(Current)]
        /\ UNCHANGED <<succeeded, shown>>
    BY <1>2 DEF Skip, Advance, durable
  <2> QED
    BY <2>1, <2>2, <1>2, <1>a, <1>b DEF Ages, RoundExact, ShownExact
<1>3. CASE Collect
  <2> DEFINE s == Current
  <2>1. s \in Sources /\ InRound
    BY <1>3, <1>a, CurrentIsSource DEF Collect
  <2>2. PICK r \in Outcomes(s) :
          /\ RecordPoll(s, r.poll)
          /\ IF r.torn THEN Abort
             ELSE /\ results' = [results EXCEPT ![s] = r.poll.status]
                  /\ Advance /\ UNCHANGED shown
    BY <1>3 DEF Collect
  <2>3. succeeded' = IF r.poll.status = "OK" THEN [succeeded EXCEPT ![s] = collector.clock]
                     ELSE succeeded
    BY <2>2 DEF RecordPoll
  <2> HIDE DEF s
  <2>4. succeeded' \in [Sources -> Nat] /\ \A q \in Sources :
          succeeded'[q] = IF q = s /\ r.poll.status = "OK" THEN collector.clock ELSE succeeded[q]
    BY <2>1, <2>3, <1>a DEF Ages
  <2>5. CASE r.torn
    <3>1. Abort
      BY <2>2, <2>5
    <3> QED
      BY <3>1, <2>4, <1>a, Aborted
  <2>6. CASE ~r.torn
    <3>1. /\ results' = [results EXCEPT ![s] = r.poll.status]
          /\ collector' = [collector EXCEPT !.next = @ + 1] /\ shown' = shown
      BY <2>2, <2>6 DEF Advance
    <3>2. Ages'
      BY <3>1, <2>1, <2>4, <1>a DEF Ages
    <3>3. RoundExact'
      BY <3>1, <2>1, <2>4, <1>a DEF Ages, RoundExact
    <3>4. ShownExact'
      BY <3>1, <2>1, <2>4, <1>a, <1>b DEF Ages, ShownExact
    <3> QED
      BY <3>2, <3>3, <3>4
  <2> QED
    BY <2>5, <2>6
<1>4. CASE EndCollection
  <2>1. /\ collector' = [AtRest EXCEPT !.clock = POLL, !.stop = collector.stop]
        /\ shown' = [done |-> TRUE, age |-> 0, status |-> results]
        /\ UNCHANGED <<succeeded, results>> /\ InRound
    BY <1>4 DEF EndCollection, durable
  <2>2. Ages'
    BY <2>1, <1>a, <1>b DEF Ages, AtRest
  <2>3. RoundExact'
    BY <2>1 DEF RoundExact, AtRest
  <2>4. ShownExact'
    <3> SUFFICES ASSUME NEW s \in Sources, results[s] = "OK"
                 PROVE  succeeded[s] <= 0 + MaxRound
      BY <2>1 DEF ShownExact
    <3>1. succeeded[s] <= collector.clock /\ collector.clock <= MaxRound
          /\ succeeded[s] \in Nat /\ collector.clock \in Nat
      BY <2>1, <1>a DEF Ages, RoundExact
    <3> QED
      BY <3>1, <1>b
  <2> QED
    BY <2>2, <2>3, <2>4
<1>5. CASE Ended
  BY <1>5, <1>a, <1>b DEF Ended, Ages, RoundExact, ShownExact, AtRest, durable
<1>6. CASE StartCollector
  BY <1>6, <1>a, <1>b DEF StartCollector, Ages, RoundExact, ShownExact, AtRest, Nothing, Unpolled, durable
<1>7. CASE WriteFails
  BY <1>7, <1>a, Aborted DEF WriteFails, Ages
<1>8. CASE StopCollector
  BY <1>8, <1>a, <1>b DEF StopCollector, Ages, RoundExact, ShownExact, durable
<1>9. CASE CollectorDies
  BY <1>9, <1>a, <1>b DEF CollectorDies, Ages, RoundExact, ShownExact, AtRest, durable
<1>10. CASE IntakeTick
  <2>1. succeeded' = [s \in Sources |-> Older(succeeded[s])]
    BY <1>10 DEF IntakeTick
  <2>2. succeeded' \in [Sources -> Nat]
        /\ \A s \in Sources : succeeded'[s] <= succeeded[s] + 1
    BY <2>1, <1>a, OlderIsLater DEF Ages
  <2>3. shown' = [shown EXCEPT !.age = IF shown.done THEN Min({@ + 1, 2 * POLL + 1}) ELSE 0]
    BY <1>10 DEF IntakeTick
  <2>4. /\ shown'.done = shown.done /\ shown'.status = shown.status
        /\ shown'.age = IF shown.done THEN Min({shown.age + 1, 2 * POLL + 1}) ELSE 0
        /\ shown' = [done |-> shown'.done, age |-> shown'.age, status |-> shown'.status]
    BY <2>3, <1>a DEF Ages
  <2>5. shown'.age \in Nat
        /\ (shown.done /\ shown'.age <= 2 * POLL => shown'.age = shown.age + 1)
    <3>1. shown.age + 1 \in Nat /\ 2 * POLL + 1 \in Nat
      BY <1>a, <1>b DEF Ages
    <3>2. \A a, b \in Nat : Min({a, b}) \in {a, b} /\ Min({a, b}) \in Nat
      <4> TAKE a, b \in Nat
      <4>1. \E x \in {a, b} : \A y \in {a, b} : x <= y
        BY a <= b \/ b <= a
      <4> QED
        BY <4>1 DEF Min
    <3>3. CASE shown.done
      <4>1. shown'.age \in {shown.age + 1, 2 * POLL + 1}
        BY <3>1, <3>2, <3>3, <2>4
      <4> QED
        BY <4>1, <3>1, <3>3, <1>b
    <3> QED
      BY <3>3, <2>4
  <2>6. ShownExact'
    BY <2>2, <2>4, <2>5, <1>a, <1>b DEF Ages, ShownExact
  <2>7. UNCHANGED results
    BY <1>10 DEF IntakeTick
  <2>8. /\ collector' \in [phase : {"waiting", "round", "ended"}, next : Nat, clock : Nat, stop : BOOLEAN]
        /\ collector'.phase = collector.phase /\ collector'.next = collector.next
        /\ InRound => collector'.clock = collector.clock + 1 /\ collector'.clock <= MaxRound
    BY <1>10, <1>a, <1>b DEF IntakeTick, Ages
  <2>9. Ages'
    BY <2>2, <2>4, <2>5, <2>7, <2>8, <1>a DEF Ages
  <2>10. RoundExact'
    BY <2>2, <2>7, <2>8, <1>a DEF Ages, RoundExact
  <2> QED
    BY <2>6, <2>9, <2>10
<1>11. CASE UNCHANGED intakeVars
  BY <1>11, <1>a DEF intakeVars, durable, Ages, RoundExact, ShownExact
<1> QED
  BY <1>1, <1>2, <1>3, <1>4, <1>5, <1>6, <1>7, <1>8, <1>9, <1>10, <1>11
     DEF IntakeNext, Thread

THEOREM SnapshotIsHonest == IntakeSpec => []SnapshotHonest
<1>1. IntakeInv => SnapshotHonest
  BY IntakeAssumption DEF IntakeInv, Ages, ShownExact, SnapshotHonest, Warned, IsFresh
<1> QED
  BY <1>1, IntakeInitially, IntakeSteps, PTL DEF IntakeSpec

-----------------------------------------------------------------------------
(* The daily backup.  The inductive invariant says what the state on disk    *)
(* may be (OnDisk, Accountancy) and what the process that runs knows of it   *)
(* at each of its steps (Place); at most one runs at a time.                 *)

Files == Procs \cup {Edited}
ProcPcs == {"idle", "acquire", "sign", "unlink_owner", "evict", "release", "rmdir", "backup",
            "copied", "replaced", "plan", "delete", "reclaim", "unlink_plan", "clear"}
ProcRec == [pc : ProcPcs, today : 0..LastBackup, last : 0..LastBackup, lock : Locks,
            todo : SUBSET ((BackupDays \X Files) \cup Legacy), seen : SUBSET Legacy,
            ok : BOOLEAN]
OnDisk ==
  /\ day \in BackupDays
  /\ target \in [BackupDays -> Files \cup {Nil}] /\ receipt \in [BackupDays -> Files \cup {Nil}]
  /\ temps \in [BackupDays -> SUBSET Procs]
  /\ owner \in [Locks -> Procs \cup {Nil, Unsigned}]
  /\ plan \subseteq BackupDays \X Files
  /\ legacy \subseteq Legacy /\ refs \subseteq Legacy /\ rplan \subseteq Legacy
  /\ rlast \subseteq Legacy /\ rcount \in [Legacy -> {0, 1}]
\* What the reclaim receipt was written for is in its history, and a plan that is
\* not that one is of temporaries not yet in it.
Accountancy ==
  /\ \A f \in Legacy : /\ rcount[f] = 1 => f \notin legacy
                       /\ f \notin legacy /\ f \notin rplan => rcount[f] = 1
                       /\ f \in rlast => rcount[f] = 1
  /\ rplan # rlast => \A f \in rplan : rcount[f] = 0
DiskInv == OnDisk /\ TempsOwned /\ ReceiptHasFile /\ Accountancy
\* What the process p knows when its local variables are r.
Place(p, r) ==
  /\ r.pc # "idle" => r.today \in BackupDays /\ r.lock \in {Round, r.today}
  /\ r.pc = "sign" => owner[r.lock] = Unsigned
  /\ r.pc = "unlink_owner" /\ r.lock # Round => temps[r.lock] = {}
  /\ r.pc \in {"backup", "copied", "replaced"} => r.lock = r.today /\ owner[r.today] = p
  /\ r.pc = "release" /\ r.lock # Round => owner[r.lock] = p
  /\ r.pc \in {"plan", "delete", "reclaim", "unlink_plan", "clear"} => r.lock = Round
  /\ r.pc = "delete" => r.todo \subseteq plan /\ \A i \in plan \ r.todo : receipt[i[1]] = Nil
  /\ r.pc \in {"reclaim", "unlink_plan", "clear"} => \A i \in plan : receipt[i[1]] = Nil
  /\ r.pc = "reclaim" => r.todo \subseteq rplan /\ rplan # rlast
                         /\ \A f \in rplan \ r.todo : f \notin legacy
  /\ r.pc = "unlink_plan" => rplan = rlast
OneRuns == \A p, q \in Procs : life[p] = "up" /\ life[q] = "up" => p = q
Running ==
  /\ life \in [Procs -> {"new", "up", "down"}] /\ proc \in [Procs -> ProcRec] /\ OneRuns
  /\ \A p \in Procs : IF life[p] = "up" THEN Place(p, proc[p]) ELSE proc[p] = FreshProc
BackupInv == DiskInv /\ Running

\* What FilesAccounted states follows.
LEMMA DiskIsAccounted == BackupInv => FilesAccounted
<1> SUFFICES ASSUME BackupInv PROVE CountedOnce
  BY DEF FilesAccounted, BackupInv, DiskInv
<1>1. \A f \in Legacy : rcount[f] \in {0, 1}
  BY DEF BackupInv, DiskInv, OnDisk
<1> QED
  BY <1>1 DEF CountedOnce, BackupInv, DiskInv, Accountancy

\* The constants of a process.
LEMMA ProcFacts ==
  /\ Procs \subseteq Nat \ {0} /\ BackupDays \subseteq Nat \ {0} /\ Legacy \subseteq Nat
  /\ Nil \notin Files /\ Unsigned \notin Procs /\ Nil \notin Procs /\ Unsigned # Nil
  /\ FreshProc \in ProcRec /\ FreshProc.pc = "idle"
<1>1. /\ Procs \subseteq Nat \ {0} /\ BackupDays \subseteq Nat \ {0} /\ Legacy \subseteq Nat
      /\ 0 \in 0..LastBackup
  BY BackupAssumption DEF Procs, BackupDays
<1>2. Nil \notin Files /\ Unsigned \notin Procs /\ Nil \notin Procs /\ Unsigned # Nil
  BY <1>1 DEF Nil, Unsigned, Files, Edited
<1>3. "idle" \in ProcPcs /\ Round \in Locks
  BY DEF ProcPcs, Locks
<1>4. FreshProc \in ProcRec /\ FreshProc.pc = "idle"
  BY <1>1, <1>3 DEF FreshProc, ProcRec
<1> QED
  BY <1>1, <1>2, <1>4

\* A step of the process that runs keeps the invariant when it keeps that of the disk and
\* leaves the process knowing what it must.
LEMMA ProcessSteps ==
  ASSUME BackupInv, NEW p \in Procs, life[p] = "up", life' = life,
         NEW r \in ProcRec, proc' = [proc EXCEPT ![p] = r], DiskInv', Place(p, r)'
  PROVE  BackupInv'
<1>1. life' \in [Procs -> {"new", "up", "down"}] /\ OneRuns'
  BY DEF BackupInv, Running, OneRuns
<1>2. proc' \in [Procs -> ProcRec] /\ proc'[p] = r /\ \A q \in Procs \ {p} : proc'[q] = proc[q]
  BY DEF BackupInv, Running
<1>3. ASSUME NEW q \in Procs
      PROVE  IF life'[q] = "up" THEN Place(q, proc[q])' ELSE proc'[q] = FreshProc
  <2>1. CASE q = p
    BY <1>2, <2>1
  <2>2. CASE q # p
    <3>1. life[q] # "up" /\ proc[q] = FreshProc
      BY <2>2 DEF BackupInv, Running, OneRuns
    <3> QED
      BY <1>2, <2>2, <3>1
  <2> QED
    BY <2>1, <2>2
<1> QED
  BY <1>1, <1>2, <1>3 DEF BackupInv, Running

\* The local variables after Goto, Leave and Goes.
LEMMA GotoGoes ==
  ASSUME proc \in [Procs -> ProcRec], NEW p \in Procs, NEW pc \in ProcPcs, Goto(p, pc)
  PROVE  \E r \in ProcRec : /\ proc' = [proc EXCEPT ![p] = r] /\ r.pc = pc
                            /\ r.today = proc[p].today /\ r.lock = proc[p].lock
                            /\ r.todo = proc[p].todo
<1> DEFINE r == [proc[p] EXCEPT !.pc = pc]
<1>1. r \in ProcRec /\ r.pc = pc /\ r.today = proc[p].today /\ r.lock = proc[p].lock
      /\ r.todo = proc[p].todo
  BY DEF ProcRec
<1>2. proc' = [proc EXCEPT ![p] = r]
  BY DEF Goto
<1> QED
  BY <1>1, <1>2

LEMMA LeaveGoes ==
  ASSUME proc \in [Procs -> ProcRec], NEW p \in Procs, NEW ok \in BOOLEAN, Leave(p, ok)
  PROVE  \E r \in ProcRec : /\ proc' = [proc EXCEPT ![p] = r] /\ r.pc = "release"
                            /\ r.today = proc[p].today /\ r.lock = proc[p].lock
<1> DEFINE r == [proc[p] EXCEPT !.pc = "release", !.ok = ok]
<1>1. "release" \in ProcPcs
  BY DEF ProcPcs
<1>2. r \in ProcRec /\ r.pc = "release" /\ r.today = proc[p].today /\ r.lock = proc[p].lock
  BY <1>1 DEF ProcRec
<1>3. proc' = [proc EXCEPT ![p] = r]
  BY DEF Leave
<1> QED
  BY <1>2, <1>3

LEMMA GoesGoes ==
  ASSUME proc \in [Procs -> ProcRec], NEW p \in Procs, NEW pc \in ProcPcs,
         NEW todo \in SUBSET ((BackupDays \X Files) \cup Legacy), Goes(p, pc, todo)
  PROVE  \E r \in ProcRec : /\ proc' = [proc EXCEPT ![p] = r] /\ r.pc = pc
                            /\ r.today = proc[p].today /\ r.lock = proc[p].lock
                            /\ r.todo = todo
<1> DEFINE r == [proc[p] EXCEPT !.pc = pc, !.todo = todo]
<1>1. r \in ProcRec /\ r.pc = pc /\ r.today = proc[p].today /\ r.lock = proc[p].lock
      /\ r.todo = todo
  BY DEF ProcRec
<1>2. proc' = [proc EXCEPT ![p] = r]
  BY DEF Goes
<1> QED
  BY <1>1, <1>2

\* What holds of the process that takes a step.
LEMMA Runs ==
  ASSUME BackupInv, NEW p \in Procs, life[p] = "up"
  PROVE  /\ DiskInv /\ proc \in [Procs -> ProcRec] /\ proc[p] \in ProcRec
         /\ Place(p, proc[p])
  BY DEF BackupInv, Running

\* What is on disk rests.
LEMMA DiskRests ==
  ASSUME DiskInv, UNCHANGED <<day, snapshots, owner, plan, reclaim>>
  PROVE  DiskInv'
<1>0. /\ UNCHANGED <<day, target, receipt, temps, owner, plan>>
      /\ UNCHANGED <<legacy, refs, rplan, rlast, rcount>>
  BY DEF snapshots, reclaim
<1>1. OnDisk'
  BY <1>0 DEF DiskInv, OnDisk
<1>2. TempsOwned' /\ ReceiptHasFile'
  BY <1>0 DEF DiskInv, TempsOwned, ReceiptHasFile
<1>3. Accountancy'
  BY <1>0 DEF DiskInv, Accountancy
<1> QED
  BY <1>1, <1>2, <1>3 DEF DiskInv

\* Steps that change nothing on disk.
LEMMA PollKeeps ==
  ASSUME BackupInv, NEW p \in Procs, PollDay(p)
  PROVE  BackupInv'
<1>1. life[p] = "up" /\ life' = life /\ UNCHANGED <<day, snapshots, owner, plan, reclaim>>
  BY DEF PollDay, At
<1>2. DiskInv /\ proc \in [Procs -> ProcRec] /\ proc[p] \in ProcRec
  BY <1>1, Runs
<1>3. PICK lock \in {Round, day} :
        proc' = [proc EXCEPT ![p] = [@ EXCEPT !.pc = "acquire", !.today = day,
                                              !.lock = lock, !.ok = TRUE]]
  BY DEF PollDay
<1>a. PICK r : r = [proc[p] EXCEPT !.pc = "acquire", !.today = day, !.lock = lock, !.ok = TRUE]
  OBVIOUS
<1>4. day \in BackupDays /\ day \in 0..LastBackup /\ lock \in Locks /\ "acquire" \in ProcPcs
  BY <1>2 DEF DiskInv, OnDisk, Locks, BackupDays, ProcPcs
<1>5. r \in ProcRec /\ r.pc = "acquire" /\ r.today = day /\ r.lock = lock
  BY <1>a, <1>2, <1>4 DEF ProcRec
<1>6. proc' = [proc EXCEPT ![p] = r]
  BY <1>a, <1>3
<1>7. Place(p, r)'
  BY <1>1, <1>3, <1>4, <1>5 DEF Place
<1>8. DiskInv'
  BY <1>1, <1>2, DiskRests
<1> QED
  BY <1>1, <1>5, <1>6, <1>7, <1>8, ProcessSteps

LEMMA BusyKeeps ==
  ASSUME BackupInv, NEW p \in Procs, Busy(p) \/ Refused(p)
  PROVE  BackupInv'
<1>1. /\ life[p] = "up" /\ proc[p].pc = "acquire"
      /\ life' = life /\ UNCHANGED <<day, snapshots, owner, plan, reclaim>>
  <2>1. CASE Busy(p)
    BY <2>1 DEF Busy, At
  <2>2. CASE Refused(p)
    BY <2>2 DEF Refused, At
  <2> QED
    BY <2>1, <2>2
<1>2. DiskInv /\ proc \in [Procs -> ProcRec] /\ proc[p] \in ProcRec /\ Place(p, proc[p])
  BY <1>1, Runs
<1>3. Round \in Locks /\ "idle" \in ProcPcs
  BY DEF Locks, ProcPcs
<1>4. \E r \in ProcRec :
        /\ proc' = [proc EXCEPT ![p] = r]
        /\ \/ r.pc = "idle"
           \/ r.pc = "acquire" /\ r.lock = Round /\ r.today = proc[p].today
  <2>1. CASE Refused(p)
    <3>1. Goto(p, "idle")
      BY <2>1 DEF Refused
    <3> QED
      BY <1>2, <1>3, <3>1, GotoGoes
  <2>2. CASE Busy(p) /\ Lock(p) = Round
    <3> DEFINE r == [proc[p] EXCEPT !.pc = "idle", !.last = Today(p)]
    <3>1. Today(p) \in 0..LastBackup
      BY <1>2 DEF Today, ProcRec
    <3>2. r \in ProcRec /\ r.pc = "idle"
      BY <1>2, <1>3, <3>1 DEF ProcRec
    <3>3. proc' = [proc EXCEPT ![p] = r]
      BY <2>2 DEF Busy
    <3> QED
      BY <3>2, <3>3
  <2>3. CASE Busy(p) /\ Lock(p) # Round
    <3> DEFINE r == [proc[p] EXCEPT !.lock = Round]
    <3>2. r \in ProcRec /\ r.pc = "acquire" /\ r.lock = Round /\ r.today = proc[p].today
      BY <1>1, <1>2, <1>3 DEF ProcRec
    <3>3. proc' = [proc EXCEPT ![p] = r]
      BY <1>2, <2>3 DEF Busy
    <3> QED
      BY <3>2, <3>3
  <2> QED
    BY <2>1, <2>2, <2>3
<1>5. PICK r \in ProcRec :
        /\ proc' = [proc EXCEPT ![p] = r]
        /\ \/ r.pc = "idle"
           \/ r.pc = "acquire" /\ r.lock = Round /\ r.today = proc[p].today
  BY <1>4
<1>6. Place(p, r)'
  BY <1>1, <1>2, <1>5 DEF Place
<1>7. DiskInv'
  BY <1>1, <1>2, DiskRests
<1> QED
  BY <1>1, <1>5, <1>6, <1>7, ProcessSteps

\* A lock gets an owner that names what is left of its temporaries.
LEMMA OwnerChanges ==
  ASSUME DiskInv, NEW l \in Locks, NEW o \in Procs \cup {Nil, Unsigned},
         owner' = [owner EXCEPT ![l] = o],
         temps' \in [BackupDays -> SUBSET Procs],
         \A d \in BackupDays : temps'[d] \subseteq IF d = l THEN {o} ELSE temps[d],
         UNCHANGED <<day, target, receipt, plan>>, UNCHANGED reclaim
  PROVE  DiskInv'
<1>1. UNCHANGED <<legacy, refs, rplan, rlast, rcount>>
  BY DEF reclaim
<1>2. owner' \in [Locks -> Procs \cup {Nil, Unsigned}] /\ owner'[l] = o
      /\ \A k \in Locks \ {l} : owner'[k] = owner[k]
  BY DEF DiskInv, OnDisk
<1>3. OnDisk'
  BY <1>1, <1>2 DEF DiskInv, OnDisk
<1>4. TempsOwned'
  BY <1>2 DEF DiskInv, TempsOwned, Locks
<1>5. ReceiptHasFile' /\ Accountancy'
  BY <1>1 DEF DiskInv, ReceiptHasFile, Accountancy
<1> QED
  BY <1>3, <1>4, <1>5 DEF DiskInv

\* The same when no temporary is touched.
LEMMA OwnerMoves ==
  ASSUME DiskInv, NEW l \in Locks, NEW o \in Procs \cup {Nil, Unsigned},
         owner' = [owner EXCEPT ![l] = o], l # Round => temps[l] \subseteq {o},
         UNCHANGED <<day, snapshots, plan, reclaim>>
  PROVE  DiskInv'
<1>1. UNCHANGED <<day, target, receipt, plan>> /\ temps' = temps /\ UNCHANGED reclaim
  BY DEF snapshots
<1>2. /\ temps' \in [BackupDays -> SUBSET Procs]
      /\ \A d \in BackupDays : temps'[d] \subseteq IF d = l THEN {o} ELSE temps[d]
  BY <1>1, ProcFacts DEF DiskInv, OnDisk, Round
<1> QED
  BY <1>1, <1>2, OwnerChanges

\* An owner directory that is not a process's holds no temporary.
LEMMA NobodysTemps ==
  ASSUME DiskInv, NEW d \in BackupDays, owner[d] \notin Procs
  PROVE  temps[d] = {}
  BY DEF DiskInv, OnDisk, TempsOwned

\* The steps of an owner directory: made, signed, evicted, given back.
LEMMA MkdirKeeps ==
  ASSUME BackupInv, NEW p \in Procs, Mkdir(p)
  PROVE  BackupInv'
<1> DEFINE l == proc[p].lock
<1>1. /\ life' = life /\ life[p] = "up" /\ proc[p].pc = "acquire" /\ owner[l] = Nil
      /\ owner' = [owner EXCEPT ![l] = Unsigned] /\ Goto(p, "sign")
      /\ UNCHANGED <<day, snapshots, plan, reclaim>>
  BY DEF Mkdir, At, Lock
<1>2. DiskInv /\ proc \in [Procs -> ProcRec] /\ proc[p] \in ProcRec /\ Place(p, proc[p])
  BY <1>1, Runs
<1>3. l \in Locks /\ "sign" \in ProcPcs
  BY <1>2 DEF ProcRec, ProcPcs
<1>4. PICK r \in ProcRec : /\ proc' = [proc EXCEPT ![p] = r] /\ r.pc = "sign"
                           /\ r.today = proc[p].today /\ r.lock = proc[p].lock
  BY <1>1, <1>2, <1>3, GotoGoes
<1>5. l # Round => temps[l] \subseteq {Unsigned}
  BY <1>1, <1>2, <1>3, NobodysTemps, ProcFacts DEF Locks
<1>6. DiskInv'
  BY <1>1, <1>2, <1>3, <1>5, OwnerMoves
<1>7. owner'[l] = Unsigned
  BY <1>1, <1>2, <1>3 DEF DiskInv, OnDisk
<1>8. Place(p, r)'
  BY <1>1, <1>2, <1>4, <1>7 DEF Place
<1> QED
  BY <1>1, <1>4, <1>6, <1>8, ProcessSteps

LEMMA SignKeeps ==
  ASSUME BackupInv, NEW p \in Procs, Sign(p)
  PROVE  BackupInv'
<1> DEFINE l == proc[p].lock
<1>1. life' = life /\ life[p] = "up" /\ proc[p].pc = "sign"
  BY DEF Sign, At
<1>2. DiskInv /\ proc \in [Procs -> ProcRec] /\ proc[p] \in ProcRec /\ Place(p, proc[p])
  BY <1>1, Runs
<1>3. owner[l] = Unsigned /\ proc[p].today \in BackupDays /\ l \in {Round, proc[p].today}
  BY <1>1, <1>2 DEF Place
<1>4. ~(owner[l] = Nil)
  BY <1>3, ProcFacts
<1>5. /\ owner' = [owner EXCEPT ![l] = p] /\ Goto(p, IF l = Round THEN "plan" ELSE "backup")
      /\ UNCHANGED <<day, snapshots, plan, reclaim>>
  BY <1>4 DEF Sign, Lock
<1>6. l \in Locks /\ (IF l = Round THEN "plan" ELSE "backup") \in ProcPcs
  BY <1>2 DEF ProcRec, ProcPcs
<1>7. PICK r \in ProcRec : /\ proc' = [proc EXCEPT ![p] = r]
                           /\ r.pc = IF l = Round THEN "plan" ELSE "backup"
                           /\ r.today = proc[p].today /\ r.lock = proc[p].lock
  BY <1>2, <1>5, <1>6, GotoGoes
<1>8. l # Round => temps[l] \subseteq {p}
  BY <1>2, <1>3, <1>6, NobodysTemps, ProcFacts DEF Locks
<1>9. DiskInv'
  BY <1>2, <1>5, <1>6, <1>8, OwnerMoves
<1>10. owner'[l] = p
  BY <1>2, <1>5, <1>6 DEF DiskInv, OnDisk
<1>11. Place(p, r)'
  <2>1. CASE l = Round
    BY <1>3, <1>7, <2>1 DEF Place
  <2>2. CASE l # Round
    BY <1>3, <1>7, <1>10, <2>2 DEF Place
  <2> QED
    BY <2>1, <2>2
<1> QED
  BY <1>1, <1>7, <1>9, <1>11, ProcessSteps

LEMMA TempsLeave ==
  ASSUME DiskInv, NEW l \in Locks, NEW q,
         temps' = IF l = Round THEN temps ELSE [temps EXCEPT ![l] = @ \ {q}]
  PROVE  /\ temps' \in [BackupDays -> SUBSET Procs]
         /\ \A d \in BackupDays : temps'[d] = IF d = l THEN temps[d] \ {q} ELSE temps[d]
<1>1. temps \in [BackupDays -> SUBSET Procs] /\ Round \notin BackupDays
  BY ProcFacts DEF DiskInv, OnDisk, Round
<1>2. CASE l = Round
  BY <1>1, <1>2
<1>3. CASE l # Round
  <2>1. l \in BackupDays /\ temps' = [temps EXCEPT ![l] = temps[l] \ {q}]
    BY <1>3 DEF Locks
  <2> QED
    BY <1>1, <2>1
<1> QED
  BY <1>2, <1>3

LEMMA EvictKeeps ==
  ASSUME BackupInv, NEW p \in Procs, Evict(p)
  PROVE  BackupInv'
<1> DEFINE l == proc[p].lock
<1>1. /\ life' = life /\ life[p] = "up" /\ proc[p].pc = "acquire" /\ owner[l] \in Procs
      /\ UNCHANGED <<day, target, receipt, owner, plan>> /\ UNCHANGED reclaim
  BY DEF Evict, At, Lock, DeadOwner
<1>b. Goto(p, "unlink_owner")
  BY DEF Evict
<1>a. temps' = IF l = Round THEN temps ELSE [temps EXCEPT ![l] = @ \ {owner[l]}]
  BY DEF Evict, Lock, Leftover
<1>2. DiskInv /\ proc \in [Procs -> ProcRec] /\ proc[p] \in ProcRec /\ Place(p, proc[p])
  BY <1>1, Runs
<1>3. l \in Locks /\ "unlink_owner" \in ProcPcs
  BY <1>2 DEF ProcRec, ProcPcs
<1>4. PICK r \in ProcRec : /\ proc' = [proc EXCEPT ![p] = r] /\ r.pc = "unlink_owner"
                           /\ r.today = proc[p].today /\ r.lock = l
  BY <1>b, <1>2, <1>3, GotoGoes
<1> HIDE DEF l
<1>5. /\ temps' \in [BackupDays -> SUBSET Procs]
      /\ \A d \in BackupDays : temps'[d] = IF d = l THEN temps[d] \ {owner[l]} ELSE temps[d]
  BY <1>a, <1>2, <1>3, TempsLeave
<1>6. l # Round => l \in BackupDays /\ temps'[l] = {}
  BY <1>2, <1>3, <1>5 DEF DiskInv, TempsOwned, Locks
<1>7. DiskInv'
  <2>1. owner' = [owner EXCEPT ![l] = owner[l]] /\ owner[l] \in Procs \cup {Nil, Unsigned}
    BY <1>1, <1>2, <1>3 DEF DiskInv, OnDisk
  <2>2. \A d \in BackupDays : temps'[d] \subseteq IF d = l THEN {owner[l]} ELSE temps[d]
    BY <1>2, <1>5 DEF DiskInv, TempsOwned
  <2> QED
    BY <1>1, <1>2, <1>3, <1>5, <2>1, <2>2, OwnerChanges
<1>8. Place(p, r)'
  BY <1>1, <1>2, <1>4, <1>6 DEF Place, l
<1> QED
  BY <1>1, <1>4, <1>7, <1>8, ProcessSteps

LEMMA EvictEvidenceKeeps ==
  ASSUME BackupInv, NEW p \in Procs, EvictEvidence(p)
  PROVE  BackupInv'
<1> DEFINE l == proc[p].lock
           pc == IF owner[l] \in Procs \/ l # Round THEN "evict" ELSE "idle"
<1>1. /\ life' = life /\ life[p] = "up" /\ proc[p].pc = "unlink_owner"
      /\ owner' = [owner EXCEPT ![l] = Unlink(l)]
      /\ UNCHANGED <<day, snapshots, plan, reclaim>>
  BY DEF EvictEvidence, At, Lock
<1>a. Goto(p, pc)
  BY DEF EvictEvidence, Lock
<1>2. DiskInv /\ proc \in [Procs -> ProcRec] /\ proc[p] \in ProcRec /\ Place(p, proc[p])
  BY <1>1, Runs
<1>3. l \in Locks /\ pc \in ProcPcs /\ pc \in {"evict", "idle"}
  BY <1>2 DEF ProcRec, ProcPcs
<1>4. PICK r \in ProcRec : /\ proc' = [proc EXCEPT ![p] = r] /\ r.pc = pc
                           /\ r.today = proc[p].today /\ r.lock = proc[p].lock
  BY <1>a, <1>2, <1>3, GotoGoes
<1>5. l # Round => temps[l] \subseteq {Unlink(l)}
  <2>1. l # Round => temps[l] = {}
    BY <1>1, <1>2 DEF Place
  <2> QED
    BY <2>1
<1>6. Unlink(l) \in Procs \cup {Nil, Unsigned}
  BY DEF Unlink
<1>7. DiskInv'
  BY <1>1, <1>2, <1>3, <1>5, <1>6, OwnerMoves
<1> HIDE DEF pc
<1>8. Place(p, r)'
  BY <1>1, <1>2, <1>3, <1>4 DEF Place
<1> QED
  BY <1>1, <1>4, <1>7, <1>8, ProcessSteps

\* An owner directory without evidence is removed, and only such a one.
LEMMA DirectoryGoes ==
  ASSUME DiskInv, NEW l \in Locks,
         owner' = IF owner[l] = Unsigned THEN [owner EXCEPT ![l] = Nil] ELSE owner,
         UNCHANGED <<day, snapshots, plan, reclaim>>
  PROVE  DiskInv'
<1>1. CASE owner[l] = Unsigned
  <2>1. l # Round => temps[l] \subseteq {Nil}
    BY <1>1, NobodysTemps, ProcFacts DEF Locks
  <2> QED
    BY <1>1, <2>1, OwnerMoves
<1>2. CASE owner[l] # Unsigned
  BY <1>2, DiskRests
<1> QED
  BY <1>1, <1>2

LEMMA EvictDirectoryKeeps ==
  ASSUME BackupInv, NEW p \in Procs, EvictDirectory(p)
  PROVE  BackupInv'
<1> DEFINE l == proc[p].lock
           pc == IF owner[l] = Unsigned THEN "acquire" ELSE "idle"
<1>1. /\ life' = life /\ life[p] = "up" /\ proc[p].pc = "evict"
      /\ owner' = IF owner[l] = Unsigned THEN [owner EXCEPT ![l] = Nil] ELSE owner
      /\ Goto(p, pc) /\ UNCHANGED <<day, snapshots, plan, reclaim>>
  BY DEF EvictDirectory, At, Lock
<1>2. DiskInv /\ proc \in [Procs -> ProcRec] /\ proc[p] \in ProcRec /\ Place(p, proc[p])
  BY <1>1, Runs
<1>3. l \in Locks /\ pc \in ProcPcs /\ pc \in {"acquire", "idle"}
  BY <1>2 DEF ProcRec, ProcPcs
<1>4. PICK r \in ProcRec : /\ proc' = [proc EXCEPT ![p] = r] /\ r.pc = pc
                           /\ r.today = proc[p].today /\ r.lock = proc[p].lock
  BY <1>1, <1>2, <1>3, GotoGoes
<1>5. DiskInv'
  BY <1>1, <1>2, <1>3, DirectoryGoes
<1> HIDE DEF pc
<1>6. Place(p, r)'
  BY <1>1, <1>2, <1>3, <1>4 DEF Place
<1> QED
  BY <1>1, <1>4, <1>5, <1>6, ProcessSteps

LEMMA ReleaseEvidenceKeeps ==
  ASSUME BackupInv, NEW p \in Procs, ReleaseEvidence(p)
  PROVE  BackupInv'
<1> DEFINE l == proc[p].lock
<1>1. /\ life' = life /\ life[p] = "up" /\ proc[p].pc = "release"
      /\ owner' = [owner EXCEPT ![l] = Unlink(l)]
      /\ temps' = IF l = Round THEN temps ELSE [temps EXCEPT ![l] = @ \ {p}]
      /\ Goto(p, "rmdir")
      /\ UNCHANGED <<day, target, receipt, plan>> /\ UNCHANGED reclaim
  BY DEF ReleaseEvidence, At, Lock
<1>2. DiskInv /\ proc \in [Procs -> ProcRec] /\ proc[p] \in ProcRec /\ Place(p, proc[p])
  BY <1>1, Runs
<1>3. l \in Locks /\ "rmdir" \in ProcPcs
  BY <1>2 DEF ProcRec, ProcPcs
<1>4. PICK r \in ProcRec : /\ proc' = [proc EXCEPT ![p] = r] /\ r.pc = "rmdir"
                           /\ r.today = proc[p].today /\ r.lock = l
  BY <1>1, <1>2, <1>3, GotoGoes
<1>5. l # Round => owner[l] = p
  BY <1>1, <1>2 DEF Place
<1>6. Unlink(l) \in Procs \cup {Nil, Unsigned}
  BY DEF Unlink
<1>7. DiskInv'
  <2> HIDE DEF l
  <2>1. /\ temps' \in [BackupDays -> SUBSET Procs]
        /\ \A d \in BackupDays : temps'[d] = IF d = l THEN temps[d] \ {p} ELSE temps[d]
    BY <1>1, <1>2, <1>3, TempsLeave
  <2>2. \A d \in BackupDays : temps'[d] \subseteq IF d = l THEN {Unlink(l)} ELSE temps[d]
    BY <1>2, <1>5, <2>1, ProcFacts DEF DiskInv, TempsOwned, Round
  <2> QED
    BY <1>1, <1>2, <1>3, <1>6, <2>1, <2>2, OwnerChanges
<1>8. Place(p, r)'
  BY <1>1, <1>2, <1>4 DEF Place
<1> QED
  BY <1>1, <1>4, <1>7, <1>8, ProcessSteps

LEMMA ReleaseKeeps ==
  ASSUME BackupInv, NEW p \in Procs, Release(p)
  PROVE  BackupInv'
<1> DEFINE l == proc[p].lock
           done == owner[l] = Unsigned /\ proc[p].ok
           pc == IF done /\ l # Round THEN "acquire" ELSE "idle"
           late == IF done /\ l = Round THEN proc[p].today ELSE proc[p].last
<1>1. /\ life' = life /\ life[p] = "up" /\ proc[p].pc = "rmdir"
      /\ owner' = IF owner[l] = Unsigned THEN [owner EXCEPT ![l] = Nil] ELSE owner
      /\ UNCHANGED <<day, snapshots, plan, reclaim>>
  BY DEF Release, At, Lock
<1>a. proc' = [proc EXCEPT ![p] = [@ EXCEPT !.pc = pc, !.last = late, !.lock = Round]]
  BY DEF Release, Lock, Today
<1>2. DiskInv /\ proc \in [Procs -> ProcRec] /\ proc[p] \in ProcRec /\ Place(p, proc[p])
  BY <1>1, Runs
<1>3. /\ l \in Locks /\ pc \in ProcPcs /\ pc \in {"acquire", "idle"} /\ Round \in Locks
      /\ late \in 0..LastBackup
  BY <1>2 DEF ProcRec, ProcPcs, Locks
<1>4. DiskInv'
  BY <1>1, <1>2, <1>3, DirectoryGoes
<1> HIDE DEF pc, late
<1>5. PICK r : r = [proc[p] EXCEPT !.pc = pc, !.last = late, !.lock = Round]
  OBVIOUS
<1>6. r \in ProcRec /\ r.pc = pc /\ r.lock = Round /\ r.today = proc[p].today
  BY <1>2, <1>3, <1>5 DEF ProcRec
<1>7. proc' = [proc EXCEPT ![p] = r]
  BY <1>a, <1>5
<1>8. Place(p, r)'
  BY <1>1, <1>2, <1>3, <1>6 DEF Place
<1> QED
  BY <1>1, <1>4, <1>6, <1>7, <1>8, ProcessSteps

\* The steps of the backup of a day: its lock is the process's own.
LEMMA AdoptKeeps ==
  ASSUME BackupInv, NEW p \in Procs, Adopt(p)
  PROVE  BackupInv'
<1> DEFINE t == proc[p].today
           ok == receipt'[t] = target[t]
<1>1. /\ life' = life /\ life[p] = "up" /\ proc[p].pc = "backup"
      /\ UNCHANGED <<day, target, temps, owner, plan>> /\ UNCHANGED reclaim
  BY DEF Adopt, At
<1>2. /\ target[t] # Nil \/ receipt[t] # Nil
      /\ receipt' = IF receipt[t] # Nil THEN receipt ELSE [receipt EXCEPT ![t] = target[t]]
  BY DEF Adopt, Today, Existing
<1>3. Leave(p, ok)
  BY DEF Adopt, Today
<1>4. DiskInv /\ proc \in [Procs -> ProcRec] /\ proc[p] \in ProcRec /\ Place(p, proc[p])
  BY <1>1, Runs
<1>5. t \in BackupDays /\ proc[p].lock = t /\ owner[t] = p
  BY <1>1, <1>4 DEF Place
<1>6. PICK r \in ProcRec : /\ proc' = [proc EXCEPT ![p] = r] /\ r.pc = "release"
                           /\ r.today = proc[p].today /\ r.lock = proc[p].lock
  BY <1>3, <1>4, LeaveGoes
<1>7. /\ receipt' \in [BackupDays -> Files \cup {Nil}]
      /\ \A d \in BackupDays : receipt'[d] = receipt[d] \/ (d = t /\ receipt'[d] = target[d]
                                                              /\ target[d] # Nil)
  <2> HIDE DEF t
  <2>1. receipt \in [BackupDays -> Files \cup {Nil}] /\ target[t] \in Files \cup {Nil}
    BY <1>4, <1>5 DEF DiskInv, OnDisk
  <2> QED
    BY <1>2, <1>5, <2>1
<1>8. UNCHANGED <<legacy, refs, rplan, rlast, rcount>>
  BY <1>1 DEF reclaim
<1>9. OnDisk' /\ TempsOwned' /\ Accountancy'
  BY <1>1, <1>4, <1>7, <1>8 DEF DiskInv, OnDisk, TempsOwned, Accountancy
<1>10. ReceiptHasFile'
  BY <1>1, <1>4, <1>7 DEF DiskInv, ReceiptHasFile
<1>11. Place(p, r)'
  BY <1>1, <1>5, <1>6 DEF Place
<1> QED
  BY <1>1, <1>6, <1>9, <1>10, <1>11, ProcessSteps DEF DiskInv

LEMMA CopyKeeps ==
  ASSUME BackupInv, NEW p \in Procs, Copy(p)
  PROVE  BackupInv'
<1> DEFINE t == proc[p].today
<1>1. /\ life' = life /\ life[p] = "up" /\ proc[p].pc = "backup"
      /\ UNCHANGED <<day, target, receipt, owner, plan>> /\ UNCHANGED reclaim
  BY DEF Copy, At
<1>2. temps' = [temps EXCEPT ![t] = @ \cup {p}] /\ Goto(p, "copied")
  BY DEF Copy, Today
<1>3. DiskInv /\ proc \in [Procs -> ProcRec] /\ proc[p] \in ProcRec /\ Place(p, proc[p])
  BY <1>1, Runs
<1>4. t \in BackupDays /\ proc[p].lock = t /\ owner[t] = p
  BY <1>1, <1>3 DEF Place
<1>5. "copied" \in ProcPcs
  BY DEF ProcPcs
<1>6. PICK r \in ProcRec : /\ proc' = [proc EXCEPT ![p] = r] /\ r.pc = "copied"
                           /\ r.today = proc[p].today /\ r.lock = proc[p].lock
  BY <1>2, <1>3, <1>5, GotoGoes
<1>7. DiskInv'
  <2> HIDE DEF t
  <2>1. temps \in [BackupDays -> SUBSET Procs] /\ temps[t] \subseteq {p}
        /\ owner \in [Locks -> Procs \cup {Nil, Unsigned}] /\ t \in Locks
    BY <1>3, <1>4 DEF DiskInv, OnDisk, TempsOwned, Locks
  <2>2. owner' = [owner EXCEPT ![t] = p]
    BY <1>1, <1>4, <2>1
  <2>3. temps' \in [BackupDays -> SUBSET Procs]
    BY <1>2, <1>4, <2>1
  <2>4. \A d \in BackupDays : temps'[d] \subseteq IF d = t THEN {p} ELSE temps[d]
    BY <1>2, <1>4, <2>1
  <2> QED
    BY <1>1, <1>3, <2>1, <2>2, <2>3, <2>4, OwnerChanges
<1>8. Place(p, r)'
  BY <1>1, <1>4, <1>6 DEF Place
<1> QED
  BY <1>1, <1>6, <1>7, <1>8, ProcessSteps

LEMMA ReplaceKeeps ==
  ASSUME BackupInv, NEW p \in Procs, Replace(p)
  PROVE  BackupInv'
<1> DEFINE t == proc[p].today
<1>1. /\ life' = life /\ life[p] = "up" /\ proc[p].pc = "copied"
      /\ UNCHANGED <<day, receipt, owner, plan>> /\ UNCHANGED reclaim
  BY DEF Replace, At
<1>2. /\ temps' = [temps EXCEPT ![t] = @ \ {p}] /\ target' = [target EXCEPT ![t] = p]
      /\ Goto(p, "replaced")
  BY DEF Replace, Today
<1>3. DiskInv /\ proc \in [Procs -> ProcRec] /\ proc[p] \in ProcRec /\ Place(p, proc[p])
  BY <1>1, Runs
<1>4. t \in BackupDays /\ proc[p].lock = t /\ owner[t] = p
  BY <1>1, <1>3 DEF Place
<1>5. "replaced" \in ProcPcs
  BY DEF ProcPcs
<1>6. PICK r \in ProcRec : /\ proc' = [proc EXCEPT ![p] = r] /\ r.pc = "replaced"
                           /\ r.today = proc[p].today /\ r.lock = proc[p].lock
  BY <1>2, <1>3, <1>5, GotoGoes
<1>7. UNCHANGED <<legacy, refs, rplan, rlast, rcount>>
  BY <1>1 DEF reclaim
<1>8. DiskInv'
  <2> HIDE DEF t
  <2>1. /\ temps \in [BackupDays -> SUBSET Procs] /\ target \in [BackupDays -> Files \cup {Nil}]
        /\ p \in Files /\ p # Nil
    BY <1>3, ProcFacts DEF DiskInv, OnDisk, Files
  <2>2. /\ temps' \in [BackupDays -> SUBSET Procs]
        /\ \A d \in BackupDays : temps'[d] \subseteq temps[d]
    BY <1>2, <1>4, <2>1
  <2>3. /\ target' \in [BackupDays -> Files \cup {Nil}]
        /\ \A d \in BackupDays : target'[d] = target[d] \/ target'[d] # Nil
    BY <1>2, <1>4, <2>1
  <2>4. OnDisk'
    BY <1>1, <1>3, <1>7, <2>2, <2>3 DEF DiskInv, OnDisk
  <2>5. TempsOwned' /\ ReceiptHasFile' /\ Accountancy'
    BY <1>1, <1>3, <1>7, <2>2, <2>3 DEF DiskInv, TempsOwned, ReceiptHasFile, Accountancy
  <2> QED
    BY <2>4, <2>5 DEF DiskInv
<1>9. Place(p, r)'
  BY <1>1, <1>4, <1>6 DEF Place
<1> QED
  BY <1>1, <1>6, <1>8, <1>9, ProcessSteps

LEMMA ReceiptKeeps ==
  ASSUME BackupInv, NEW p \in Procs, Receipt(p)
  PROVE  BackupInv'
<1> DEFINE t == proc[p].today
<1>1. /\ life' = life /\ life[p] = "up" /\ proc[p].pc = "replaced"
      /\ UNCHANGED <<day, target, temps, owner, plan>> /\ UNCHANGED reclaim
  BY DEF Receipt, At
<1>2. receipt' = [receipt EXCEPT ![t] = target[t]] /\ Leave(p, TRUE)
  BY DEF Receipt, Today
<1>3. DiskInv /\ proc \in [Procs -> ProcRec] /\ proc[p] \in ProcRec /\ Place(p, proc[p])
  BY <1>1, Runs
<1>4. t \in BackupDays /\ proc[p].lock = t /\ owner[t] = p
  BY <1>1, <1>3 DEF Place
<1>5. PICK r \in ProcRec : /\ proc' = [proc EXCEPT ![p] = r] /\ r.pc = "release"
                           /\ r.today = proc[p].today /\ r.lock = proc[p].lock
  BY <1>2, <1>3, LeaveGoes
<1>6. UNCHANGED <<legacy, refs, rplan, rlast, rcount>>
  BY <1>1 DEF reclaim
<1>7. DiskInv'
  <2> HIDE DEF t
  <2>1. /\ receipt \in [BackupDays -> Files \cup {Nil}]
        /\ target[t] \in Files \cup {Nil}
    BY <1>3, <1>4 DEF DiskInv, OnDisk
  <2>2. /\ receipt' \in [BackupDays -> Files \cup {Nil}]
        /\ \A d \in BackupDays : receipt'[d] = receipt[d] \/ receipt'[d] = target[d]
    BY <1>2, <1>4, <2>1
  <2>3. OnDisk'
    BY <1>1, <1>3, <1>6, <2>2 DEF DiskInv, OnDisk
  <2>4. TempsOwned' /\ Accountancy'
    BY <1>1, <1>3, <1>6 DEF DiskInv, TempsOwned, Accountancy
  <2>5. ReceiptHasFile'
    BY <1>1, <1>3, <2>2 DEF DiskInv, ReceiptHasFile
  <2> QED
    BY <2>3, <2>4, <2>5 DEF DiskInv
<1>8. Place(p, r)'
  BY <1>1, <1>4, <1>5 DEF Place
<1> QED
  BY <1>1, <1>5, <1>7, <1>8, ProcessSteps

LEMMA CopyFailsKeeps ==
  ASSUME BackupInv, NEW p \in Procs, CopyFails(p)
  PROVE  BackupInv'
<1>1. /\ life' = life /\ life[p] = "up" /\ proc[p].pc \in {"copied", "replaced"}
      /\ Leave(p, FALSE)
      /\ UNCHANGED <<day, target, receipt, temps, owner, plan>> /\ UNCHANGED reclaim
  BY DEF CopyFails, At
<1>2. DiskInv /\ proc \in [Procs -> ProcRec] /\ proc[p] \in ProcRec /\ Place(p, proc[p])
  BY <1>1, Runs
<1>3. PICK r \in ProcRec : /\ proc' = [proc EXCEPT ![p] = r] /\ r.pc = "release"
                           /\ r.today = proc[p].today /\ r.lock = proc[p].lock
  BY <1>1, <1>2, LeaveGoes
<1>4. UNCHANGED <<legacy, refs, rplan, rlast, rcount>>
  BY <1>1 DEF reclaim
<1>5. DiskInv'
  BY <1>1, <1>2, <1>4
     DEF DiskInv, OnDisk, TempsOwned, ReceiptHasFile, Accountancy
<1>6. Place(p, r)'
  BY <1>1, <1>2, <1>3 DEF Place
<1> QED
  BY <1>1, <1>3, <1>5, <1>6, ProcessSteps

\* The retention round: every pair still to delete is in the plan on disk, and the
\* receipts of those done are gone.
LEMMA PlanKeeps ==
  ASSUME BackupInv, NEW p \in Procs, Plan(p)
  PROVE  BackupInv'
<1> DEFINE made == {<<d, target[d]>> : d \in Managed \ Retained(Managed, Today(p))}
<1>1. /\ life' = life /\ life[p] = "up" /\ proc[p].pc = "plan"
      /\ UNCHANGED <<day, target, receipt, temps, owner>> /\ UNCHANGED reclaim
  BY DEF Plan, At, snapshots
<1>2. \/ plan # {} /\ Goes(p, "delete", plan) /\ plan' = plan
      \/ plan' = made /\ Goes(p, "delete", made)
      \/ Leave(p, FALSE) /\ plan' = plan
  BY DEF Plan
<1>12. plan' = plan \/ plan = {}
  BY DEF Plan
<1>3. DiskInv /\ proc \in [Procs -> ProcRec] /\ proc[p] \in ProcRec /\ Place(p, proc[p])
  BY <1>1, Runs
<1>4. proc[p].lock = Round /\ proc[p].today \in BackupDays
  BY <1>1, <1>3 DEF Place
<1>5. made \subseteq BackupDays \X Files /\ plan \subseteq BackupDays \X Files
  <2> DEFINE kept == Retained(Managed, Today(p))
  <2>1. \A d \in BackupDays : target[d] # Nil => target[d] \in Files
    BY <1>3 DEF DiskInv, OnDisk
  <2>2. \A d \in Managed : d \in BackupDays /\ target[d] \in Files
    BY <2>1 DEF Managed
  <2>3. plan \subseteq BackupDays \X Files
    BY <1>3 DEF DiskInv, OnDisk
  <2> HIDE DEF kept
  <2>4. {<<d, target[d]>> : d \in Managed \ kept} \subseteq BackupDays \X Files
    BY <2>2
  <2> QED
    BY <2>3, <2>4 DEF kept
<1> HIDE DEF made
<1>6. UNCHANGED <<legacy, refs, rplan, rlast, rcount>>
  BY <1>1 DEF reclaim
<1>7. plan' \subseteq BackupDays \X Files /\ (plan' = plan \/ plan = {})
  <2>1. plan' = made => plan' \subseteq BackupDays \X Files
    BY <1>5
  <2> QED
    BY <1>2, <1>5, <1>12, <2>1
<1>8. DiskInv'
  <2>1. OnDisk' /\ TempsOwned' /\ Accountancy'
    BY <1>1, <1>3, <1>6, <1>7 DEF DiskInv, OnDisk, TempsOwned, Accountancy
  <2>2. ReceiptHasFile'
    BY <1>1, <1>3, <1>7 DEF DiskInv, ReceiptHasFile
  <2> QED
    BY <2>1, <2>2 DEF DiskInv
<1>9. "delete" \in ProcPcs
  BY DEF ProcPcs
<1>10. ASSUME Goes(p, "delete", plan') PROVE BackupInv'
  <2>1. plan' \in SUBSET ((BackupDays \X Files) \cup Legacy)
    BY <1>7
  <2>2. PICK r \in ProcRec : /\ proc' = [proc EXCEPT ![p] = r] /\ r.pc = "delete"
                             /\ r.today = proc[p].today /\ r.lock = proc[p].lock
                             /\ r.todo = plan'
    BY <1>3, <1>9, <1>10, <2>1, GoesGoes
  <2>3. Place(p, r)'
    BY <1>4, <2>2 DEF Place
  <2> QED
    BY <1>1, <1>8, <2>2, <2>3, ProcessSteps
<1>11. ASSUME Leave(p, FALSE) PROVE BackupInv'
  <2>1. PICK r \in ProcRec : /\ proc' = [proc EXCEPT ![p] = r] /\ r.pc = "release"
                             /\ r.today = proc[p].today /\ r.lock = proc[p].lock
    BY <1>3, <1>11, LeaveGoes
  <2>2. Place(p, r)'
    BY <1>4, <2>1 DEF Place
  <2> QED
    BY <1>1, <1>8, <2>1, <2>2, ProcessSteps
<1> QED
  BY <1>2, <1>10, <1>11

\* The pair that is next.
LEMMA ItemIsTodo ==
  ASSUME NEW p \in Procs, proc[p].todo \subseteq BackupDays \X Files, proc[p].todo # {}
  PROVE  Item(p) \in proc[p].todo
<1> DEFINE todo == proc[p].todo
           firsts == {i[1] : i \in todo}
<1>1. firsts \in SUBSET Nat /\ firsts # {}
  BY ProcFacts
<1>2. PICK m \in firsts : \A n \in firsts : m <= n
  BY <1>1, HasLeast
<1>3. PICK i \in todo : m = i[1]
  BY <1>2
<1>4. \A j \in todo : i[1] <= j[1]
  BY <1>2, <1>3
<1> QED
  BY <1>3, <1>4 DEF Item

LEMMA DeleteTargetKeeps ==
  ASSUME BackupInv, NEW p \in Procs, DeleteTarget(p)
  PROVE  BackupInv'
<1> DEFINE i == Item(p)
<1>1. /\ life' = life /\ life[p] = "up" /\ proc[p].pc = "delete" /\ proc[p].todo # {}
      /\ UNCHANGED <<day, receipt, temps, owner, plan>> /\ UNCHANGED reclaim
  BY DEF DeleteTarget, At
<1>2. /\ target' = IF Intact(i) THEN [target EXCEPT ![i[1]] = Nil] ELSE target
      /\ Intact(i) => proc' = proc
      /\ ~Intact(i) => Leave(p, FALSE)
  BY DEF DeleteTarget
<1>3. DiskInv /\ proc \in [Procs -> ProcRec] /\ proc[p] \in ProcRec /\ Place(p, proc[p])
  BY <1>1, Runs
<1>4. /\ proc[p].lock = Round /\ proc[p].today \in BackupDays /\ proc[p].todo \subseteq plan
      /\ \A j \in plan \ proc[p].todo : receipt[j[1]] = Nil
  BY <1>1, <1>3 DEF Place
<1>5. i \in plan /\ plan \subseteq BackupDays \X Files
  BY <1>1, <1>3, <1>4, ItemIsTodo DEF DiskInv, OnDisk
<1> HIDE DEF i
<1>6. UNCHANGED <<legacy, refs, rplan, rlast, rcount>>
  BY <1>1 DEF reclaim
<1>7. target' \in [BackupDays -> Files \cup {Nil}]
  BY <1>2, <1>3, <1>5 DEF DiskInv, OnDisk
<1>8. \A d \in BackupDays : target'[d] = target[d] \/ <<d, receipt[d]>> \in plan
  <2>1. i = <<i[1], i[2]>> /\ i[1] \in BackupDays /\ target \in [BackupDays -> Files \cup {Nil}]
    BY <1>3, <1>5 DEF DiskInv, OnDisk
  <2>2. CASE Intact(i)
    <3>1. <<i[1], receipt[i[1]]>> \in plan
      BY <1>5, <2>1, <2>2 DEF Intact
    <3>2. target' = [target EXCEPT ![i[1]] = Nil]
      BY <1>2, <2>2
    <3> QED
      BY <2>1, <3>1, <3>2
  <2>3. CASE ~Intact(i)
    BY <1>2, <2>3
  <2> QED
    BY <2>2, <2>3
<1>9. DiskInv'
  <2>1. OnDisk' /\ TempsOwned' /\ Accountancy'
    BY <1>1, <1>3, <1>6, <1>7 DEF DiskInv, OnDisk, TempsOwned, Accountancy
  <2>2. ReceiptHasFile'
    BY <1>1, <1>3, <1>8 DEF DiskInv, ReceiptHasFile
  <2> QED
    BY <2>1, <2>2 DEF DiskInv
<1>10. CASE Intact(i)
  <2>1. PICK r : r = proc[p]
    OBVIOUS
  <2>2. proc' = [proc EXCEPT ![p] = r] /\ r \in ProcRec
    BY <1>2, <1>3, <1>10, <2>1
  <2>3. Place(p, r)'
    BY <1>1, <1>4, <2>1 DEF Place
  <2> QED
    BY <1>1, <1>9, <2>2, <2>3, ProcessSteps
<1>11. CASE ~Intact(i)
  <2>1. PICK r \in ProcRec : /\ proc' = [proc EXCEPT ![p] = r] /\ r.pc = "release"
                             /\ r.today = proc[p].today /\ r.lock = proc[p].lock
    BY <1>2, <1>3, <1>11, LeaveGoes
  <2>2. Place(p, r)'
    BY <1>4, <2>1 DEF Place
  <2> QED
    BY <1>1, <1>9, <2>1, <2>2, ProcessSteps
<1> QED
  BY <1>10, <1>11

LEMMA DeleteReceiptKeeps ==
  ASSUME BackupInv, NEW p \in Procs, DeleteReceipt(p)
  PROVE  BackupInv'
<1> DEFINE i == Item(p)
           left == proc[p].todo \ {i}
<1>1. /\ life' = life /\ life[p] = "up" /\ proc[p].pc = "delete" /\ proc[p].todo # {}
      /\ UNCHANGED <<day, target, temps, owner, plan>> /\ UNCHANGED reclaim
  BY DEF DeleteReceipt, At
<1>2. /\ receipt' = IF receipt[i[1]] = i[2] THEN [receipt EXCEPT ![i[1]] = Nil] ELSE receipt
      /\ Accountable(i) => Goes(p, "delete", left)
      /\ ~Accountable(i) => Leave(p, FALSE)
  BY DEF DeleteReceipt
<1>3. DiskInv /\ proc \in [Procs -> ProcRec] /\ proc[p] \in ProcRec /\ Place(p, proc[p])
  BY <1>1, Runs
<1>4. /\ proc[p].lock = Round /\ proc[p].today \in BackupDays /\ proc[p].todo \subseteq plan
      /\ \A j \in plan \ proc[p].todo : receipt[j[1]] = Nil
  BY <1>1, <1>3 DEF Place
<1>5. i \in plan /\ plan \subseteq BackupDays \X Files /\ left \subseteq plan
  BY <1>1, <1>3, <1>4, ItemIsTodo DEF DiskInv, OnDisk
<1>6. \A j \in plan \ left : j = i \/ receipt[j[1]] = Nil
  BY <1>4
<1> HIDE DEF i, left
<1>7. UNCHANGED <<legacy, refs, rplan, rlast, rcount>>
  BY <1>1 DEF reclaim
<1>8. /\ receipt' \in [BackupDays -> Files \cup {Nil}]
      /\ \A d \in BackupDays : receipt'[d] \in {receipt[d], Nil}
      /\ Accountable(i) => receipt'[i[1]] = Nil
  <2>1. receipt \in [BackupDays -> Files \cup {Nil}] /\ i[1] \in BackupDays
    BY <1>3, <1>5 DEF DiskInv, OnDisk
  <2>2. CASE receipt[i[1]] = i[2]
    BY <1>2, <2>1, <2>2
  <2>3. CASE receipt[i[1]] # i[2]
    BY <1>2, <2>1, <2>3 DEF Accountable
  <2> QED
    BY <2>2, <2>3
<1>9. DiskInv'
  <2>1. OnDisk' /\ TempsOwned' /\ Accountancy'
    BY <1>1, <1>3, <1>7, <1>8 DEF DiskInv, OnDisk, TempsOwned, Accountancy
  <2>2. ReceiptHasFile'
    BY <1>1, <1>3, <1>8 DEF DiskInv, ReceiptHasFile
  <2> QED
    BY <2>1, <2>2 DEF DiskInv
<1>10. CASE Accountable(i)
  <2>1. "delete" \in ProcPcs /\ left \in SUBSET ((BackupDays \X Files) \cup Legacy)
    BY <1>5 DEF ProcPcs
  <2>2. PICK r \in ProcRec : /\ proc' = [proc EXCEPT ![p] = r] /\ r.pc = "delete"
                             /\ r.today = proc[p].today /\ r.lock = proc[p].lock
                             /\ r.todo = left
    BY <1>2, <1>3, <1>10, <2>1, GoesGoes
  <2>3. \A j \in plan \ left : receipt'[j[1]] = Nil
    <3>1. \A j \in plan : j[1] \in BackupDays
      BY <1>5
    <3> QED
      BY <1>6, <1>8, <1>10, <3>1
  <2>4. Place(p, r)'
    BY <1>1, <1>4, <1>5, <2>2, <2>3 DEF Place
  <2> QED
    BY <1>1, <1>9, <2>2, <2>4, ProcessSteps
<1>11. CASE ~Accountable(i)
  <2>1. PICK r \in ProcRec : /\ proc' = [proc EXCEPT ![p] = r] /\ r.pc = "release"
                             /\ r.today = proc[p].today /\ r.lock = proc[p].lock
    BY <1>2, <1>3, <1>11, LeaveGoes
  <2>2. Place(p, r)'
    BY <1>4, <2>1 DEF Place
  <2> QED
    BY <1>1, <1>9, <2>1, <2>2, ProcessSteps
<1> QED
  BY <1>10, <1>11

\* The reclaim of the legacy temporaries, and the end of the round: what the plan
\* of it no longer lists as present is not there.
LEMMA PlanReclaimKeeps ==
  ASSUME BackupInv, NEW p \in Procs, PlanReclaim(p)
  PROVE  BackupInv'
<1>1. /\ life' = life /\ life[p] = "up" /\ proc[p].pc = "delete" /\ proc[p].todo = {}
      /\ UNCHANGED <<day, target, receipt, temps, owner, plan>>
      /\ UNCHANGED <<legacy, refs, rlast, rcount>>
  BY DEF PlanReclaim, At, snapshots
<1>2. DiskInv /\ proc \in [Procs -> ProcRec] /\ proc[p] \in ProcRec /\ Place(p, proc[p])
  BY <1>1, Runs
<1>3. /\ proc[p].lock = Round /\ proc[p].today \in BackupDays
      /\ \A i \in plan : receipt[i[1]] = Nil
  BY <1>1, <1>2 DEF Place
<1>4. \/ rplan = rlast /\ rplan' = {} /\ Goto(p, "clear")
      \/ rplan = {} /\ rplan' = rplan /\ Goto(p, "clear")
      \/ /\ proc' = [proc EXCEPT ![p] =
                      [@ EXCEPT !.pc = "reclaim", !.todo = rplan', !.seen = refs]]
         /\ \/ rplan' = rplan /\ rplan # rlast
            \/ rplan = {} /\ rplan' = Proven /\ Proven # {}
  <2> DEFINE go(made) == proc' = [proc EXCEPT ![p] =
                      [@ EXCEPT !.pc = "reclaim", !.todo = made, !.seen = refs]]
  <2>1. CASE Accounted /\ rplan' = {} /\ Goto(p, "clear")
    BY <2>1 DEF Accounted
  <2>2. CASE rplan # {} /\ ~Accounted /\ go(rplan) /\ rplan' = rplan
    BY <2>2 DEF Accounted
  <2>3. CASE rplan = {} /\ Goto(p, "clear") /\ rplan' = rplan
    BY <2>3
  <2>4. CASE rplan = {} /\ Proven # {} /\ rplan' = Proven /\ go(Proven)
    BY <2>4
  <2> QED
    BY <2>1, <2>2, <2>3, <2>4 DEF PlanReclaim
<1>5. /\ Proven \subseteq legacy /\ legacy \subseteq Legacy /\ rplan \subseteq Legacy
      /\ rlast \subseteq Legacy /\ refs \subseteq Legacy
  BY <1>2 DEF Proven, DiskInv, OnDisk
<1>6. Accountancy
  BY <1>2 DEF DiskInv
<1>7. rplan' \subseteq Legacy
  BY <1>4, <1>5
<1>8. Accountancy'
  <2>1. CASE rplan = rlast /\ rplan' = {}
    BY <1>1, <1>5, <1>6, <2>1 DEF Accountancy
  <2>2. CASE rplan' = rplan
    BY <1>1, <1>6, <2>2 DEF Accountancy
  <2>3. CASE rplan = {} /\ rplan' = Proven
    <3>1. rcount \in [Legacy -> {0, 1}]
      BY <1>2 DEF DiskInv, OnDisk
    <3>2. \A f \in Proven : rcount[f] = 0
      BY <1>5, <1>6, <3>1 DEF Accountancy
    <3> QED
      BY <1>1, <1>5, <1>6, <2>3, <3>2 DEF Accountancy
  <2> QED
    BY <1>4, <2>1, <2>2, <2>3
<1>9. DiskInv'
  <2>1. OnDisk' /\ TempsOwned' /\ ReceiptHasFile'
    BY <1>1, <1>2, <1>7 DEF DiskInv, OnDisk, TempsOwned, ReceiptHasFile
  <2> QED
    BY <1>8, <2>1 DEF DiskInv
<1>10. ASSUME Goto(p, "clear") PROVE BackupInv'
  <2>1. "clear" \in ProcPcs
    BY DEF ProcPcs
  <2>2. PICK r \in ProcRec : /\ proc' = [proc EXCEPT ![p] = r] /\ r.pc = "clear"
                             /\ r.today = proc[p].today /\ r.lock = proc[p].lock
    BY <1>2, <1>10, <2>1, GotoGoes
  <2>3. Place(p, r)'
    BY <1>1, <1>3, <2>2 DEF Place
  <2> QED
    BY <1>1, <1>9, <2>2, <2>3, ProcessSteps
<1>11. ASSUME proc' = [proc EXCEPT ![p] =
                        [@ EXCEPT !.pc = "reclaim", !.todo = rplan', !.seen = refs]],
              \/ rplan' = rplan /\ rplan # rlast
              \/ rplan = {} /\ rplan' = Proven /\ Proven # {}
       PROVE  BackupInv'
  <2>1. PICK z : z = rplan'
    OBVIOUS
  <2>2. PICK r : r = [proc[p] EXCEPT !.pc = "reclaim", !.todo = z, !.seen = refs]
    OBVIOUS
  <2>3. /\ "reclaim" \in ProcPcs /\ z \in SUBSET ((BackupDays \X Files) \cup Legacy)
        /\ refs \in SUBSET Legacy
    BY <1>5, <1>7, <2>1 DEF ProcPcs
  <2>4. /\ r \in ProcRec /\ r.pc = "reclaim" /\ r.todo = z
        /\ r.today = proc[p].today /\ r.lock = proc[p].lock
    BY <1>2, <2>2, <2>3 DEF ProcRec
  <2>5. proc' = [proc EXCEPT ![p] = r]
    BY <1>11, <2>1, <2>2
  <2>6. rplan' # rlast
    BY <1>5, <1>6, <1>11 DEF Accountancy
  <2>7. Place(p, r)'
    BY <1>1, <1>3, <2>1, <2>4, <2>6 DEF Place
  <2> QED
    BY <1>1, <1>9, <2>4, <2>5, <2>7, ProcessSteps
<1> QED
  BY <1>4, <1>10, <1>11

\* The temporary that is next.
LEMMA StaleIsTodo ==
  ASSUME NEW p \in Procs, proc[p].todo \subseteq Legacy, proc[p].todo # {}
  PROVE  Stale(p) \in proc[p].todo
<1> DEFINE todo == proc[p].todo
<1>1. todo \in SUBSET Nat /\ todo # {}
  BY ProcFacts
<1> HIDE DEF todo
<1>2. PICK m \in todo : \A n \in todo : m <= n
  BY <1>1, HasLeast
<1> QED
  BY <1>2 DEF Stale, todo

LEMMA ReclaimKeeps ==
  ASSUME BackupInv, NEW p \in Procs, Reclaim(p)
  PROVE  BackupInv'
<1> DEFINE f == Stale(p)
           left == proc[p].todo \ {f}
<1>1. /\ life' = life /\ life[p] = "up" /\ proc[p].pc = "reclaim" /\ proc[p].todo # {}
      /\ UNCHANGED <<day, target, receipt, temps, owner, plan>>
      /\ UNCHANGED <<refs, rplan, rlast, rcount>>
  BY DEF Reclaim, At, snapshots
<1>2. \/ legacy' = legacy \ {f} /\ Goes(p, "reclaim", left)
      \/ legacy' = legacy /\ Leave(p, FALSE)
  BY DEF Reclaim
<1>3. DiskInv /\ proc \in [Procs -> ProcRec] /\ proc[p] \in ProcRec /\ Place(p, proc[p])
  BY <1>1, Runs
<1>4. /\ proc[p].lock = Round /\ proc[p].today \in BackupDays
      /\ \A i \in plan : receipt[i[1]] = Nil
      /\ proc[p].todo \subseteq rplan /\ rplan # rlast
      /\ \A g \in rplan \ proc[p].todo : g \notin legacy
  BY <1>1, <1>3 DEF Place
<1>5. rplan \subseteq Legacy /\ legacy \subseteq Legacy /\ rcount \in [Legacy -> {0, 1}]
  BY <1>3 DEF DiskInv, OnDisk
<1>6. f \in rplan /\ left \subseteq rplan
  BY <1>1, <1>4, <1>5, StaleIsTodo
<1>7. \A g \in rplan \ left : g = f \/ g \notin legacy
  BY <1>4
<1> HIDE DEF f, left
<1>8. legacy' \subseteq legacy /\ legacy \ {f} \subseteq legacy'
  BY <1>2
<1>9. Accountancy'
  BY <1>1, <1>3, <1>6, <1>8 DEF DiskInv, Accountancy
<1>10. DiskInv'
  <2>1. OnDisk' /\ TempsOwned' /\ ReceiptHasFile'
    BY <1>1, <1>3, <1>8 DEF DiskInv, OnDisk, TempsOwned, ReceiptHasFile
  <2> QED
    BY <1>9, <2>1 DEF DiskInv
<1>11. ASSUME legacy' = legacy \ {f}, Goes(p, "reclaim", left) PROVE BackupInv'
  <2>1. "reclaim" \in ProcPcs /\ left \in SUBSET ((BackupDays \X Files) \cup Legacy)
    BY <1>5, <1>6 DEF ProcPcs
  <2>2. PICK r \in ProcRec : /\ proc' = [proc EXCEPT ![p] = r] /\ r.pc = "reclaim"
                             /\ r.today = proc[p].today /\ r.lock = proc[p].lock
                             /\ r.todo = left
    BY <1>3, <1>11, <2>1, GoesGoes
  <2>3. \A g \in rplan \ left : g \notin legacy'
    BY <1>7, <1>11
  <2>4. Place(p, r)'
    BY <1>1, <1>4, <1>6, <2>2, <2>3 DEF Place
  <2> QED
    BY <1>1, <1>10, <2>2, <2>4, ProcessSteps
<1>12. ASSUME Leave(p, FALSE) PROVE BackupInv'
  <2>1. PICK r \in ProcRec : /\ proc' = [proc EXCEPT ![p] = r] /\ r.pc = "release"
                             /\ r.today = proc[p].today /\ r.lock = proc[p].lock
    BY <1>3, <1>12, LeaveGoes
  <2>2. Place(p, r)'
    BY <1>4, <2>1 DEF Place
  <2> QED
    BY <1>1, <1>10, <2>1, <2>2, ProcessSteps
<1> QED
  BY <1>2, <1>11, <1>12

LEMMA AccountReclaimKeeps ==
  ASSUME BackupInv, NEW p \in Procs, AccountReclaim(p)
  PROVE  BackupInv'
<1>1. /\ life' = life /\ life[p] = "up" /\ proc[p].pc = "reclaim" /\ proc[p].todo = {}
      /\ UNCHANGED <<day, target, receipt, temps, owner, plan>>
      /\ UNCHANGED <<legacy, refs, rplan>>
  BY DEF AccountReclaim, At, snapshots
<1>2. DiskInv /\ proc \in [Procs -> ProcRec] /\ proc[p] \in ProcRec /\ Place(p, proc[p])
  BY <1>1, Runs
<1>3. /\ proc[p].lock = Round /\ proc[p].today \in BackupDays
      /\ \A i \in plan : receipt[i[1]] = Nil
      /\ rplan # rlast /\ \A g \in rplan : g \notin legacy
  BY <1>1, <1>2 DEF Place
<1>4. /\ rplan \subseteq Legacy /\ rlast \subseteq Legacy /\ rcount \in [Legacy -> {0, 1}]
      /\ \A g \in rplan : rcount[g] = 0
  BY <1>2, <1>3 DEF DiskInv, OnDisk, Accountancy
<1>5. \/ /\ rcount' = [f \in Legacy |-> rcount[f] + IF f \in rplan THEN 1 ELSE 0]
         /\ rlast' = rplan /\ Goto(p, "unlink_plan")
      \/ Leave(p, FALSE) /\ rcount' = rcount /\ rlast' = rlast
  BY DEF AccountReclaim
<1>6. ASSUME rcount' = [f \in Legacy |-> rcount[f] + IF f \in rplan THEN 1 ELSE 0],
             rlast' = rplan, Goto(p, "unlink_plan")
      PROVE  BackupInv'
  <2>1. /\ rcount' \in [Legacy -> {0, 1}]
        /\ \A f \in Legacy : rcount'[f] = IF f \in rplan THEN 1 ELSE rcount[f]
    BY <1>4, <1>6
  <2>2. Accountancy'
    BY <1>1, <1>2, <1>3, <1>6, <2>1 DEF DiskInv, Accountancy
  <2>3. OnDisk' /\ TempsOwned' /\ ReceiptHasFile'
    BY <1>1, <1>2, <1>4, <1>6, <2>1 DEF DiskInv, OnDisk, TempsOwned, ReceiptHasFile
  <2>4. "unlink_plan" \in ProcPcs
    BY DEF ProcPcs
  <2>5. PICK r \in ProcRec : /\ proc' = [proc EXCEPT ![p] = r] /\ r.pc = "unlink_plan"
                             /\ r.today = proc[p].today /\ r.lock = proc[p].lock
    BY <1>2, <1>6, <2>4, GotoGoes
  <2>6. Place(p, r)'
    BY <1>1, <1>3, <1>6, <2>5 DEF Place
  <2> QED
    BY <1>1, <2>2, <2>3, <2>5, <2>6, ProcessSteps DEF DiskInv
<1>7. ASSUME Leave(p, FALSE), rcount' = rcount, rlast' = rlast PROVE BackupInv'
  <2>1. DiskInv'
    BY <1>1, <1>2, <1>7
       DEF DiskInv, OnDisk, TempsOwned, ReceiptHasFile, Accountancy
  <2>2. PICK r \in ProcRec : /\ proc' = [proc EXCEPT ![p] = r] /\ r.pc = "release"
                             /\ r.today = proc[p].today /\ r.lock = proc[p].lock
    BY <1>2, <1>7, LeaveGoes
  <2>3. Place(p, r)'
    BY <1>3, <2>2 DEF Place
  <2> QED
    BY <1>1, <2>1, <2>2, <2>3, ProcessSteps
<1> QED
  BY <1>5, <1>6, <1>7

LEMMA EndReclaimKeeps ==
  ASSUME BackupInv, NEW p \in Procs, EndReclaim(p)
  PROVE  BackupInv'
<1>1. /\ life' = life /\ life[p] = "up" /\ proc[p].pc = "unlink_plan"
      /\ UNCHANGED <<day, target, receipt, temps, owner, plan>>
      /\ UNCHANGED <<legacy, refs, rlast, rcount>> /\ rplan' = {} /\ Goto(p, "clear")
  BY DEF EndReclaim, At, snapshots
<1>2. DiskInv /\ proc \in [Procs -> ProcRec] /\ proc[p] \in ProcRec /\ Place(p, proc[p])
  BY <1>1, Runs
<1>3. /\ proc[p].lock = Round /\ proc[p].today \in BackupDays /\ rplan = rlast
      /\ \A i \in plan : receipt[i[1]] = Nil
  BY <1>1, <1>2 DEF Place
<1>4. OnDisk' /\ TempsOwned' /\ ReceiptHasFile'
  BY <1>1, <1>2 DEF DiskInv, OnDisk, TempsOwned, ReceiptHasFile
<1>5. Accountancy'
  BY <1>1, <1>2, <1>3 DEF DiskInv, Accountancy
<1>6. "clear" \in ProcPcs
  BY DEF ProcPcs
<1>7. PICK r \in ProcRec : /\ proc' = [proc EXCEPT ![p] = r] /\ r.pc = "clear"
                           /\ r.today = proc[p].today /\ r.lock = proc[p].lock
  BY <1>1, <1>2, <1>6, GotoGoes
<1>8. Place(p, r)'
  BY <1>1, <1>3, <1>7 DEF Place
<1> QED
  BY <1>1, <1>4, <1>5, <1>7, <1>8, ProcessSteps DEF DiskInv

LEMMA EndRoundKeeps ==
  ASSUME BackupInv, NEW p \in Procs, EndRound(p)
  PROVE  BackupInv'
<1>1. /\ life' = life /\ life[p] = "up" /\ proc[p].pc = "clear"
      /\ UNCHANGED <<day, target, receipt, temps, owner>> /\ UNCHANGED reclaim
      /\ plan' = {} /\ Leave(p, TRUE)
  BY DEF EndRound, At, snapshots
<1>2. DiskInv /\ proc \in [Procs -> ProcRec] /\ proc[p] \in ProcRec /\ Place(p, proc[p])
  BY <1>1, Runs
<1>3. /\ proc[p].lock = Round /\ proc[p].today \in BackupDays
      /\ \A i \in plan : receipt[i[1]] = Nil
  BY <1>1, <1>2 DEF Place
<1>4. UNCHANGED <<legacy, refs, rplan, rlast, rcount>>
  BY <1>1 DEF reclaim
<1>5. OnDisk' /\ TempsOwned' /\ Accountancy'
  BY <1>1, <1>2, <1>4 DEF DiskInv, OnDisk, TempsOwned, Accountancy
<1>6. ReceiptHasFile'
  <2>1. \A d \in BackupDays : ~(<<d, receipt[d]>> \in plan) \/ receipt[d] = Nil
    BY <1>3
  <2> QED
    BY <1>1, <1>2, <2>1 DEF DiskInv, ReceiptHasFile
<1>7. PICK r \in ProcRec : /\ proc' = [proc EXCEPT ![p] = r] /\ r.pc = "release"
                           /\ r.today = proc[p].today /\ r.lock = proc[p].lock
  BY <1>1, <1>2, LeaveGoes
<1>8. Place(p, r)'
  BY <1>3, <1>7 DEF Place
<1> QED
  BY <1>1, <1>5, <1>6, <1>7, <1>8, ProcessSteps DEF DiskInv

\* A process whose variables are fresh knows nothing.
LEMMA FreshIsPlaced == ASSUME NEW p PROVE Place(p, FreshProc) /\ Place(p, FreshProc)'
  BY DEF Place, FreshProc

\* The environment starts a process when none runs, stops one anywhere, turns the day,
\* changes a snapshot by hand and adds a reference.
LEMMA StartKeeps ==
  ASSUME BackupInv, Concurrent = 1, NEW p \in Procs, StartProcess(p)
  PROVE  BackupInv'
<1>1. /\ life[p] = "new" /\ Cardinality(Up) < 1 /\ life' = [life EXCEPT ![p] = "up"]
      /\ proc' = proc /\ UNCHANGED <<day, snapshots, owner, plan, reclaim>>
  BY DEF StartProcess
<1>2. Up = {}
  <2>1. IsFiniteSet(Procs) /\ Up \subseteq Procs
    BY FS_Interval, BackupAssumption DEF Procs, Up
  <2>2. IsFiniteSet(Up) /\ Cardinality(Up) \in Nat
    BY <2>1, FS_Subset, FS_CardinalityType
  <2>3. Cardinality(Up) = 0
    BY <1>1, <2>2
  <2> QED
    BY <2>2, <2>3, FS_EmptySet
<1>3. \A q \in Procs : life[q] # "up" /\ proc[q] = FreshProc
  BY <1>2 DEF Up, BackupInv, Running
<1>4. life \in [Procs -> {"new", "up", "down"}] /\ proc \in [Procs -> ProcRec] /\ DiskInv
  BY DEF BackupInv, Running
<1>5. DiskInv'
  BY <1>1, <1>4, DiskRests
<1>6. /\ life' \in [Procs -> {"new", "up", "down"}] /\ life'[p] = "up"
      /\ \A q \in Procs \ {p} : life'[q] # "up"
  BY <1>1, <1>3, <1>4
<1>7. OneRuns'
  BY <1>6 DEF OneRuns
<1>8. ASSUME NEW q \in Procs
      PROVE  IF life'[q] = "up" THEN Place(q, proc[q])' ELSE proc'[q] = FreshProc
  <2>1. proc'[q] = FreshProc
    BY <1>1, <1>3
  <2> QED
    BY <2>1, FreshIsPlaced
<1> QED
  BY <1>1, <1>4, <1>5, <1>6, <1>7, <1>8 DEF BackupInv, Running

LEMMA StopKeeps ==
  ASSUME BackupInv, NEW p \in Procs, StopProcess(p)
  PROVE  BackupInv'
<1>1. /\ life' = [life EXCEPT ![p] = "down"] /\ proc' = [proc EXCEPT ![p] = FreshProc]
      /\ life[p] = "up" /\ UNCHANGED <<day, snapshots, owner, plan, reclaim>>
  BY DEF StopProcess
<1>2. /\ life \in [Procs -> {"new", "up", "down"}] /\ proc \in [Procs -> ProcRec] /\ DiskInv
      /\ \A q \in Procs \ {p} : life[q] # "up" /\ proc[q] = FreshProc
  BY <1>1 DEF BackupInv, Running, OneRuns
<1>3. DiskInv'
  BY <1>1, <1>2, DiskRests
<1>4. /\ life' \in [Procs -> {"new", "up", "down"}] /\ proc' \in [Procs -> ProcRec]
      /\ \A q \in Procs : life'[q] # "up" /\ proc'[q] = FreshProc
  BY <1>1, <1>2, ProcFacts
<1> QED
  BY <1>3, <1>4 DEF BackupInv, Running, OneRuns

LEMMA EnvironmentKeeps ==
  ASSUME BackupInv, NewDay \/ (\E d \in BackupDays : Edit(d)) \/ (\E f \in Legacy : Refer(f))
  PROVE  BackupInv'
<1>1. /\ proc' = proc /\ life' = life
      /\ UNCHANGED <<receipt, temps, owner, plan>>
      /\ UNCHANGED <<legacy, rplan, rlast, rcount>>
  BY DEF NewDay, Edit, Refer, snapshots, reclaim
<1>2. DiskInv
  BY DEF BackupInv
<1>3. /\ day' \in BackupDays /\ refs' \subseteq Legacy
      /\ target' \in [BackupDays -> Files \cup {Nil}]
      /\ \A d \in BackupDays : target'[d] = target[d] \/ target'[d] # Nil
  <2>1. /\ day \in BackupDays /\ refs \subseteq Legacy /\ legacy \subseteq Legacy
        /\ target \in [BackupDays -> Files \cup {Nil}]
    BY <1>2 DEF DiskInv, OnDisk
  <2>2. CASE NewDay
    <3>1. day < LastBackup /\ day' = day + 1 /\ target' = target /\ refs' = refs
      BY <2>2 DEF NewDay, snapshots, reclaim
    <3>2. day' \in BackupDays
      BY <2>1, <3>1, BackupAssumption DEF BackupDays
    <3> QED
      BY <2>1, <3>1, <3>2
  <2>3. ASSUME NEW e \in BackupDays, Edit(e)
        PROVE  /\ day' = day /\ refs' = refs
               /\ target' \in [BackupDays -> Files \cup {Nil}]
               /\ \A d \in BackupDays : target'[d] = target[d] \/ target'[d] # Nil
    <3>1. target' = [target EXCEPT ![e] = Edited] /\ day' = day /\ refs' = refs
      BY <2>3 DEF Edit, reclaim
    <3>2. Edited \in Files /\ Edited # Nil
      BY DEF Files, Edited, Nil
    <3> QED
      BY <2>1, <3>1, <3>2
  <2>4. ASSUME NEW f \in Legacy, Refer(f)
        PROVE  day' = day /\ target' = target /\ refs' \subseteq Legacy
    BY <2>1, <2>4 DEF Refer, snapshots
  <2> QED
    BY <2>1, <2>2, <2>3, <2>4
<1>4. OnDisk'
  BY <1>1, <1>2, <1>3 DEF DiskInv, OnDisk
<1>5. TempsOwned' /\ ReceiptHasFile' /\ Accountancy'
  BY <1>1, <1>2, <1>3 DEF DiskInv, TempsOwned, ReceiptHasFile, Accountancy
<1>6. \A p \in Procs : Place(p, proc[p]) => Place(p, proc[p])'
  BY <1>1 DEF Place
<1>7. Running'
  BY <1>1, <1>6 DEF BackupInv, Running, OneRuns
<1> QED
  BY <1>4, <1>5, <1>7 DEF BackupInv, DiskInv

LEMMA BackupInitially == BackupInit => BackupInv
<1> SUFFICES ASSUME BackupInit PROVE BackupInv
  OBVIOUS
<1>1. 1 \in BackupDays
  BY BackupAssumption DEF BackupDays
<1>2. OnDisk
  BY <1>1 DEF BackupInit, OnDisk
<1>3. TempsOwned /\ ReceiptHasFile /\ Accountancy
  BY DEF BackupInit, TempsOwned, ReceiptHasFile, Accountancy
<1>4. Running
  BY ProcFacts DEF BackupInit, Running, OneRuns
<1> QED
  BY <1>2, <1>3, <1>4 DEF BackupInv, DiskInv

LEMMA BackupSteps ==
  ASSUME Concurrent = 1, BackupInv, [BackupNext]_backupVars
  PROVE  BackupInv'
<1>1. ASSUME NEW p \in Procs, Step(p) PROVE BackupInv'
  BY <1>1, PollKeeps, MkdirKeeps, SignKeeps, BusyKeeps, EvictKeeps, EvictEvidenceKeeps,
     EvictDirectoryKeeps, ReleaseEvidenceKeeps, ReleaseKeeps, AdoptKeeps, CopyKeeps,
     ReplaceKeeps, ReceiptKeeps, PlanKeeps, DeleteTargetKeeps, DeleteReceiptKeeps,
     PlanReclaimKeeps, ReclaimKeeps, AccountReclaimKeeps, EndReclaimKeeps, EndRoundKeeps
     DEF Step
<1>2. ASSUME NEW p \in Procs, CopyFails(p) \/ StartProcess(p) \/ StopProcess(p)
      PROVE  BackupInv'
  BY <1>2, CopyFailsKeeps, StartKeeps, StopKeeps
<1>3. CASE NewDay \/ (\E d \in BackupDays : Edit(d)) \/ (\E f \in Legacy : Refer(f))
  BY <1>3, EnvironmentKeeps
<1>4. CASE UNCHANGED backupVars
  <2>1. /\ UNCHANGED <<proc, life, day, target, receipt, temps, owner, plan>>
        /\ UNCHANGED <<legacy, refs, rplan, rlast, rcount>>
    BY <1>4 DEF backupVars, snapshots, reclaim
  <2>2. DiskInv'
    BY <2>1 DEF BackupInv, DiskInv, OnDisk, TempsOwned, ReceiptHasFile, Accountancy
  <2>3. \A p \in Procs : Place(p, proc[p]) => Place(p, proc[p])'
    BY <2>1 DEF Place
  <2>4. Running'
    BY <2>1, <2>3 DEF BackupInv, Running, OneRuns
  <2> QED
    BY <2>2, <2>4 DEF BackupInv
<1> QED
  BY <1>1, <1>2, <1>3, <1>4 DEF BackupNext

(***************************************************************************)
(* Wherever the process that runs the daily backup stops, and however      *)
(* often, what it leaves is accounted for: a temporary copy by the         *)
(* evidence of its owner, a receipt without its snapshot by the retention  *)
(* plan, a reclaimed temporary by one entry of the reclaim receipt.  One   *)
(* process runs at a time: two that recover one owner directory race.      *)
(***************************************************************************)
THEOREM FilesAreAccounted == Concurrent = 1 => (BackupSpec => []FilesAccounted)
<1> SUFFICES ASSUME Concurrent = 1 PROVE BackupSpec => []FilesAccounted
  OBVIOUS
<1>1. BackupInv /\ [BackupNext]_backupVars => BackupInv'
  BY BackupSteps
<1> QED
  BY <1>1, BackupInitially, DiskIsAccounted, PTL DEF BackupSpec

-----------------------------------------------------------------------------
(* The daily briefs.  The inductive invariant: what is recorded of a day     *)
(* (Recorded), what its refresh state may name (Refreshing), that cached     *)
(* dates are those of their token (CacheFits), and what the batch knows of   *)
(* the day at hand at each of its steps (Knows).                             *)

Hashes == (Packets \cup {NoPacket, "population"}) \X BOOLEAN
NewsRec == [receipts : Nat, pending : Nat, terminal : Nat, packet : Packets \cup {NoPacket}]
BriefRec == [hash : Hashes, kind : {"model", "fallback", "settlement"}]
RowRec == [phase : FINAL_PHASES \cup {"NONE", "WAITING", "UPDATING", "DEFERRED", "EMPTY"},
           gen : Hashes, pend : Hashes, wait : BOOLEAN, failures : Nat,
           code : {"NONE", "CAPACITY", "FAILURE"}]
BriefSteps == {"idle", "next", "publish", "model", "failed", "fallback", "finalize",
               "close", "record", "empty"}
Finals == [BriefDays -> FINAL_PHASES \cup {"NONE", "EMPTY"}]
Corrections == [BriefDays -> FINAL_PHASES \cup {"NONE"}]
Tokens == {<<>>} \cup (BriefDays \X [BriefDays -> Nat] \X Finals \X Corrections)
WorkRec == [step : BriefSteps, queue : SUBSET BriefDays, current : BriefDays,
            day : BriefDays, cand : Hashes, settled : BOOLEAN, terminal : BOOLEAN,
            forced : BOOLEAN, found : Tokens]
BriefTyped ==
  /\ today \in BriefDays /\ news \in [BriefDays -> NewsRec]
  /\ briefs \in [BriefDays -> Seq(BriefRec)]
  /\ final \in Finals /\ corrected \in Corrections
  /\ row \in [BriefDays -> RowRec] /\ work \in WorkRec

\* What the token names as unfinished.
UnfinishedAt(t, counts, finals, corrections) ==
  {t} \cup {d \in BriefDays :
              /\ d <= t /\ counts[d] > 0 /\ corrections[d] = "NONE"
              /\ finals[d] \in {"NONE", "DEGRADED"}}
Fitting(k, dates) == k = <<>> \/ dates = UnfinishedAt(k[1], k[2], k[3], k[4])

Settlement == [hash |-> <<"population", FALSE>>, kind |-> "settlement"]
\* A day without a reviewed packet has no revision but the settlement; a day given up
\* has a revision; a correction follows a degraded day.
Recorded ==
  \A d \in BriefDays :
    /\ news[d].packet = NoPacket => \A i \in DOMAIN briefs[d] : briefs[d][i] = Settlement
    /\ final[d] = "DEGRADED" => HasBrief(d)
    /\ corrected[d] # "NONE" => final[d] = "DEGRADED"
\* What a day was generated from is published; a candidate of the recovery, whose
\* day has a revision, is counted from the start at each attempt.
Refreshing ==
  \A d \in BriefDays : /\ row[d].gen = NoHash \/ Published(d, row[d].gen)
                       /\ row[d].pend[2] => row[d].failures <= 1
CacheFits == cache.key \in Tokens /\ Fitting(cache.key, cache.dates)
Knows(w) ==
  /\ w.current <= today /\ \A d \in w.queue : d <= w.current
  /\ w.step \in {"next", "publish"} => w.queue # {}
  /\ w.step = "publish" => Fitting(w.found, w.queue)
  /\ w.step \in {"model", "failed", "fallback", "finalize"} =>
       /\ Effective(w.day) = "NONE"
       /\ w.settled => /\ w.day < today /\ news[w.day].pending = 0
                       /\ w.terminal <=> news[w.day].terminal > 0
  /\ w.step \in {"model", "failed", "fallback"} =>
       /\ news[w.day].packet # NoPacket /\ ~w.forced
       /\ w.cand[2] <=> Recovering(w.day)
  /\ w.step \in {"model", "failed"} /\ w.cand[2] => row[w.day].code = "NONE"
  /\ w.step = "fallback" => ~w.cand[2]
  /\ w.step \in {"finalize", "close", "record"} => Published(w.day, w.cand)
  /\ w.step = "finalize" => IF w.forced THEN ~Recovering(w.day) ELSE w.settled
  /\ w.step = "empty" => w.cand = NoHash
BriefInv ==
  BriefTyped /\ ClosedIsSettled /\ Recorded /\ Refreshing /\ CacheFits /\ Knows(work)

LEMMA BriefFacts ==
  /\ BriefDays \subseteq Nat /\ 0 \in BriefDays
  /\ NoHash \in Hashes /\ NoHash[2] = FALSE /\ NoHash[1] = NoPacket
  /\ FreshState \in RowRec /\ Idle \in WorkRec
<1>1. BriefDays \subseteq Nat /\ 0 \in BriefDays
  BY BriefAssumption DEF BriefDays
<1>2. NoHash \in Hashes /\ NoHash[2] = FALSE /\ NoHash[1] = NoPacket
  BY DEF NoHash, Hashes
<1>3. FreshState \in RowRec
  BY <1>2 DEF FreshState, RowRec
<1>4. "idle" \in BriefSteps /\ <<>> \in Tokens
  BY DEF BriefSteps, Tokens
<1>5. Idle \in WorkRec
  BY <1>1, <1>2, <1>4 DEF Idle, WorkRec
<1> QED
  BY <1>1, <1>2, <1>3, <1>5

\* A day is open when it has no correction and its finalization is degraded or none.
LEMMA OpenDay ==
  ASSUME BriefTyped, NEW d \in BriefDays
  PROVE  Effective(d) = "NONE" <=> corrected[d] = "NONE" /\ final[d] \in {"NONE", "DEGRADED"}
<1>1. final[d] \in FINAL_PHASES \cup {"NONE", "EMPTY"}
  BY DEF BriefTyped, Finals
<1> QED
  BY <1>1 DEF Effective

\* The inputs change at any moment: nothing returns to a settled past day, and a
\* reviewed packet stays reviewed.
LEMMA InputsKeep ==
  ASSUME BriefInv, Same, today' \in BriefDays, today <= today',
         news' \in [BriefDays -> NewsRec],
         \A d \in BriefDays :
           /\ d < today /\ news[d].pending = 0
                => news'[d].pending = 0 /\ news'[d].terminal = news[d].terminal
           /\ news'[d].packet = NoPacket => news[d].packet = NoPacket
  PROVE  BriefInv'
<1>1. UNCHANGED <<briefs, final, corrected, row, cache, work>>
  BY DEF Same
<1>2. BriefTyped'
  BY <1>1 DEF BriefInv, BriefTyped
<1>3. \A d \in BriefDays : /\ Effective(d)' = Effective(d) /\ HasBrief(d)' = HasBrief(d)
                           /\ Recovering(d)' = Recovering(d)
                           /\ \A h : Published(d, h)' = Published(d, h)
  BY <1>1 DEF Effective, HasBrief, Recovering, Published
<1>4. today \in Nat /\ today' \in Nat /\ BriefDays \subseteq Nat
  BY <1>2, BriefFacts DEF BriefInv, BriefTyped
<1>5. ClosedIsSettled'
  BY <1>3, <1>4 DEF BriefInv, ClosedIsSettled
<1>6. Recorded' /\ Refreshing' /\ CacheFits'
  BY <1>1, <1>3 DEF BriefInv, Recorded, Refreshing, CacheFits, Fitting
<1>7. work \in WorkRec /\ Knows(work)
  BY DEF BriefInv, BriefTyped
<1>8. work.day \in BriefDays /\ work.current \in Nat /\ work.queue \subseteq BriefDays
  BY <1>4, <1>7 DEF WorkRec
<1>9. work'.current <= today' /\ \A d \in work'.queue : d <= work'.current
  BY <1>1, <1>4, <1>7, <1>8 DEF Knows
<1>10. work'.settled /\ work'.step \in {"model", "failed", "fallback", "finalize"}
         => /\ work'.day < today' /\ news'[work'.day].pending = 0
            /\ work'.terminal <=> news'[work'.day].terminal > 0
  <2>1. PICK d \in BriefDays : d = work.day /\ d \in Nat
    BY <1>4, <1>8
  <2>2. work.settled /\ work.step \in {"model", "failed", "fallback", "finalize"}
          => /\ d < today /\ news[d].pending = 0
             /\ work.terminal <=> news[d].terminal > 0
    BY <1>7, <2>1 DEF Knows
  <2>3. d < today /\ news[d].pending = 0
          => /\ d < today' /\ news'[d].pending = 0
             /\ news'[d].terminal = news[d].terminal
    BY <1>4, <2>1
  <2> QED
    BY <1>1, <2>1, <2>2, <2>3
<1>11. work'.step \in {"model", "failed", "fallback"} => news'[work'.day].packet # NoPacket
  BY <1>1, <1>7, <1>8 DEF Knows
<1>12. Knows(work)'
  BY <1>1, <1>3, <1>7, <1>8, <1>9, <1>10, <1>11 DEF Knows, Fitting
<1> QED
  BY <1>2, <1>5, <1>6, <1>12 DEF BriefInv

\* Receipts, reviews, packets and midnight.
LEMMA InputsSteps ==
  ASSUME BriefInv,
         \/ \E body \in BOOLEAN : Receive(body)
         \/ \E d \in BriefDays : Review(d) \/ Repack(d)
         \/ Midnight
  PROVE  BriefInv'
<1>1. /\ news \in [BriefDays -> NewsRec] /\ today \in BriefDays /\ BriefDays \subseteq Nat
      /\ today \in Nat
  BY BriefFacts DEF BriefInv, BriefTyped
<1>2. ASSUME NEW body \in BOOLEAN, Receive(body) PROVE BriefInv'
  <2>1. Same /\ today' = today
    BY <1>2 DEF Receive
  <2>2. \E n \in NewsRec : news' = [news EXCEPT ![today] = n] /\ n.packet = news[today].packet
    <3>1. PICK k : k = IF body THEN news[today].pending + 1 ELSE news[today].pending
      OBVIOUS
    <3>2. PICK n : n = [news[today] EXCEPT !.receipts = @ + 1, !.pending = k]
      OBVIOUS
    <3>3. news' = [news EXCEPT ![today] = n]
      BY <1>1, <1>2, <3>1, <3>2 DEF Receive
    <3>4. news[today] \in NewsRec
      BY <1>1
    <3>5. k \in Nat /\ news[today].receipts + 1 \in Nat
      BY <3>1, <3>4 DEF NewsRec
    <3>6. n \in NewsRec /\ n.packet = news[today].packet
      BY <3>2, <3>4, <3>5 DEF NewsRec
    <3> QED
      BY <3>3, <3>6
  <2>3. /\ news' \in [BriefDays -> NewsRec]
        /\ news'[today].packet = news[today].packet
        /\ \A d \in BriefDays \ {today} : news'[d] = news[d]
    BY <1>1, <2>2
  <2> QED
    BY <1>1, <2>1, <2>3, InputsKeep
<1>3. ASSUME NEW e \in BriefDays, Same, today' = today, NEW n \in NewsRec,
             news' = [news EXCEPT ![e] = n], news[e].pending > 0 \/ n.pending = 0,
             news[e].pending = 0 => n.terminal = news[e].terminal,
             n.packet = NoPacket => news[e].packet = NoPacket
      PROVE  BriefInv'
  <2>1. /\ news' \in [BriefDays -> NewsRec] /\ news'[e] = n
        /\ \A d \in BriefDays \ {e} : news'[d] = news[d]
    BY <1>1, <1>3
  <2>2. news[e].pending = 0 => n.pending = 0
    BY <1>3
  <2> QED
    BY <1>1, <1>3, <2>1, <2>2, InputsKeep
<1>4. ASSUME NEW e \in BriefDays, Review(e) PROVE BriefInv'
  <2>1. Same /\ today' = today /\ news[e].pending > 0
    BY <1>4 DEF Review
  <2>2. news[e] \in NewsRec
    BY <1>1
  <2>3. news[e].pending - 1 \in Nat /\ news[e].terminal + 1 \in Nat
    BY <2>1, <2>2 DEF NewsRec
  <2>4. \E n \in NewsRec :
          /\ news' = [news EXCEPT ![e] = n]
          /\ n.packet = NoPacket => news[e].packet = NoPacket
    <3>1. PICK n \in {[news[e] EXCEPT !.pending = @ - 1, !.packet = p] : p \in Packets}
                     \cup {[news[e] EXCEPT !.pending = @ - 1, !.terminal = @ + 1]} :
                 news' = [news EXCEPT ![e] = n]
      BY <1>4 DEF Review
    <3>2. n \in NewsRec /\ (n.packet = NoPacket => news[e].packet = NoPacket)
      <4>1. ASSUME NEW p \in Packets, n = [news[e] EXCEPT !.pending = @ - 1, !.packet = p]
            PROVE  n \in NewsRec /\ n.packet # NoPacket
        <5>1. n \in NewsRec /\ n.packet = p
          BY <2>2, <2>3, <4>1 DEF NewsRec
        <5> QED
          BY <5>1, BriefAssumption
      <4>2. ASSUME n = [news[e] EXCEPT !.pending = @ - 1, !.terminal = @ + 1]
            PROVE  n \in NewsRec /\ n.packet = news[e].packet
        BY <2>2, <2>3, <4>2 DEF NewsRec
      <4> QED
        BY <3>1, <4>1, <4>2
    <3> QED
      BY <3>1, <3>2
  <2>5. news[e].pending # 0
    BY <2>1, <2>2 DEF NewsRec
  <2>6. PICK n \in NewsRec :
          /\ news' = [news EXCEPT ![e] = n]
          /\ n.packet = NoPacket => news[e].packet = NoPacket
    BY <2>4
  <2> QED
    BY <1>3, <2>1, <2>5, <2>6
<1>5. ASSUME NEW e \in BriefDays, Repack(e) PROVE BriefInv'
  <2>1. Same /\ today' = today /\ news[e] \in NewsRec
    BY <1>1, <1>5 DEF Repack
  <2>2. PICK p \in Packets : news' = [news EXCEPT ![e].packet = p]
    BY <1>5 DEF Repack
  <2>3. PICK n : n = [news[e] EXCEPT !.packet = p]
    OBVIOUS
  <2>4. /\ n \in NewsRec /\ n.packet = p /\ n.pending = news[e].pending
        /\ n.terminal = news[e].terminal
    BY <2>1, <2>2, <2>3 DEF NewsRec
  <2>5. news' = [news EXCEPT ![e] = n]
    BY <1>1, <2>2, <2>3
  <2>6. p # NoPacket
    BY <2>2, BriefAssumption
  <2>7. news[e].pending > 0 \/ n.pending = 0
    BY <2>1, <2>4 DEF NewsRec
  <2> QED
    BY <1>3, <2>1, <2>4, <2>5, <2>6, <2>7
<1>6. CASE Midnight
  <2>1. Same /\ news' = news /\ today < LastBrief /\ today' = today + 1
    BY <1>6 DEF Midnight
  <2>2. today' \in BriefDays /\ today <= today'
    BY <1>1, <2>1, BriefAssumption DEF BriefDays
  <2> QED
    BY <1>1, <2>1, <2>2, InputsKeep
<1> QED
  BY <1>2, <1>4, <1>5, <1>6

\* A row is written: what it names is published, and the batch goes on.
LEMMA RowMoves ==
  ASSUME BriefInv, UNCHANGED <<source, briefs, final, corrected, cache>>,
         NEW d \in BriefDays, NEW r \in RowRec, row' = [row EXCEPT ![d] = r],
         r.gen = NoHash \/ Published(d, r.gen), r.pend[2] => r.failures <= 1,
         NEW w \in WorkRec, work' = w, Knows(w)'
  PROVE  BriefInv'
<1>1. UNCHANGED <<today, news, briefs, final, corrected, cache>>
  BY DEF source
<1>2. /\ row' \in [BriefDays -> RowRec] /\ row'[d] = r
      /\ \A e \in BriefDays \ {d} : row'[e] = row[e]
  BY DEF BriefInv, BriefTyped
<1>3. BriefTyped'
  BY <1>1, <1>2 DEF BriefInv, BriefTyped
<1>4. \A e \in BriefDays : /\ Effective(e)' = Effective(e) /\ HasBrief(e)' = HasBrief(e)
                           /\ \A h : Published(e, h)' = Published(e, h)
  BY <1>1 DEF Effective, HasBrief, Published
<1>5. ClosedIsSettled' /\ Recorded' /\ CacheFits'
  BY <1>1, <1>4 DEF BriefInv, ClosedIsSettled, Recorded, CacheFits, Fitting
<1>6. Refreshing'
  BY <1>2, <1>4 DEF BriefInv, Refreshing
<1> QED
  BY <1>3, <1>5, <1>6 DEF BriefInv

\* The batch goes on without writing.
LEMMA WorkMoves ==
  ASSUME BriefInv, UNCHANGED <<source, briefs, final, corrected, row>>,
         cache' = cache \/ (cache'.key \in Tokens /\ Fitting(cache'.key, cache'.dates)),
         NEW w \in WorkRec, work' = w, Knows(w)'
  PROVE  BriefInv'
<1>1. UNCHANGED <<today, news, briefs, final, corrected, row>>
  BY DEF source
<1>2. BriefTyped'
  BY <1>1 DEF BriefInv, BriefTyped
<1>3. \A e \in BriefDays : /\ Effective(e)' = Effective(e) /\ HasBrief(e)' = HasBrief(e)
                           /\ \A h : Published(e, h)' = Published(e, h)
  BY <1>1 DEF Effective, HasBrief, Published
<1>4. ClosedIsSettled' /\ Recorded' /\ Refreshing'
  BY <1>1, <1>3 DEF BriefInv, ClosedIsSettled, Recorded, Refreshing
<1>5. CacheFits'
  BY DEF BriefInv, CacheFits, Fitting
<1> QED
  BY <1>2, <1>4, <1>5 DEF BriefInv

\* The retry or refresh time of a day passes.
LEMMA DueKeeps ==
  ASSUME BriefInv, NEW d \in BriefDays, Due(d)
  PROVE  BriefInv'
<1>1. /\ UNCHANGED <<source, briefs, final, corrected, cache>> /\ work' = work
      /\ row' = [row EXCEPT ![d].wait = FALSE]
  BY DEF Due
<1>2. row \in [BriefDays -> RowRec] /\ row[d] \in RowRec /\ work \in WorkRec /\ Knows(work)
  BY DEF BriefInv, BriefTyped
<1>3. PICK r : r = [row[d] EXCEPT !.wait = FALSE]
  OBVIOUS
<1>4. /\ r \in RowRec /\ r.gen = row[d].gen /\ r.pend = row[d].pend
      /\ r.failures = row[d].failures /\ r.code = row[d].code
  BY <1>2, <1>3 DEF RowRec
<1>5. row' = [row EXCEPT ![d] = r]
  BY <1>1, <1>2, <1>3
<1>6. /\ r.gen = NoHash \/ Published(d, r.gen)
      /\ r.pend[2] => r.failures <= 1
  BY <1>4 DEF BriefInv, Refreshing
<1>7. PICK w : w = work
  OBVIOUS
<1>8. \A e \in BriefDays : row'[e].code = row[e].code
  BY <1>2, <1>4, <1>5
<1>9. UNCHANGED <<today, news, briefs, final, corrected>>
  BY <1>1 DEF source
<1>10. \A e \in BriefDays : /\ Effective(e)' = Effective(e)
                            /\ Recovering(e)' = Recovering(e)
                            /\ \A h : Published(e, h)' = Published(e, h)
  BY <1>9 DEF Effective, Recovering, Published
<1>11. w \in WorkRec /\ w.day \in BriefDays /\ Knows(w)
  BY <1>2, <1>7 DEF WorkRec
<1>12. Knows(w)'
  BY <1>8, <1>9, <1>10, <1>11 DEF Knows, Fitting
<1> QED
  BY <1>1, <1>4, <1>5, <1>6, <1>7, <1>11, <1>12, RowMoves

\* What is left of a batch once a day is done.
LEMMA DoneRests ==
  ASSUME BriefInv, today' = today, NEW w \in WorkRec, w.current <= today,
         \A d \in w.queue : d <= w.current, NEW v, v = Done(w)
  PROVE  v \in WorkRec /\ Knows(v)'
<1>1. today \in Nat /\ 0 <= today /\ w.current \in BriefDays /\ w.queue \in SUBSET BriefDays
  BY BriefFacts DEF BriefInv, BriefTyped, WorkRec
<1>2. "next" \in BriefSteps /\ Idle \in WorkRec
  BY BriefFacts DEF BriefSteps
<1>3. CASE w.queue = {}
  <2>1. v = Idle
    BY <1>3 DEF Done
  <2>2. v.step = "idle" /\ v.queue = {} /\ v.current = 0
    BY <2>1 DEF Idle
  <2>3. Knows(v)'
    BY <1>1, <2>2 DEF Knows
  <2> QED
    BY <1>2, <2>1, <2>3
<1>4. CASE w.queue # {}
  <2>1. v = [Idle EXCEPT !.step = "next", !.queue = w.queue, !.current = w.current]
    BY <1>4 DEF Done
  <2>2. v \in WorkRec
    BY <1>1, <1>2, <2>1 DEF WorkRec
  <2>3. v.step = "next" /\ v.queue = w.queue /\ v.current = w.current
    BY <1>2, <2>1 DEF WorkRec
  <2>4. Knows(v)'
    BY <1>1, <1>4, <2>3 DEF Knows
  <2> QED
    BY <2>2, <2>4
<1> QED
  BY <1>3, <1>4

LEMMA LeaveRests ==
  ASSUME BriefInv, today' = today, NEW d, NEW v, v = LeaveDay(d)
  PROVE  v \in WorkRec /\ Knows(v)'
<1>1. work \in WorkRec /\ Knows(work)
  BY DEF BriefInv, BriefTyped
<1>2. PICK w : w = [work EXCEPT !.queue = @ \ {d}]
  OBVIOUS
<1>3. w \in WorkRec /\ w.current = work.current /\ w.queue = work.queue \ {d}
  BY <1>1, <1>2 DEF WorkRec
<1>4. w.current <= today /\ \A e \in w.queue : e <= w.current
  BY <1>1, <1>3 DEF Knows
<1>5. v = Done(w)
  BY <1>2 DEF LeaveDay
<1> QED
  BY <1>3, <1>4, <1>5, DoneRests

\* The day at hand is one of the queue; the current day comes first.
LEMMA AtHandFacts ==
  ASSUME BriefInv, NEW d \in BriefDays, AtHand(d)
  PROVE  /\ work.step = "next" /\ d \in work.queue /\ d <= work.current
         /\ work.current <= today /\ (d # work.current => d < today)
<1>1. work \in WorkRec /\ Knows(work) /\ work.step = "next" /\ d = NextDay
  BY DEF BriefInv, BriefTyped, AtHand
<1>2. /\ work.queue # {} /\ work.queue \in SUBSET BriefDays /\ work.current \in Nat
      /\ today \in Nat /\ d \in Nat /\ BriefDays \subseteq Nat /\ work.current <= today
      /\ \A e \in work.queue : e <= work.current
  BY <1>1, BriefFacts DEF WorkRec, Knows, BriefInv, BriefTyped
<1>3. IsFiniteSet(work.queue)
  <2>1. LastBrief \in Int /\ 0 \in Int
    BY BriefAssumption
  <2>2. IsFiniteSet(BriefDays)
    BY <2>1, FS_Interval DEF BriefDays
  <2> QED
    BY <1>2, <2>2, FS_Subset
<1>4. \E m \in work.queue : \A e \in work.queue : e <= m
  BY <1>2, <1>3, HasGreatest
<1>5. d \in work.queue
  BY <1>1, <1>4 DEF NextDay
<1> QED
  BY <1>1, <1>2, <1>5

LEMMA OntoFacts ==
  ASSUME BriefInv, NEW d \in BriefDays, AtHand(d), NEW step \in BriefSteps,
         NEW c \in Hashes, NEW w, w = Onto(step, d, c)
  PROVE  /\ w \in WorkRec /\ w.step = step /\ w.day = d /\ w.cand = c
         /\ w.current = work.current /\ w.current <= today
         /\ \A e \in w.queue : e <= w.current
         /\ w.settled => d < today /\ news[d].pending = 0
         /\ w.settled <=> d # work.current /\ news[d].pending = 0
         /\ w.terminal <=> news[d].terminal > 0
         /\ ~w.forced
<1>1. work \in WorkRec /\ Knows(work)
  BY DEF BriefInv, BriefTyped
<1>2. work.current <= today /\ \A e \in work.queue : e <= work.current
  BY <1>1 DEF Knows
<1>3. PICK s : s = (d # work.current /\ news[d].pending = 0)
  OBVIOUS
<1>4. PICK t : t = (news[d].terminal > 0)
  OBVIOUS
<1>5. s \in BOOLEAN /\ t \in BOOLEAN
  BY <1>3, <1>4
<1>6. w = [work EXCEPT !.step = step, !.day = d, !.queue = @ \ {d}, !.cand = c,
                       !.settled = s, !.terminal = t, !.forced = FALSE, !.found = <<>>]
  BY <1>3, <1>4 DEF Onto
<1>7. <<>> \in Tokens
  BY DEF Tokens
<1>8. /\ w.step = step /\ w.day = d /\ w.cand = c /\ w.current = work.current
      /\ w.queue = work.queue \ {d} /\ w.settled = s /\ w.terminal = t /\ w.forced = FALSE
  BY <1>1, <1>6 DEF WorkRec
<1>9. w \in WorkRec
  BY <1>1, <1>5, <1>6, <1>7 DEF WorkRec
<1>10. w.settled <=> d # work.current /\ news[d].pending = 0
  BY <1>3, <1>8
<1>11. w.terminal <=> news[d].terminal > 0
  BY <1>4, <1>8
<1> QED
  BY <1>2, <1>8, <1>9, <1>10, <1>11, AtHandFacts

\* The token of the moment names exactly the unfinished days.
LEMMA TokenFacts ==
  ASSUME BriefInv
  PROVE  /\ Token \in Tokens /\ Token # <<>>
         /\ UnfinishedAt(Token[1], Token[2], Token[3], Token[4]) = Unfinished
         /\ Unfinished \in SUBSET BriefDays /\ today \in Unfinished
         /\ \A d \in Unfinished : d <= today
<1>1. /\ today \in BriefDays /\ today \in Nat /\ BriefDays \subseteq Nat
      /\ news \in [BriefDays -> NewsRec] /\ final \in Finals /\ corrected \in Corrections
  BY BriefFacts DEF BriefInv, BriefTyped
<1>2. PICK c : c = [d \in BriefDays |-> news[d].receipts]
  OBVIOUS
<1>3. c \in [BriefDays -> Nat]
  BY <1>1, <1>2 DEF NewsRec
<1>4. Token = <<today, c, final, corrected>>
  BY <1>2 DEF Token
<1>5. Token \in Tokens
  BY <1>1, <1>3, <1>4 DEF Tokens
<1>6. Token # <<>>
  BY <1>4
<1>7. Token[1] = today /\ Token[2] = c /\ Token[3] = final /\ Token[4] = corrected
  BY <1>4
<1>8. \A d \in BriefDays : Effective(d) = "NONE"
                             <=> corrected[d] = "NONE" /\ final[d] \in {"NONE", "DEGRADED"}
  BY OpenDay DEF BriefInv
<1>9. \A d \in BriefDays : c[d] = news[d].receipts
  BY <1>2
<1>10. UnfinishedAt(today, c, final, corrected) = Unfinished
  BY <1>8, <1>9 DEF UnfinishedAt, Unfinished
<1>11. Unfinished \in SUBSET BriefDays /\ today \in Unfinished /\ \A d \in Unfinished : d <= today
  BY <1>1 DEF Unfinished
<1> QED
  BY <1>5, <1>6, <1>7, <1>10, <1>11

LEMMA DiscoverKeeps ==
  ASSUME BriefInv, Discover
  PROVE  BriefInv'
<1>1. /\ UNCHANGED <<source, briefs, final, corrected, row>> /\ cache' = cache
      /\ work.step = "idle"
  BY DEF Discover
<1>2. UNCHANGED <<today, news, final, corrected>>
  BY <1>1 DEF source
<1>3. today \in BriefDays /\ today \in Nat /\ BriefDays \subseteq Nat
  BY BriefFacts DEF BriefInv, BriefTyped
<1>4. Idle \in WorkRec /\ "next" \in BriefSteps /\ "publish" \in BriefSteps
  BY BriefFacts DEF BriefSteps
<1>5. CASE cache.key = Token
  <2>1. PICK q : q = cache.dates
    OBVIOUS
  <2>2. q = Unfinished
    BY <1>5, <2>1, TokenFacts DEF BriefInv, CacheFits, Fitting
  <2>3. PICK w : w = [Idle EXCEPT !.step = "next", !.queue = q, !.current = today]
    OBVIOUS
  <2>4. work' = w
    BY <1>5, <2>1, <2>3 DEF Discover
  <2>5. q \in SUBSET BriefDays /\ today \in q /\ \A d \in q : d <= today
    BY <2>2, TokenFacts
  <2>6. w \in WorkRec /\ w.step = "next" /\ w.queue = q /\ w.current = today
    BY <1>3, <1>4, <2>3, <2>5 DEF WorkRec
  <2>7. Knows(w)'
    BY <1>2, <1>3, <2>5, <2>6 DEF Knows
  <2> QED
    BY <1>1, <2>4, <2>6, <2>7, WorkMoves
<1>6. CASE cache.key # Token
  <2>1. PICK s \in {"next", "publish"} : s = IF row[today].phase = "NONE" THEN "next" ELSE "publish"
    OBVIOUS
  <2>2. PICK q, t : q = Unfinished /\ t = Token
    OBVIOUS
  <2>3. PICK w : w = [Idle EXCEPT !.step = s, !.queue = q, !.current = today, !.found = t]
    OBVIOUS
  <2>4. work' = w
    BY <1>6, <2>1, <2>2, <2>3 DEF Discover
  <2>5. /\ q \in SUBSET BriefDays /\ today \in q /\ \A d \in q : d <= today
        /\ t \in Tokens /\ q = UnfinishedAt(t[1], t[2], t[3], t[4])
    BY <2>2, TokenFacts
  <2>6. /\ w \in WorkRec /\ w.step = s /\ w.queue = q /\ w.current = today /\ w.found = t
    BY <1>3, <1>4, <2>1, <2>3, <2>5 DEF WorkRec
  <2>7. Knows(w)'
    BY <1>2, <1>3, <2>1, <2>5, <2>6 DEF Knows, Fitting
  <2> QED
    BY <1>1, <2>4, <2>6, <2>7, WorkMoves
<1> QED
  BY <1>5, <1>6

LEMMA PublishKeeps ==
  ASSUME BriefInv, PublishDates
  PROVE  BriefInv'
<1>1. /\ UNCHANGED <<source, briefs, final, corrected, row>> /\ work.step = "publish"
      /\ cache' = cache \/ cache' = [key |-> work.found, dates |-> work.queue]
  BY DEF PublishDates
<1>2. work \in WorkRec /\ Knows(work) /\ today' = today
  BY <1>1 DEF BriefInv, BriefTyped, source
<1>3. work.found \in Tokens /\ Fitting(work.found, work.queue)
  BY <1>1, <1>2 DEF WorkRec, Knows
<1>4. cache' = cache \/ (cache'.key \in Tokens /\ Fitting(cache'.key, cache'.dates))
  BY <1>1, <1>3
<1>5. PICK w : w = [work EXCEPT !.step = "next"]
  OBVIOUS
<1>6. "next" \in BriefSteps
  BY DEF BriefSteps
<1>7. w \in WorkRec /\ w.step = "next" /\ w.queue = work.queue /\ w.current = work.current
  BY <1>2, <1>5, <1>6 DEF WorkRec
<1>8. Knows(w)'
  BY <1>1, <1>2, <1>7 DEF Knows
<1>9. work' = w
  BY <1>5 DEF PublishDates
<1> QED
  BY <1>1, <1>4, <1>7, <1>8, <1>9, WorkMoves

\* A row is written and the batch goes to the next day.
LEMMA RowLeaves ==
  ASSUME BriefInv, UNCHANGED <<source, briefs, final, corrected, cache>>,
         NEW d \in BriefDays, NEW r \in RowRec, row' = [row EXCEPT ![d] = r],
         r.gen = NoHash \/ Published(d, r.gen), r.pend[2] => r.failures <= 1,
         work' = LeaveDay(d)
  PROVE  BriefInv'
<1>1. PICK v : v = LeaveDay(d)
  OBVIOUS
<1>2. today' = today
  BY DEF source
<1>3. v \in WorkRec /\ Knows(v)'
  BY <1>1, <1>2, LeaveRests
<1> QED
  BY <1>1, <1>3, RowMoves

\* What the latest revision, the refresh state and the packet of a day name.
LEMMA DayFacts ==
  ASSUME BriefInv, NEW d \in BriefDays
  PROVE  /\ news[d] \in NewsRec /\ row[d] \in RowRec /\ briefs[d] \in Seq(BriefRec)
         /\ LatestHash(d) \in Hashes
         /\ HasBrief(d) => Published(d, LatestHash(d)) /\ Latest(d).hash = LatestHash(d)
         /\ ~HasBrief(d) => LatestHash(d) = NoHash
         /\ Seen(d) \in RowRec /\ (Seen(d).gen = NoHash \/ Published(d, Seen(d).gen))
         /\ Seen(d).pend[2] => Seen(d).failures <= 1
         /\ Generated(d) \in Hashes /\ (Generated(d) = NoHash \/ Published(d, Generated(d)))
         /\ Candidate(d) \in Hashes /\ Candidate(d)[2] = Recovering(d)
         /\ Candidate(d)[1] = news[d].packet
<1>1. /\ news[d] \in NewsRec /\ row[d] \in RowRec /\ briefs[d] \in Seq(BriefRec)
  BY DEF BriefInv, BriefTyped
<1>4. /\ LatestHash(d) \in Hashes
      /\ HasBrief(d) => Published(d, LatestHash(d)) /\ Latest(d).hash = LatestHash(d)
      /\ ~HasBrief(d) => LatestHash(d) = NoHash
  <2>1. CASE HasBrief(d)
    <3>1. Len(briefs[d]) \in DOMAIN briefs[d] /\ briefs[d][Len(briefs[d])] \in BriefRec
      BY <1>1, <2>1 DEF HasBrief
    <3>2. LatestHash(d) = Latest(d).hash /\ Latest(d) \in BriefRec
      BY <2>1, <3>1 DEF LatestHash, Latest
    <3>3. LatestHash(d) \in Hashes
      BY <3>2 DEF BriefRec
    <3>4. Published(d, LatestHash(d))
      BY <3>1, <3>2 DEF Published, Latest
    <3> QED
      BY <2>1, <3>2, <3>3, <3>4
  <2>2. CASE ~HasBrief(d)
    BY <2>2, BriefFacts DEF LatestHash
  <2> QED
    BY <2>1, <2>2
<1>5. /\ Seen(d) \in RowRec /\ (Seen(d).gen = NoHash \/ Published(d, Seen(d).gen))
      /\ Seen(d).pend[2] => Seen(d).failures <= 1
  <2>1. CASE Recovering(d) /\ row[d].phase = "DEGRADED"
    <3>1. Seen(d) = [FreshState EXCEPT !.phase = "UPDATING"]
      BY <2>1 DEF Seen
    <3>2. Seen(d) \in RowRec /\ Seen(d).gen = NoHash /\ Seen(d).pend = NoHash
      BY <3>1, BriefFacts DEF RowRec, FreshState
    <3> QED
      BY <3>2, BriefFacts
  <2>2. CASE ~(Recovering(d) /\ row[d].phase = "DEGRADED")
    BY <1>1, <2>2 DEF Seen, BriefInv, Refreshing
  <2> QED
    BY <2>1, <2>2
<1>6. Generated(d) \in Hashes /\ (Generated(d) = NoHash \/ Published(d, Generated(d)))
  <2>1. Seen(d).gen \in Hashes
    BY <1>5 DEF RowRec
  <2> QED
    BY <1>4, <1>5, <2>1 DEF Generated
<1>7. Recovering(d) \in BOOLEAN /\ news[d].packet \in Packets \cup {NoPacket}
  BY <1>1 DEF Recovering, NewsRec
<1>8. Candidate(d) = <<news[d].packet, Recovering(d)>>
  BY DEF Candidate
<1>9. Candidate(d) \in Hashes /\ Candidate(d)[2] = Recovering(d) /\ Candidate(d)[1] = news[d].packet
  BY <1>7, <1>8 DEF Hashes
<1> QED
  BY <1>1, <1>4, <1>5, <1>6, <1>9

\* A packet counted as unchanged is one a revision of the day has.
LEMMA UnchangedFacts ==
  ASSUME BriefInv, NEW d \in BriefDays, Synthesis(d), Unchanged(d)
  PROVE  Published(d, Candidate(d))
<1>1. HasBrief(d) /\ news[d].packet # NoPacket
      /\ (Latest(d).hash = Candidate(d) \/ Generated(d) = Candidate(d))
  BY DEF Unchanged, Synthesis
<1>2. Candidate(d) # NoHash
  BY <1>1, DayFacts, BriefFacts
<1> QED
  BY <1>1, <1>2, DayFacts

LEMMA FinalizedKeeps ==
  ASSUME BriefInv, NEW d \in BriefDays, Finalized(d)
  PROVE  BriefInv'
<1>1. PICK e : e = Effective(d)
  OBVIOUS
<1>2. final[d] \in FINAL_PHASES \cup {"NONE", "EMPTY"} /\ corrected[d] \in FINAL_PHASES \cup {"NONE"}
  BY DEF BriefInv, BriefTyped, Finals, Corrections
<1>3. e \in FINAL_PHASES \cup {"NONE", "EMPTY"}
  BY <1>1, <1>2 DEF Effective
<1>4. PICK h : h = LatestHash(d)
  OBVIOUS
<1>5. PICK r : r = [FreshState EXCEPT !.phase = e, !.gen = h]
  OBVIOUS
<1>6. h \in Hashes /\ (h = NoHash \/ Published(d, h))
  BY <1>4, DayFacts
<1>7. r \in RowRec /\ r.gen = h /\ r.pend = NoHash
  BY <1>3, <1>5, <1>6, BriefFacts DEF RowRec, FreshState
<1>8. /\ UNCHANGED <<source, briefs, final, corrected, cache>> /\ work' = LeaveDay(d)
      /\ row' = [row EXCEPT ![d] = r]
  BY <1>1, <1>4, <1>5 DEF Finalized
<1> QED
  BY <1>6, <1>7, <1>8, BriefFacts, RowLeaves

\* A day without news: waiting while it is the current one, else closed as empty.
LEMMA NoNewsKeeps ==
  ASSUME BriefInv, NEW d \in BriefDays, NoNews(d)
  PROVE  BriefInv'
<1>1. AtHand(d) /\ Effective(d) = "NONE" /\ NoRows(d)
      /\ UNCHANGED <<source, briefs, corrected, cache>>
  BY DEF NoNews
<1>2. CASE d = work.current
  <2>1. PICK r : r = [FreshState EXCEPT !.phase = "WAITING"]
    OBVIOUS
  <2>2. r \in RowRec /\ r.gen = NoHash /\ r.pend = NoHash
    BY <2>1, BriefFacts DEF RowRec, FreshState
  <2>3. row' = [row EXCEPT ![d] = r] /\ work' = LeaveDay(d) /\ final' = final
    BY <1>2, <2>1 DEF NoNews
  <2> QED
    BY <1>1, <2>2, <2>3, BriefFacts, RowLeaves
<1>3. CASE d # work.current
  <2>1. PICK w : w = Onto("empty", d, NoHash)
    OBVIOUS
  <2>2. PICK f : f = IF final[d] = "NONE" THEN "EMPTY" ELSE final[d]
    OBVIOUS
  <2>3. work' = w /\ final' = [final EXCEPT ![d] = f] /\ row' = row
    BY <1>3, <2>1, <2>2 DEF NoNews
  <2>4. UNCHANGED <<today, news, briefs, corrected, cache, row>>
    BY <1>1, <2>3 DEF source
  <2>5. /\ final \in Finals /\ final[d] \in {"NONE", "DEGRADED"} /\ corrected[d] = "NONE"
    BY <1>1, OpenDay DEF BriefInv, BriefTyped
  <2>6. f \in {"EMPTY", "DEGRADED"}
    BY <2>2, <2>5
  <2>7. final' \in Finals /\ final'[d] = f /\ \A e \in BriefDays \ {d} : final'[e] = final[e]
    BY <2>3, <2>5, <2>6 DEF Finals, FINAL_PHASES
  <2>8. "empty" \in BriefSteps /\ NoHash \in Hashes
    BY BriefFacts DEF BriefSteps
  <2>9. /\ w \in WorkRec /\ w.step = "empty" /\ w.cand = NoHash /\ w.current <= today
        /\ \A e \in w.queue : e <= w.current
    BY <1>1, <2>1, <2>8, OntoFacts
  <2>10. BriefTyped'
    BY <2>3, <2>4, <2>7, <2>9 DEF BriefInv, BriefTyped
  <2>11. \A e \in BriefDays : /\ HasBrief(e)' = HasBrief(e)
                              /\ \A h : Published(e, h)' = Published(e, h)
    BY <2>4 DEF HasBrief, Published
  <2>12. ClosedIsSettled'
    <3>1. \A e \in BriefDays \ {d} : Effective(e)' = Effective(e)
      BY <2>4, <2>7 DEF Effective
    <3>2. Effective(d)' \notin FINAL_PHASES
      BY <2>4, <2>5, <2>6, <2>7 DEF Effective, FINAL_PHASES
    <3>3. d < today /\ news[d].pending = 0
      BY <1>1, <1>3, AtHandFacts DEF NoRows
    <3>4. "FINAL" \in FINAL_PHASES
      BY DEF FINAL_PHASES
    <3> QED
      BY <2>4, <2>11, <3>1, <3>2, <3>3, <3>4 DEF BriefInv, ClosedIsSettled
  <2>13. Recorded'
    BY <2>4, <2>2, <2>5, <2>7, <2>11 DEF BriefInv, Recorded
  <2>14. Refreshing' /\ CacheFits'
    BY <2>4, <2>11 DEF BriefInv, Refreshing, CacheFits, Fitting
  <2>15. Knows(w)'
    BY <2>4, <2>9 DEF Knows
  <2> QED
    BY <2>3, <2>10, <2>12, <2>13, <2>14, <2>15 DEF BriefInv
<1> QED
  BY <1>2, <1>3

\* A revision is added to a day: what was published stays so.
LEMMA BriefsGrow ==
  ASSUME BriefInv, UNCHANGED <<source, final, corrected, row, cache>>,
         NEW d \in BriefDays, NEW b \in BriefRec, briefs' = [briefs EXCEPT ![d] = Append(@, b)],
         news[d].packet # NoPacket \/ b = Settlement,
         NEW w \in WorkRec, work' = w, Knows(w)'
  PROVE  BriefInv'
<1>1. UNCHANGED <<today, news, final, corrected, row, cache>>
  BY DEF source
<1>2. briefs \in [BriefDays -> Seq(BriefRec)] /\ briefs[d] \in Seq(BriefRec)
  BY DEF BriefInv, BriefTyped
<1>3. /\ briefs' \in [BriefDays -> Seq(BriefRec)] /\ briefs'[d] = Append(briefs[d], b)
      /\ \A e \in BriefDays \ {d} : briefs'[e] = briefs[e]
  BY <1>2
<1>4. BriefTyped'
  BY <1>1, <1>3 DEF BriefInv, BriefTyped
<1>5. \A e \in BriefDays : \A i \in DOMAIN briefs[e] :
        i \in DOMAIN briefs'[e] /\ briefs'[e][i] = briefs[e][i]
  BY <1>2, <1>3
<1>6. \A e \in BriefDays : /\ Effective(e)' = Effective(e)
                           /\ HasBrief(e) => HasBrief(e)'
                           /\ \A h : Published(e, h) => Published(e, h)'
  <2>1. \A e \in BriefDays : Effective(e)' = Effective(e)
    BY <1>1 DEF Effective
  <2>2. \A e \in BriefDays : HasBrief(e) => HasBrief(e)'
    BY <1>2, <1>3 DEF HasBrief
  <2>3. \A e \in BriefDays : \A h : Published(e, h) => Published(e, h)'
    BY <1>5 DEF Published
  <2> QED
    BY <2>1, <2>2, <2>3
<1>7. ClosedIsSettled' /\ Refreshing' /\ CacheFits'
  BY <1>1, <1>6 DEF BriefInv, ClosedIsSettled, Refreshing, CacheFits, Fitting
<1>8. Recorded'
  <2>1. \A i \in DOMAIN briefs'[d] : i \in DOMAIN briefs[d] \/ briefs'[d][i] = b
    BY <1>2, <1>3
  <2>2. news[d].packet = NoPacket => \A i \in DOMAIN briefs'[d] : briefs'[d][i] = Settlement
    BY <1>5, <2>1 DEF BriefInv, Recorded
  <2>3. \A e \in BriefDays \ {d} : news[e].packet = NoPacket
                                     => \A i \in DOMAIN briefs'[e] : briefs'[e][i] = Settlement
    BY <1>3 DEF BriefInv, Recorded
  <2> QED
    BY <1>1, <1>6, <2>2, <2>3 DEF BriefInv, Recorded
<1> QED
  BY <1>4, <1>7, <1>8 DEF BriefInv

\* Only terminal items: the settlement closes a settled past day.
LEMMA NoReviewedKeeps ==
  ASSUME BriefInv, NEW d \in BriefDays, NoReviewed(d)
  PROVE  BriefInv'
<1>1. /\ AtHand(d) /\ Effective(d) = "NONE" /\ news[d].packet = NoPacket
      /\ UNCHANGED <<source, final, corrected, cache>>
  BY DEF NoReviewed
<1>2. PICK c : c = <<"population", FALSE>>
  OBVIOUS
<1>3. PICK w : w = Onto("finalize", d, c)
  OBVIOUS
<1>4. c \in Hashes /\ "finalize" \in BriefSteps
  BY <1>2 DEF Hashes, BriefSteps
<1>5. /\ w \in WorkRec /\ w.step = "finalize" /\ w.day = d /\ w.cand = c
      /\ w.current <= today /\ \A e \in w.queue : e <= w.current
      /\ w.settled => d < today /\ news[d].pending = 0
      /\ w.terminal <=> news[d].terminal > 0
      /\ ~w.forced
  BY <1>1, <1>3, <1>4, OntoFacts
<1>6. CASE w.settled /\ w.terminal
  <2>1. work' = w /\ row' = row
    BY <1>2, <1>3, <1>6 DEF NoReviewed
  <2>2. PICK b : b = [hash |-> c, kind |-> "settlement"]
    OBVIOUS
  <2>3. b = Settlement /\ b \in BriefRec /\ b.hash = c
    BY <1>2, <1>4, <2>2 DEF Settlement, BriefRec
  <2>4. UNCHANGED <<today, news, final, corrected, row>>
    BY <1>1, <2>1 DEF source
  <2>5. /\ Effective(d)' = Effective(d)
        /\ Published(d, c)' => Knows(w)'
    <3>1. Effective(d)' = Effective(d)
      BY <2>4 DEF Effective
    <3> QED
      BY <1>1, <1>5, <1>6, <2>4, <3>1 DEF Knows
  <2>6. CASE HasBrief(d)
    <3>1. briefs' = briefs
      BY <1>2, <1>3, <1>6, <2>6 DEF NoReviewed
    <3>2. briefs[d] \in Seq(BriefRec) /\ \A i \in DOMAIN briefs[d] : briefs[d][i] = Settlement
      BY <1>1 DEF BriefInv, BriefTyped, Recorded
    <3>3. 1 \in DOMAIN briefs[d]
      BY <2>6, <3>2 DEF HasBrief
    <3>4. Published(d, c)'
      BY <2>3, <3>1, <3>2, <3>3 DEF Published
    <3> QED
      BY <1>1, <1>5, <2>1, <2>5, <3>1, <3>4, WorkMoves
  <2>7. CASE ~HasBrief(d)
    <3>1. briefs' = [briefs EXCEPT ![d] = <<b>>] /\ briefs[d] = <<>>
      BY <1>2, <1>3, <1>5, <1>6, <2>2, <2>7 DEF NoReviewed, Revision, HasBrief
    <3>2. briefs' = [briefs EXCEPT ![d] = Append(@, b)] /\ briefs'[d] = <<b>>
      BY <3>1 DEF BriefInv, BriefTyped
    <3>3. Published(d, c)'
      BY <2>3, <3>2 DEF Published
    <3> QED
      BY <1>1, <1>5, <2>1, <2>3, <2>5, <3>2, <3>3, BriefsGrow
  <2> QED
    BY <2>6, <2>7
<1>7. CASE ~(w.settled /\ w.terminal)
  <2>1. PICK p \in {"WAITING", "UPDATING"} : p = IF d = work.current THEN "WAITING" ELSE "UPDATING"
    OBVIOUS
  <2>2. PICK r : r = [FreshState EXCEPT !.phase = p]
    OBVIOUS
  <2>3. r \in RowRec /\ r.gen = NoHash /\ r.pend = NoHash
    BY <2>1, <2>2, BriefFacts DEF RowRec, FreshState
  <2>4. row' = [row EXCEPT ![d] = r] /\ work' = LeaveDay(d) /\ briefs' = briefs
    BY <1>2, <1>3, <1>7, <2>1, <2>2 DEF NoReviewed
  <2> QED
    BY <1>1, <2>3, <2>4, BriefFacts, RowLeaves
<1> QED
  BY <1>6, <1>7

LEMMA CandidatesUnchangedKeeps ==
  ASSUME BriefInv, NEW d \in BriefDays, CandidatesUnchanged(d)
  PROVE  BriefInv'
<1>1. /\ Synthesis(d) /\ Unchanged(d) /\ AtHand(d) /\ Effective(d) = "NONE"
      /\ UNCHANGED <<source, briefs, final, corrected, cache>>
  BY DEF CandidatesUnchanged, Synthesis
<1>2. PICK c : c = Candidate(d)
  OBVIOUS
<1>3. c \in Hashes /\ Published(d, c) /\ "finalize" \in BriefSteps
  BY <1>1, <1>2, DayFacts, UnchangedFacts DEF BriefSteps
<1>4. PICK w : w = Onto("finalize", d, c)
  OBVIOUS
<1>5. /\ w \in WorkRec /\ w.step = "finalize" /\ w.day = d /\ w.cand = c
      /\ w.current <= today /\ \A e \in w.queue : e <= w.current
      /\ w.settled => d < today /\ news[d].pending = 0
      /\ w.terminal <=> news[d].terminal > 0
      /\ ~w.forced
  BY <1>1, <1>3, <1>4, OntoFacts
<1>6. CASE w.settled
  <2>1. work' = w /\ row' = row
    BY <1>2, <1>4, <1>6 DEF CandidatesUnchanged
  <2>2. UNCHANGED <<today, news, briefs, final, corrected, row>>
    BY <1>1, <2>1 DEF source
  <2>3. Effective(d)' = Effective(d) /\ Published(d, c)'
    BY <1>3, <2>2 DEF Effective, Published
  <2>4. Knows(w)'
    BY <1>1, <1>5, <1>6, <2>2, <2>3 DEF Knows
  <2> QED
    BY <1>1, <1>5, <2>1, <2>4, WorkMoves
<1>7. CASE ~w.settled
  <2>1. PICK r : r = [FreshState EXCEPT !.phase = "UPDATING", !.gen = c]
    OBVIOUS
  <2>2. r \in RowRec /\ r.gen = c /\ r.pend = NoHash
    BY <1>3, <2>1, BriefFacts DEF RowRec, FreshState
  <2>3. row' = [row EXCEPT ![d] = r] /\ work' = LeaveDay(d)
    BY <1>2, <1>4, <1>7, <2>1 DEF CandidatesUnchanged
  <2> QED
    BY <1>1, <1>3, <2>2, <2>3, BriefFacts, RowLeaves
<1> QED
  BY <1>6, <1>7

LEMMA StillDeferredKeeps ==
  ASSUME BriefInv, NEW d \in BriefDays, StillDeferred(d)
  PROVE  BriefInv'
<1>1. PICK v : v = LeaveDay(d)
  OBVIOUS
<1>2. UNCHANGED <<source, briefs, final, corrected, row>> /\ cache' = cache /\ work' = v
  BY <1>1 DEF StillDeferred
<1>3. v \in WorkRec /\ Knows(v)'
  BY <1>1, <1>2, LeaveRests DEF source
<1> QED
  BY <1>2, <1>3, WorkMoves

\* A candidate given up is not one of the recovery, which starts over at each attempt.
LEMMA GiveUpKeeps ==
  ASSUME BriefInv, NEW d \in BriefDays, GiveUp(d)
  PROVE  BriefInv'
<1>1. /\ AtHand(d) /\ Effective(d) = "NONE" /\ news[d].packet # NoPacket
      /\ Spent(d) /\ UNCHANGED <<source, briefs, final, corrected, row>> /\ cache' = cache
  BY DEF GiveUp, Synthesis, Exhausted
<1>2. PICK c : c = Candidate(d)
  OBVIOUS
<1>3. c \in Hashes /\ c[2] = Recovering(d) /\ "fallback" \in BriefSteps
  BY <1>2, DayFacts DEF BriefSteps
<1>4. ~c[2]
  <2>1. Seen(d).failures >= FAILURES /\ Seen(d).pend = c /\ Seen(d) \in RowRec
        /\ (Seen(d).pend[2] => Seen(d).failures <= 1)
    BY <1>1, <1>2, DayFacts DEF Spent
  <2>2. Seen(d).failures \in Nat /\ FAILURES \in Nat /\ FAILURES > 1
    BY <2>1, BriefAssumption DEF RowRec
  <2> QED
    BY <2>1, <2>2
<1>5. PICK w : w = Onto("fallback", d, c)
  OBVIOUS
<1>6. /\ w \in WorkRec /\ w.step = "fallback" /\ w.day = d /\ w.cand = c
      /\ w.current <= today /\ \A e \in w.queue : e <= w.current
      /\ w.settled => d < today /\ news[d].pending = 0
      /\ w.terminal <=> news[d].terminal > 0
      /\ ~w.forced
  BY <1>1, <1>3, <1>5, OntoFacts
<1>7. work' = w
  BY <1>2, <1>5 DEF GiveUp
<1>8. UNCHANGED <<today, news, final, corrected, row>>
  BY <1>1 DEF source
<1>9. Effective(d)' = Effective(d) /\ Recovering(d)' = Recovering(d)
  BY <1>8 DEF Effective, Recovering
<1>10. Knows(w)'
  BY <1>1, <1>3, <1>4, <1>6, <1>8, <1>9 DEF Knows
<1> QED
  BY <1>1, <1>6, <1>7, <1>10, WorkMoves

LEMMA DeferredFacts ==
  ASSUME BriefInv, NEW d \in BriefDays, NEW c \in Hashes, NEW n \in Nat,
         NEW code \in {"CAPACITY", "FAILURE"}, NEW r, r = Deferred(d, c, n, code)
  PROVE  /\ r \in RowRec /\ (r.gen = NoHash \/ Published(d, r.gen))
         /\ r.pend = c /\ r.failures = n
<1>1. PICK h : h = LatestHash(d)
  OBVIOUS
<1>2. r = [FreshState EXCEPT !.phase = "DEFERRED", !.gen = h, !.pend = c, !.wait = TRUE,
                             !.failures = n, !.code = code]
  BY <1>1 DEF Deferred
<1>3. h \in Hashes /\ (h = NoHash \/ Published(d, h))
  BY <1>1, DayFacts
<1>4. r \in RowRec /\ r.gen = h /\ r.pend = c /\ r.failures = n
  BY <1>2, <1>3 DEF RowRec, FreshState
<1> QED
  BY <1>3, <1>4

LEMMA RefreshedFacts ==
  ASSUME BriefInv, NEW d \in BriefDays, NEW eligible \in BOOLEAN, NEW r,
         r = Refreshed(d, eligible)
  PROVE  /\ r \in RowRec /\ (r.gen = NoHash \/ Published(d, r.gen))
         /\ r.failures = 0 /\ r.code = "NONE"
<1>1. PICK g, c : g = Generated(d) /\ c = Candidate(d)
  OBVIOUS
<1>2. PICK e \in BOOLEAN : e = ~eligible
  OBVIOUS
<1>3. r = [FreshState EXCEPT !.phase = "UPDATING", !.gen = g, !.pend = c, !.wait = e]
  BY <1>1, <1>2 DEF Refreshed
<1>4. g \in Hashes /\ c \in Hashes /\ (g = NoHash \/ Published(d, g))
  BY <1>1, DayFacts
<1>5. r \in RowRec
  BY <1>2, <1>3, <1>4, BriefFacts DEF RowRec
<1>6. r.gen = g /\ r.failures = 0 /\ r.code = "NONE"
  BY <1>3 DEF FreshState
<1> QED
  BY <1>4, <1>5, <1>6

LEMMA RefreshKeeps ==
  ASSUME BriefInv, NEW d \in BriefDays, Refresh(d)
  PROVE  BriefInv'
<1>1. /\ AtHand(d) /\ Effective(d) = "NONE" /\ news[d].packet # NoPacket
      /\ UNCHANGED <<source, briefs, final, corrected, cache>>
  BY DEF Refresh, Synthesis
<1>2. PICK c : c = Candidate(d)
  OBVIOUS
<1>3. c \in Hashes /\ c[2] = Recovering(d) /\ "model" \in BriefSteps
  BY <1>2, DayFacts DEF BriefSteps
<1>4. CASE row' = [row EXCEPT ![d] = Refreshed(d, FALSE)] /\ work' = LeaveDay(d)
  <2>1. PICK r : r = Refreshed(d, FALSE)
    OBVIOUS
  <2>2. r \in RowRec /\ (r.gen = NoHash \/ Published(d, r.gen)) /\ r.failures = 0
    BY <2>1, RefreshedFacts
  <2>3. r.pend[2] => r.failures <= 1
    BY <2>2
  <2>4. row' = [row EXCEPT ![d] = r] /\ work' = LeaveDay(d)
    BY <1>4, <2>1
  <2> QED
    BY <1>1, <2>2, <2>3, <2>4, RowLeaves
<1>5. CASE /\ row' = [row EXCEPT ![d] = Deferred(d, Candidate(d), 0, "CAPACITY")]
           /\ work' = LeaveDay(d)
  <2>1. PICK r : r = Deferred(d, c, 0, "CAPACITY")
    OBVIOUS
  <2>2. 0 \in Nat /\ "CAPACITY" \in {"CAPACITY", "FAILURE"}
    OBVIOUS
  <2>3. r \in RowRec /\ (r.gen = NoHash \/ Published(d, r.gen)) /\ r.failures = 0
    BY <1>3, <2>1, <2>2, DeferredFacts
  <2>4. row' = [row EXCEPT ![d] = r]
    BY <1>2, <1>5, <2>1
  <2>5. r.pend[2] => r.failures <= 1
    BY <2>3
  <2>6. work' = LeaveDay(d)
    BY <1>5
  <2> QED
    BY <1>1, <2>3, <2>4, <2>5, <2>6, RowLeaves
<1>6. CASE /\ row' = [row EXCEPT ![d] = IF HasBrief(d) THEN Refreshed(d, TRUE) ELSE Seen(d)]
           /\ work' = Onto("model", d, Candidate(d))
  <2>1. PICK r : r = IF HasBrief(d) THEN Refreshed(d, TRUE) ELSE Seen(d)
    OBVIOUS
  <2>2. /\ r \in RowRec /\ (r.gen = NoHash \/ Published(d, r.gen))
        /\ r.pend[2] => r.failures <= 1
        /\ HasBrief(d) => r.code = "NONE"
    <3>1. CASE HasBrief(d)
      <4>1. r = Refreshed(d, TRUE) /\ TRUE \in BOOLEAN
        BY <2>1, <3>1
      <4>2. /\ r \in RowRec /\ (r.gen = NoHash \/ Published(d, r.gen))
            /\ r.failures = 0 /\ r.code = "NONE"
        BY <4>1, RefreshedFacts
      <4> QED
        BY <4>2
    <3>2. CASE ~HasBrief(d)
      BY <2>1, <3>2, DayFacts
    <3> QED
      BY <3>1, <3>2
  <2>3. PICK w : w = Onto("model", d, c)
    OBVIOUS
  <2>4. /\ w \in WorkRec /\ w.step = "model" /\ w.day = d /\ w.cand = c
        /\ w.current <= today /\ \A e \in w.queue : e <= w.current
        /\ w.settled => d < today /\ news[d].pending = 0
        /\ w.terminal <=> news[d].terminal > 0
        /\ ~w.forced
    BY <1>1, <1>3, <2>3, OntoFacts
  <2>5. work' = w /\ row' = [row EXCEPT ![d] = r]
    BY <1>2, <1>6, <2>1, <2>3
  <2>6. UNCHANGED <<today, news, final, corrected>>
    BY <1>1 DEF source
  <2>7. Effective(d)' = Effective(d) /\ Recovering(d)' = Recovering(d)
    BY <2>6 DEF Effective, Recovering
  <2>8. row'[d] = r
    BY <2>5 DEF BriefInv, BriefTyped
  <2>9. c[2] => r.code = "NONE"
    BY <1>3, <2>2 DEF BriefInv, Recorded, Recovering
  <2>10. Knows(w)'
    BY <1>1, <1>3, <2>4, <2>6, <2>7, <2>8, <2>9 DEF Knows
  <2> QED
    BY <1>1, <2>2, <2>4, <2>5, <2>10, RowMoves
<1> QED
  BY <1>4, <1>5, <1>6 DEF Refresh

\* What the batch knows of the day whose model call it has out.
LEMMA AskedFacts ==
  ASSUME BriefInv, work.step \in {"model", "failed", "fallback"}
  PROVE  /\ work \in WorkRec /\ Knows(work) /\ work.day \in BriefDays /\ work.cand \in Hashes
         /\ news[work.day].packet # NoPacket /\ Effective(work.day) = "NONE"
         /\ (work.cand[2] <=> Recovering(work.day)) /\ ~work.forced
         /\ work.current <= today /\ \A e \in work.queue : e <= work.current
<1>1. work \in WorkRec /\ Knows(work)
  BY DEF BriefInv, BriefTyped
<1>2. work.day \in BriefDays /\ work.cand \in Hashes
  BY <1>1 DEF WorkRec
<1> QED
  BY <1>1, <1>2 DEF Knows

\* An answer is a revision of its day.
LEMMA AnswerKeeps ==
  ASSUME BriefInv, Answer
  PROVE  BriefInv'
<1>1. work.step = "model" /\ UNCHANGED <<source, final, corrected, row, cache>>
  BY DEF Answer
<1>2. UNCHANGED <<today, news, final, corrected, row>>
  BY <1>1 DEF source
<1>3. CASE Published(work.day, work.cand)
  <2>1. PICK w : w = Idle
    OBVIOUS
  <2>2. work' = w /\ briefs' = briefs
    BY <1>3, <2>1 DEF Answer
  <2>3. w \in WorkRec /\ w.step = "idle" /\ w.queue = {} /\ w.current = 0
    BY <2>1, BriefFacts DEF Idle
  <2>4. Knows(w)'
    BY <1>2, <2>3, BriefFacts DEF Knows, BriefInv, BriefTyped
  <2> QED
    BY <1>1, <2>2, <2>3, <2>4, WorkMoves
<1>4. CASE ~Published(work.day, work.cand)
  <2>1. PICK d, c : d = work.day /\ c = work.cand
    OBVIOUS
  <2>2. PICK b : b = [hash |-> c, kind |-> "model"]
    OBVIOUS
  <2>3. d \in BriefDays /\ c \in Hashes /\ news[d].packet # NoPacket
    BY <1>1, <2>1, AskedFacts
  <2>4. b \in BriefRec /\ b.hash = c
    BY <2>2, <2>3 DEF BriefRec
  <2>5. briefs' = [briefs EXCEPT ![d] = Append(@, b)]
    BY <1>4, <2>1, <2>2 DEF Answer, Revision
  <2>6. PICK s \in {"finalize", "record"} : s = IF work.settled THEN "finalize" ELSE "record"
    OBVIOUS
  <2>7. PICK w : w = [work EXCEPT !.step = s]
    OBVIOUS
  <2>8. work' = w
    BY <1>4, <2>6, <2>7 DEF Answer
  <2>9. /\ w \in WorkRec /\ w.step = s /\ w.day = d /\ w.cand = c /\ w.queue = work.queue
        /\ w.current = work.current /\ w.settled = work.settled
        /\ w.terminal = work.terminal /\ w.forced = work.forced
    <3>1. work \in WorkRec /\ "finalize" \in BriefSteps /\ "record" \in BriefSteps
      BY <1>1, AskedFacts DEF BriefSteps
    <3> QED
      BY <2>1, <2>6, <2>7, <3>1 DEF WorkRec
  <2>10. Published(d, c)'
    <3>1. briefs[d] \in Seq(BriefRec)
      BY <2>3 DEF BriefInv, BriefTyped
    <3>2. briefs'[d] = Append(briefs[d], b)
      BY <2>3, <2>5 DEF BriefInv, BriefTyped
    <3>3. /\ Len(briefs[d]) + 1 \in DOMAIN briefs'[d]
          /\ briefs'[d][Len(briefs[d]) + 1] = b
      BY <2>4, <3>1, <3>2
    <3> QED
      BY <2>4, <3>3 DEF Published
  <2>11. Effective(d)' = Effective(d)
    BY <1>2 DEF Effective
  <2>12. Knows(work) /\ Effective(d) = "NONE" /\ ~work.forced
    BY <1>1, <2>1, AskedFacts
  <2>13. Knows(w)'
    BY <1>1, <1>2, <2>1, <2>6, <2>9, <2>10, <2>11, <2>12 DEF Knows
  <2> QED
    BY <1>1, <2>3, <2>4, <2>5, <2>8, <2>9, <2>13, BriefsGrow
<1> QED
  BY <1>3, <1>4

\* The batch goes to the next day from the one at hand.
LEMMA DoneWorks ==
  ASSUME BriefInv, UNCHANGED source, work.step \in BriefSteps, NEW v, v = Done(work)
  PROVE  v \in WorkRec /\ Knows(v)'
<1>1. PICK w : w = work
  OBVIOUS
<1>2. w \in WorkRec /\ Knows(work)
  BY <1>1 DEF BriefInv, BriefTyped
<1>3. w.current <= today /\ \A d \in w.queue : d <= w.current
  BY <1>1, <1>2 DEF Knows
<1>4. today' = today /\ v = Done(w)
  BY <1>1 DEF source
<1> QED
  BY <1>2, <1>3, <1>4, DoneRests

LEMMA CapacityKeeps ==
  ASSUME BriefInv, Capacity
  PROVE  BriefInv'
<1>1. work.step = "model" /\ UNCHANGED <<source, briefs, final, corrected, cache>>
  BY DEF Capacity
<1>2. PICK d, c : d = work.day /\ c = work.cand
  OBVIOUS
<1>3. d \in BriefDays /\ c \in Hashes /\ work.step \in BriefSteps
  BY <1>1, <1>2, AskedFacts DEF BriefSteps
<1>4. PICK r : r = Deferred(d, c, 0, "CAPACITY")
  OBVIOUS
<1>5. 0 \in Nat /\ "CAPACITY" \in {"CAPACITY", "FAILURE"}
  OBVIOUS
<1>6. r \in RowRec /\ (r.gen = NoHash \/ Published(d, r.gen)) /\ r.failures = 0
  BY <1>3, <1>4, <1>5, DeferredFacts
<1>7. r.pend[2] => r.failures <= 1
  BY <1>6
<1>8. PICK v : v = Done(work)
  OBVIOUS
<1>9. v \in WorkRec /\ Knows(v)'
  BY <1>1, <1>3, <1>8, DoneWorks
<1>10. row' = [row EXCEPT ![d] = r] /\ work' = v
  BY <1>2, <1>4, <1>8 DEF Capacity
<1> QED
  BY <1>1, <1>3, <1>6, <1>7, <1>9, <1>10, RowMoves

LEMMA FailKeeps ==
  ASSUME BriefInv, Fail
  PROVE  BriefInv'
<1>1. work.step = "model" /\ UNCHANGED <<source, briefs, final, corrected, row, cache>>
  BY DEF Fail
<1>2. PICK w : w = [work EXCEPT !.step = "failed"]
  OBVIOUS
<1>3. work \in WorkRec /\ Knows(work) /\ work.day \in BriefDays /\ "failed" \in BriefSteps
  BY <1>1, AskedFacts DEF BriefSteps
<1>4. /\ w \in WorkRec /\ w.step = "failed" /\ w.day = work.day /\ w.cand = work.cand
      /\ w.queue = work.queue /\ w.current = work.current /\ w.settled = work.settled
      /\ w.terminal = work.terminal /\ w.forced = work.forced
  BY <1>2, <1>3 DEF WorkRec
<1>5. UNCHANGED <<today, news, briefs, final, corrected, row>>
  BY <1>1 DEF source
<1>6. \A e \in BriefDays : Effective(e)' = Effective(e) /\ Recovering(e)' = Recovering(e)
  BY <1>5 DEF Effective, Recovering
<1>7. Knows(w)'
  BY <1>1, <1>3, <1>4, <1>5, <1>6 DEF Knows
<1>8. work' = w
  BY <1>2 DEF Fail
<1> QED
  BY <1>1, <1>4, <1>7, <1>8, WorkMoves

\* A candidate of the recovery has no failure recorded before: it is not given up here.
LEMMA RecordFailureKeeps ==
  ASSUME BriefInv, RecordFailure
  PROVE  BriefInv'
<1>1. work.step = "failed" /\ UNCHANGED <<source, briefs, final, corrected, cache>>
  BY DEF RecordFailure
<1>2. PICK d, c : d = work.day /\ c = work.cand
  OBVIOUS
<1>3. /\ d \in BriefDays /\ c \in Hashes /\ work.step \in BriefSteps /\ Knows(work)
      /\ work \in WorkRec
  BY <1>1, <1>2, AskedFacts DEF BriefSteps
<1>4. PICK n : n = Consecutive(d)
  OBVIOUS
<1>5. n \in Nat /\ (c[2] => n = 1)
  <2>1. row[d] \in RowRec /\ FAILURES \in Nat /\ FAILURES > 1
    BY <1>3, BriefAssumption DEF BriefInv, BriefTyped
  <2>2. PICK before : before = IF row[d].pend = work.cand /\ row[d].code = "FAILURE"
                               THEN row[d].failures ELSE 0
    OBVIOUS
  <2>3. n = IF before < FAILURES THEN before + 1 ELSE FAILURES
    BY <1>4, <2>2 DEF Consecutive
  <2>4. before \in Nat
    BY <2>1, <2>2 DEF RowRec
  <2>5. c[2] => row[d].code = "NONE"
    BY <1>1, <1>2, <1>3 DEF Knows
  <2>6. c[2] => before = 0
    BY <2>2, <2>5
  <2>7. n \in Nat
    BY <2>1, <2>3, <2>4
  <2>8. c[2] => n = 1
    BY <2>1, <2>3, <2>6
  <2> QED
    BY <2>7, <2>8
<1>6. PICK r : r = Deferred(d, c, n, "FAILURE")
  OBVIOUS
<1>7. "FAILURE" \in {"CAPACITY", "FAILURE"}
  OBVIOUS
<1>8. /\ r \in RowRec /\ (r.gen = NoHash \/ Published(d, r.gen)) /\ r.pend = c
      /\ r.failures = n
  BY <1>3, <1>5, <1>6, <1>7, DeferredFacts
<1>9. r.pend[2] => r.failures <= 1
  BY <1>5, <1>8
<1>10. row' = [row EXCEPT ![d] = r]
  BY <1>2, <1>4, <1>6 DEF RecordFailure
<1>11. CASE d # work.current /\ n >= FAILURES
  <2>1. PICK w : w = [work EXCEPT !.step = "fallback"]
    OBVIOUS
  <2>2. "fallback" \in BriefSteps
    BY DEF BriefSteps
  <2>3. /\ w \in WorkRec /\ w.step = "fallback" /\ w.day = d /\ w.cand = c
        /\ w.queue = work.queue /\ w.current = work.current /\ w.settled = work.settled
        /\ w.terminal = work.terminal /\ w.forced = work.forced
    BY <1>2, <1>3, <2>1, <2>2 DEF WorkRec
  <2>4. work' = w
    BY <1>2, <1>4, <1>11, <2>1 DEF RecordFailure
  <2>5. ~c[2]
    BY <1>5, <1>11, BriefAssumption
  <2>6. UNCHANGED <<today, news, final, corrected>>
    BY <1>1 DEF source
  <2>7. Effective(d)' = Effective(d) /\ Recovering(d)' = Recovering(d)
    BY <2>6 DEF Effective, Recovering
  <2>8. Knows(w)'
    BY <1>1, <1>2, <1>3, <2>3, <2>5, <2>6, <2>7 DEF Knows
  <2> QED
    BY <1>1, <1>3, <1>8, <1>9, <1>10, <2>3, <2>4, <2>8, RowMoves
<1>12. CASE ~(d # work.current /\ n >= FAILURES)
  <2>1. PICK v : v = Done(work)
    OBVIOUS
  <2>2. v \in WorkRec /\ Knows(v)'
    BY <1>1, <1>3, <2>1, DoneWorks
  <2>3. work' = v
    BY <1>2, <1>4, <1>12, <2>1 DEF RecordFailure
  <2> QED
    BY <1>1, <1>3, <1>8, <1>9, <1>10, <2>2, <2>3, RowMoves
<1> QED
  BY <1>11, <1>12

LEMMA FallbackKeeps ==
  ASSUME BriefInv, Fallback
  PROVE  BriefInv'
<1>1. work.step = "fallback" /\ UNCHANGED <<source, final, corrected, row, cache>>
  BY DEF Fallback
<1>2. PICK d, c : d = work.day /\ c = work.cand
  OBVIOUS
<1>3. /\ d \in BriefDays /\ c \in Hashes /\ Knows(work) /\ work \in WorkRec
      /\ news[d].packet # NoPacket /\ Effective(d) = "NONE"
  BY <1>1, <1>2, AskedFacts
<1>4. ~Recovering(d)
  BY <1>1, <1>2, <1>3 DEF Knows
<1>5. PICK w : w = [work EXCEPT !.step = "finalize", !.forced = TRUE]
  OBVIOUS
<1>6. "finalize" \in BriefSteps
  BY DEF BriefSteps
<1>7. /\ w \in WorkRec /\ w.step = "finalize" /\ w.day = d /\ w.cand = c
      /\ w.queue = work.queue /\ w.current = work.current /\ w.settled = work.settled
      /\ w.terminal = work.terminal /\ w.forced = TRUE
  BY <1>2, <1>3, <1>5, <1>6 DEF WorkRec
<1>8. UNCHANGED <<today, news, final, corrected, row>> /\ work' = w
  BY <1>1, <1>5 DEF source, Fallback
<1>9. Effective(d)' = Effective(d) /\ Recovering(d)' = Recovering(d)
  BY <1>8 DEF Effective, Recovering
<1>10. Published(d, c)' => Knows(w)'
  BY <1>1, <1>2, <1>3, <1>4, <1>7, <1>8, <1>9 DEF Knows
<1>11. CASE Published(d, c)
  <2>1. briefs' = briefs
    BY <1>2, <1>11 DEF Fallback
  <2>2. Published(d, c)'
    BY <1>11, <2>1 DEF Published
  <2> QED
    BY <1>1, <1>7, <1>8, <1>10, <2>1, <2>2, WorkMoves
<1>12. CASE ~Published(d, c)
  <2>1. PICK b : b = [hash |-> c, kind |-> "fallback"]
    OBVIOUS
  <2>2. b \in BriefRec /\ b.hash = c
    BY <1>3, <2>1 DEF BriefRec
  <2>3. briefs' = [briefs EXCEPT ![d] = Append(@, b)]
    BY <1>2, <1>12, <2>1 DEF Fallback, Revision
  <2>4. briefs[d] \in Seq(BriefRec) /\ briefs'[d] = Append(briefs[d], b)
    BY <1>3, <2>3 DEF BriefInv, BriefTyped
  <2>5. /\ Len(briefs[d]) + 1 \in DOMAIN briefs'[d]
        /\ briefs'[d][Len(briefs[d]) + 1] = b
    BY <2>2, <2>4
  <2>6. Published(d, c)'
    BY <2>2, <2>5 DEF Published
  <2> QED
    BY <1>1, <1>3, <1>7, <1>8, <1>10, <2>2, <2>3, <2>6, BriefsGrow
<1> QED
  BY <1>11, <1>12

\* A day is closed: as final or degraded when it is settled, and reopened when its
\* first finalization is degraded.
LEMMA FinalizeKeeps ==
  ASSUME BriefInv, Finalize
  PROVE  BriefInv'
<1>1. work.step = "finalize" /\ UNCHANGED <<source, briefs, row, cache>>
  BY DEF Finalize
<1>2. PICK d, c : d = work.day /\ c = work.cand
  OBVIOUS
<1>3. work \in WorkRec /\ Knows(work) /\ d \in BriefDays
  BY <1>2 DEF BriefInv, BriefTyped, WorkRec
<1>4. /\ Effective(d) = "NONE" /\ Published(d, c)
      /\ work.settled => d < today /\ news[d].pending = 0
                         /\ (work.terminal <=> news[d].terminal > 0)
      /\ IF work.forced THEN ~Recovering(d) ELSE work.settled
  BY <1>1, <1>2, <1>3 DEF Knows
<1>5. PICK s : s = Status
  OBVIOUS
<1>6. /\ s \in FINAL_PHASES /\ (work.forced => s = "DEGRADED")
      /\ (s = "FINAL" => ~work.terminal)
  BY <1>5 DEF Status, FINAL_PHASES
<1>7. PICK w : w = [work EXCEPT !.step = "close"]
  OBVIOUS
<1>8. "close" \in BriefSteps
  BY DEF BriefSteps
<1>9. /\ w \in WorkRec /\ w.step = "close" /\ w.day = d /\ w.cand = c
      /\ w.queue = work.queue /\ w.current = work.current
  BY <1>2, <1>3, <1>7, <1>8 DEF WorkRec
<1>10. UNCHANGED <<today, news, briefs, row, cache>> /\ work' = w
  BY <1>1, <1>7 DEF source, Finalize
<1>11. \A e \in BriefDays : /\ HasBrief(e)' = HasBrief(e)
                            /\ \A h : Published(e, h)' = Published(e, h)
  BY <1>10 DEF HasBrief, Published
<1>12. Knows(w)'
  BY <1>3, <1>4, <1>9, <1>10, <1>11 DEF Knows
<1>13. HasBrief(d)
  BY <1>3, <1>4 DEF Published, HasBrief, BriefInv, BriefTyped
<1>14. /\ final \in Finals /\ corrected \in Corrections
       /\ corrected[d] = "NONE" /\ final[d] \in {"NONE", "DEGRADED"}
  BY <1>3, <1>4, OpenDay DEF BriefInv, BriefTyped
<1>15. Refreshing' /\ CacheFits'
  BY <1>10, <1>11 DEF BriefInv, Refreshing, CacheFits, Fitting
<1>16. ASSUME ~work.forced, Effective(d)' = s, NEW f \in Finals, NEW k \in Corrections,
              final' = f, corrected' = k, \A e \in BriefDays \ {d} : Effective(e)' = Effective(e)
       PROVE  BriefTyped' /\ ClosedIsSettled'
  <2>1. BriefTyped'
    BY <1>9, <1>10, <1>16 DEF BriefInv, BriefTyped
  <2>2. news[d].terminal \in Nat
    BY <1>3 DEF BriefInv, BriefTyped, NewsRec
  <2>3. d < today /\ news[d].pending = 0 /\ (s = "FINAL" => news[d].terminal = 0)
    BY <1>4, <1>6, <1>16, <2>2
  <2>4. ClosedIsSettled'
    BY <1>10, <1>11, <1>13, <1>16, <2>3 DEF BriefInv, ClosedIsSettled
  <2> QED
    BY <2>1, <2>4
<1>17. CASE final[d] = "NONE"
  <2>1. PICK f : f = [final EXCEPT ![d] = s]
    OBVIOUS
  <2>2. final' = f /\ corrected' = corrected
    BY <1>2, <1>5, <1>17, <2>1 DEF Finalize
  <2>3. f \in Finals /\ f[d] = s /\ \A e \in BriefDays \ {d} : f[e] = final[e]
    BY <1>3, <1>6, <1>14, <2>1 DEF Finals
  <2>4. \A e \in BriefDays \ {d} : Effective(e)' = Effective(e)
    BY <2>2, <2>3 DEF Effective
  <2>5. Recorded'
    BY <1>10, <1>11, <1>13, <1>14, <2>2, <2>3 DEF BriefInv, Recorded
  <2>6. Effective(d)' = IF s = "DEGRADED" THEN "NONE" ELSE s
    BY <1>14, <2>2, <2>3 DEF Effective
  <2>7. BriefTyped'
    BY <1>9, <1>10, <2>2, <2>3 DEF BriefInv, BriefTyped
  <2>8. ClosedIsSettled'
    <3>1. CASE s = "DEGRADED"
      <4>1. Effective(d)' = "NONE"
        BY <2>6, <3>1
      <4> QED
        BY <1>10, <1>11, <2>4, <4>1 DEF BriefInv, ClosedIsSettled
    <3>2. CASE s # "DEGRADED"
      <4>1. ~work.forced /\ Effective(d)' = s
        BY <1>6, <2>6, <3>2
      <4> QED
        BY <1>14, <1>16, <2>2, <2>3, <2>4, <4>1
    <3> QED
      BY <3>1, <3>2
  <2> QED
    BY <1>10, <1>12, <1>15, <2>5, <2>7, <2>8 DEF BriefInv
<1>18. CASE final[d] = "DEGRADED"
  <2>1. PICK k : k = [corrected EXCEPT ![d] = s]
    OBVIOUS
  <2>2. corrected' = k /\ final' = final
    BY <1>2, <1>5, <1>14, <1>18, <2>1 DEF Finalize
  <2>3. k \in Corrections /\ k[d] = s /\ \A e \in BriefDays \ {d} : k[e] = corrected[e]
    BY <1>3, <1>6, <1>14, <2>1 DEF Corrections
  <2>4. \A e \in BriefDays \ {d} : Effective(e)' = Effective(e)
    BY <2>2, <2>3 DEF Effective
  <2>5. Effective(d)' = s
    BY <1>6, <2>2, <2>3 DEF Effective, FINAL_PHASES
  <2>6. ~work.forced
    BY <1>4, <1>14, <1>18 DEF Recovering
  <2>7. Recorded'
    BY <1>10, <1>11, <1>18, <2>2, <2>3 DEF BriefInv, Recorded
  <2>8. BriefTyped' /\ ClosedIsSettled'
    BY <1>14, <1>16, <2>2, <2>3, <2>4, <2>5, <2>6
  <2> QED
    BY <1>10, <1>12, <1>15, <2>7, <2>8 DEF BriefInv
<1> QED
  BY <1>14, <1>17, <1>18

LEMMA RecordKeeps ==
  ASSUME BriefInv, Record
  PROVE  BriefInv'
<1>1. /\ work.step \in {"close", "record", "empty"}
      /\ UNCHANGED <<source, briefs, final, corrected, cache>>
  BY DEF Record
<1>2. PICK d, c : d = work.day /\ c = work.cand
  OBVIOUS
<1>3. /\ work \in WorkRec /\ Knows(work) /\ d \in BriefDays /\ c \in Hashes
      /\ work.step \in BriefSteps
  BY <1>2 DEF BriefInv, BriefTyped, WorkRec
<1>4. c = NoHash \/ Published(d, c)
  BY <1>1, <1>2, <1>3 DEF Knows
<1>5. PICK p : p = CASE work.step = "close" -> Status
                     [] work.step = "record" -> "UPDATING"
                     [] work.step = "empty" -> "EMPTY"
  OBVIOUS
<1>6. p \in FINAL_PHASES \cup {"UPDATING", "EMPTY"}
  BY <1>1, <1>5 DEF Status, FINAL_PHASES
<1>7. PICK r : r = [FreshState EXCEPT !.gen = c, !.phase = p]
  OBVIOUS
<1>8. r \in RowRec /\ r.gen = c /\ r.pend = NoHash
  BY <1>3, <1>6, <1>7, BriefFacts DEF RowRec, FreshState
<1>9. row' = [row EXCEPT ![d] = r]
  BY <1>2, <1>5, <1>7 DEF Record
<1>10. PICK v : v = Done(work)
  OBVIOUS
<1>11. v \in WorkRec /\ Knows(v)'
  BY <1>1, <1>3, <1>10, DoneWorks
<1>12. work' = v
  BY <1>10 DEF Record
<1> QED
  BY <1>1, <1>3, <1>4, <1>8, <1>9, <1>11, <1>12, BriefFacts, RowMoves

\* A restart forgets the batch.
LEMMA CrashKeeps ==
  ASSUME BriefInv, Crash
  PROVE  BriefInv'
<1>1. UNCHANGED <<source, briefs, final, corrected, row>> /\ cache' = cache /\ work' = Idle
  BY DEF Crash
<1>2. PICK w : w = Idle
  OBVIOUS
<1>3. w \in WorkRec /\ w.step = "idle" /\ w.queue = {} /\ w.current = 0
  BY <1>2, BriefFacts DEF Idle
<1>4. today \in Nat /\ today' = today
  BY <1>1, BriefFacts DEF BriefInv, BriefTyped, source
<1>5. Knows(w)'
  BY <1>3, <1>4 DEF Knows
<1> QED
  BY <1>1, <1>2, <1>3, <1>5, WorkMoves

LEMMA BriefStarts ==
  ASSUME BriefInit
  PROVE  BriefInv
<1>1. today = 0 /\ cache = NoCache /\ work = Idle
  BY DEF BriefInit
<1>2. /\ news \in [BriefDays -> NewsRec]
      /\ \A d \in BriefDays : news[d].packet = NoPacket
  BY DEF BriefInit, NewsRec
<1>3. /\ briefs = [d \in BriefDays |-> <<>>] /\ final = [d \in BriefDays |-> "NONE"]
      /\ corrected = [d \in BriefDays |-> "NONE"] /\ row = [d \in BriefDays |-> FreshState]
  BY DEF BriefInit
<1>4. BriefTyped
  <2>1. briefs \in [BriefDays -> Seq(BriefRec)]
    BY <1>3
  <2>2. final \in Finals /\ corrected \in Corrections
    BY <1>3 DEF Finals, Corrections
  <2>3. row \in [BriefDays -> RowRec]
    BY <1>3, BriefFacts
  <2> QED
    BY <1>1, <1>2, <2>1, <2>2, <2>3, BriefFacts DEF BriefTyped
<1>5. \A d \in BriefDays : /\ Effective(d) = "NONE" /\ briefs[d] = <<>>
                           /\ final[d] = "NONE" /\ corrected[d] = "NONE"
                           /\ row[d].gen = NoHash /\ row[d].pend = NoHash
  BY <1>3 DEF Effective, FreshState
<1>6. ClosedIsSettled
  BY <1>5 DEF ClosedIsSettled
<1>7. Recorded
  <2>1. \A d \in BriefDays : DOMAIN briefs[d] = {}
    BY <1>5
  <2> QED
    BY <1>5, <2>1 DEF Recorded
<1>8. Refreshing
  BY <1>5, BriefFacts DEF Refreshing
<1>9. CacheFits
  BY <1>1 DEF CacheFits, NoCache, Fitting, Tokens
<1>10. Knows(work)
  <2>1. work.step = "idle" /\ work.queue = {} /\ work.current = 0
    BY <1>1 DEF Idle
  <2> QED
    BY <1>1, <2>1 DEF Knows
<1> QED
  BY <1>4, <1>6, <1>7, <1>8, <1>9, <1>10 DEF BriefInv

LEMMA BriefStepsKeep ==
  ASSUME BriefInv, [BriefNext]_briefVars
  PROVE  BriefInv'
<1>1. CASE UNCHANGED briefVars
  <2>1. UNCHANGED <<today, news, briefs, final, corrected, row, cache, work>>
    BY <1>1 DEF briefVars
  <2>2. BriefTyped'
    BY <2>1 DEF BriefInv, BriefTyped
  <2>3. ClosedIsSettled' /\ Recorded'
    BY <2>1 DEF BriefInv, ClosedIsSettled, Recorded, Effective, HasBrief
  <2>4. Refreshing' /\ CacheFits'
    BY <2>1 DEF BriefInv, Refreshing, CacheFits, Fitting, Published
  <2>5. Knows(work)'
    BY <2>1 DEF BriefInv, Knows, Fitting, Effective, Recovering, Published
  <2> QED
    BY <2>2, <2>3, <2>4, <2>5 DEF BriefInv
<1>2. CASE BriefNext
  <2>1. CASE \/ \E body \in BOOLEAN : Receive(body)
             \/ \E d \in BriefDays : Review(d) \/ Repack(d)
             \/ Midnight
    BY <2>1, InputsSteps
  <2>2. CASE \E d \in BriefDays : Due(d)
    BY <2>2, DueKeeps
  <2>3. CASE Batch
    <3>1. ASSUME NEW d \in BriefDays, Update(d) PROVE BriefInv'
      BY <3>1, FinalizedKeeps, NoNewsKeeps, NoReviewedKeeps, CandidatesUnchangedKeeps,
         StillDeferredKeeps, GiveUpKeeps, RefreshKeeps DEF Update
    <3>2. CASE Close
      BY <3>2, RecordFailureKeeps, FallbackKeeps, FinalizeKeeps, RecordKeeps DEF Close
    <3> QED
      BY <2>3, <3>1, <3>2, DiscoverKeeps, PublishKeeps DEF Batch
  <2>4. CASE Answer \/ Capacity \/ Fail \/ Crash
    BY <2>4, AnswerKeeps, CapacityKeeps, FailKeeps, CrashKeeps
  <2> QED
    BY <1>2, <2>1, <2>2, <2>3, <2>4 DEF BriefNext
<1> QED
  BY <1>1, <1>2

\* The daily briefs are exact: a closed day is a past one whose items are all settled,
\* with a revision, and complete if it is final; it is finalized with the revision of
\* its settled packet; and the cached list of unfinished days is used only while it is
\* what discovery would compute.  The batch may stop between any two transactions.
THEOREM BriefIsExact == BriefSpec => []BriefExact
<1>1. BriefInit => BriefInv
  BY BriefStarts
<1>2. BriefInv /\ [BriefNext]_briefVars => BriefInv'
  BY BriefStepsKeep
<1>3. BriefInv => BriefExact
  <2> SUFFICES ASSUME BriefInv PROVE BriefExact
    OBVIOUS
  <2>1. ClosedIsSettled
    BY DEF BriefInv
  <2>2. FinalIsOfPacket
    BY DEF FinalIsOfPacket, BriefInv, Knows
  <2>3. CachedDatesExact
    BY TokenFacts DEF CachedDatesExact, BriefInv, CacheFits, Fitting
  <2> QED
    BY <2>1, <2>2, <2>3 DEF BriefExact
<1> QED
  BY <1>1, <1>2, <1>3, PTL DEF BriefSpec

\* One finalization of a day is in force at most, once and for all: a recorded one or a
\* correction is never replaced, whatever stops between, and a correction only follows a
\* degraded finalization.
THEOREM FinalizationsStand == BriefSpec => FinalizedOnce
<1>1. BriefInit => BriefInv
  BY BriefStarts
<1>2. BriefInv /\ [BriefNext]_briefVars => BriefInv'
  BY BriefStepsKeep
<1>3. ASSUME BriefInv, BriefNext, NEW d \in BriefDays
      PROVE  /\ final[d] # "NONE" => final'[d] = final[d]
             /\ corrected[d] # "NONE" => corrected'[d] = corrected[d]
             /\ corrected'[d] # "NONE" => final'[d] = "DEGRADED"
  <2>1. BriefInv'
    BY <1>2, <1>3
  <2>2. corrected'[d] # "NONE" => final'[d] = "DEGRADED"
    BY <2>1 DEF BriefInv, Recorded
  <2>3. final \in Finals /\ corrected \in Corrections /\ Knows(work)
        /\ (final[d] = "DEGRADED" \/ corrected[d] = "NONE")
    BY <1>3 DEF BriefInv, BriefTyped, Recorded
  <2>4. CASE UNCHANGED <<final, corrected>>
    BY <2>2, <2>4
  <2>5. ASSUME NEW e \in BriefDays, NoNews(e)
        PROVE  /\ final[d] # "NONE" => final'[d] = final[d]
               /\ corrected' = corrected
    <3>1. corrected' = corrected
      BY <2>5 DEF NoNews
    <3>2. CASE final' = final
      BY <3>1, <3>2
    <3>3. CASE final' # final
      <4>1. final' = [final EXCEPT ![e] = IF @ = "NONE" THEN "EMPTY" ELSE @]
        BY <2>5, <3>3 DEF NoNews
      <4> QED
        BY <2>3, <3>1, <4>1 DEF Finals
    <3> QED
      BY <3>2, <3>3
  <2>6. ASSUME Finalize
        PROVE  /\ final[d] # "NONE" => final'[d] = final[d]
               /\ corrected[d] # "NONE" => corrected'[d] = corrected[d]
    <3>1. CASE final[work.day] = "NONE"
      <4>1. final' = [final EXCEPT ![work.day] = Status] /\ corrected' = corrected
        BY <2>6, <3>1 DEF Finalize
      <4> QED
        BY <2>3, <3>1, <4>1 DEF Finals
    <3>2. CASE final[work.day] # "NONE"
      <4>1. /\ corrected' = [corrected EXCEPT ![work.day] = IF @ = "NONE" THEN Status ELSE @]
            /\ final' = final
        BY <2>6, <3>2 DEF Finalize
      <4> QED
        BY <2>3, <4>1 DEF Corrections
    <3> QED
      BY <3>1, <3>2
  <2>7. ASSUME NEW e \in BriefDays, Update(e), ~NoNews(e)
        PROVE  UNCHANGED <<final, corrected>>
    BY <2>7 DEF Update, Finalized, NoReviewed, CandidatesUnchanged, StillDeferred, GiveUp,
       Refresh
  <2>8. CASE \/ \E body \in BOOLEAN : Receive(body)
             \/ \E e \in BriefDays : Review(e) \/ Repack(e) \/ Due(e)
             \/ Midnight
    <3>1. UNCHANGED <<final, corrected>>
      BY <2>8 DEF Receive, Review, Repack, Due, Midnight, Same
    <3> QED
      BY <2>4, <3>1
  <2>9. CASE Discover \/ PublishDates \/ Answer \/ Capacity \/ Fail \/ Crash
             \/ RecordFailure \/ Fallback \/ Record
    <3>1. UNCHANGED <<final, corrected>>
      BY <2>9 DEF Discover, PublishDates, Answer, Capacity, Fail, Crash, RecordFailure,
         Fallback, Record
    <3> QED
      BY <2>4, <3>1
  <2> QED
    BY <1>3, <2>2, <2>4, <2>5, <2>6, <2>7, <2>8, <2>9 DEF BriefNext, Batch, Close
<1>4. BriefInv /\ [BriefNext]_briefVars
        => [\A d \in BriefDays :
              /\ final[d] # "NONE" => final'[d] = final[d]
              /\ corrected[d] # "NONE" => corrected'[d] = corrected[d]
              /\ corrected'[d] # "NONE" => final'[d] = "DEGRADED"]_briefVars
  BY <1>3
<1> QED
  BY <1>1, <1>2, <1>4, PTL DEF BriefSpec, FinalizedOnce
=============================================================================
