--------------------------- MODULE BackupRetention ---------------------------
(***************************************************************************)
(* The daily backup of the evidence database, the retention of the backups *)
(* and the reclaim of abandoned temporaries.  Every file operation is a    *)
(* step and a process may stop between any two; the next process finds     *)
(* what is on disk.  Source: xauusd_news/maintenance.py.                   *)
(*                                                                         *)
(* A snapshot is named by the process that made it; Edited is one changed  *)
(* by hand.  The processes are the incarnations 1..Incarnations of the     *)
(* collector, in the order they start; the last one is not stopped.        *)
(***************************************************************************)
EXTENDS Integers, FiniteSets, FiniteSetsExt, SequencesExt

CONSTANTS
  Incarnations,
  Concurrent,  \* how many of them may run at once
  LastBackup,
  Daily, Weekly, Monthly, MaxSnapshots, MaxBytes, MaxAge,  \* BackupRetentionPolicy
  Bytes,       \* [days -> size of that day's snapshot]
  Legacy,      \* temporaries of the first backup format, by the day of their target
  Signed,      \* TRUE: no process stops while its owner directory lacks its evidence
  MaxMishaps    \* bound: failed copies, files changed by hand, new references

VARIABLES
  proc,       \* the local variables of each process
  life,       \* "new", "up" or "down"
  day,
  target,     \* [days -> snapshot or Nil]
  receipt,    \* [days -> the snapshot its completion receipt is about, or Nil]
  failure,    \* days with a failure receipt
  temps,      \* [days -> processes whose temporary copy for it is on disk]
  owner,      \* [locks -> its owner directory: Nil, Unsigned or a process]
  plan,       \* retention plan: the day -> snapshot pairs to delete
  legacy,     \* legacy temporaries present
  refs,       \* those a runtime file refers to
  rplan,      \* reclaim plan: legacy temporaries to delete
  rlast,      \* the plan the reclaim receipt was written for
  rcount,     \* how often each is in the history of that receipt
  mishaps

snapshots == <<target, receipt, failure, temps>>
reclaim == <<legacy, refs, rplan, rlast, rcount>>
backupVars == <<proc, life, day, snapshots, owner, plan, reclaim, mishaps>>

Procs == 1..Incarnations
Nil == 0
Unsigned == -1
Edited == -2
BackupDays == 1..LastBackup
Round == 0                        \* the lock of a retention round
Locks == {Round} \cup BackupDays        \* and the lock of a day's backup
Week == 2                         \* days of a week
Month == 4                        \* and of a month

ASSUME BackupAssumption ==
  /\ Incarnations \in Nat /\ LastBackup \in Nat \ {0} /\ Legacy \subseteq BackupDays

\* _managed_backup_entries: a target with the receipt that is about it.
Managed == {d \in BackupDays : target[d] # Nil /\ receipt[d] = target[d]}

-----------------------------------------------------------------------------
(* The policy (_retained_backup_names).                                    *)

Newest(n, ds) == {d \in ds : Cardinality({e \in ds : e > d}) < n}
\* The newest day of each of the n newest groups of the given length.
Heads(n, length, ds) ==
  Newest(n, {d \in ds : \A e \in ds : e \div length = d \div length => e <= d})
Recent(d, today) == d >= today - MaxAge
Descending(ds) == SetToSortSeq(ds, >)
Kept(ds, today) ==
  LET daily == Newest(Daily, ds)
      weekly == Heads(Weekly, Week, ds \ daily)
      monthly == Heads(Monthly, Month, ds \ (daily \cup weekly))
  IN SelectSeq(Descending(daily) \o Descending(weekly) \o Descending(monthly),
               LAMBDA d : Recent(d, today))
Weight(s) == MapThenSumSet(LAMBDA i : Bytes[s[i]], DOMAIN s)
\* The longest prefix within the count and the byte budget.
Retained(ds, today) ==
  LET s == Kept(ds, today)
  IN {s[n] : n \in {i \in DOMAIN s : i <= MaxSnapshots /\ Weight(SubSeq(s, 1, i)) <= MaxBytes}}
\* A newest snapshot above the byte budget fails the round.
Affordable(ds, today) ==
  LET s == Kept(ds, today) IN s # <<>> => Bytes[Head(s)] <= MaxBytes

FreshProc == [pc |-> "idle", today |-> 0, last |-> 0, lock |-> Round,
          todo |-> {}, seen |-> {}, ok |-> TRUE]
BackupInit ==
  /\ proc = [p \in Procs |-> FreshProc]
  /\ life = [p \in Procs |-> "new"]
  /\ day = 1
  /\ target = [d \in BackupDays |-> Nil] /\ receipt = [d \in BackupDays |-> Nil]
  /\ failure = {} /\ temps = [d \in BackupDays |-> {}]
  /\ owner = [l \in Locks |-> Nil]
  /\ plan = {}
  /\ legacy = Legacy /\ refs = {} /\ rplan = {} /\ rlast = {}
  /\ rcount = [f \in Legacy |-> 0]
  /\ mishaps = 0

-----------------------------------------------------------------------------
At(p, pc) == life[p] = "up" /\ proc[p].pc = pc
Goto(p, pc) == proc' = [proc EXCEPT ![p].pc = pc]
Today(p) == proc[p].today
Lock(p) == proc[p].lock

(* DailyBackupOwner._run: each poll of a day not yet done.  A poll that    *)
(* raises changes nothing, so it is not a step: the next one starts anew.  *)
PollDay(p) ==
  /\ At(p, "idle") /\ day # proc[p].last
  /\ LET begin(pc, lock) ==
           proc' = [proc EXCEPT ![p] = [@ EXCEPT !.pc = pc, !.today = day, !.lock = lock, !.ok = TRUE]]
     IN \/ receipt[day] # Nil /\ receipt[day] = target[day] /\ begin("acquire", Round)
        \/ receipt[day] = Nil /\ day \notin failure /\ begin("acquire", day)
  /\ UNCHANGED <<life, day, snapshots, owner, plan, reclaim, mishaps>>

(* _acquire_backup_owner and _acquire_retention_owner.                     *)
Mkdir(p) ==
  /\ At(p, "acquire") /\ owner[Lock(p)] = Nil
  /\ owner' = [owner EXCEPT ![Lock(p)] = Unsigned]
  /\ Goto(p, "sign")
  /\ UNCHANGED <<life, day, snapshots, plan, reclaim, mishaps>>
Sign(p) ==
  /\ At(p, "sign")
  /\ IF owner[Lock(p)] = Nil THEN Goto(p, "idle") /\ UNCHANGED owner
     ELSE /\ owner' = [owner EXCEPT ![Lock(p)] = p]
          /\ Goto(p, IF Lock(p) = Round THEN "plan" ELSE "backup")
  /\ UNCHANGED <<life, day, snapshots, plan, reclaim, mishaps>>
\* IN_PROGRESS: the round goes on without the backup, the day ends without the round.
Busy(p) ==
  /\ At(p, "acquire") /\ owner[Lock(p)] \in Procs /\ life[owner[Lock(p)]] = "up"
  /\ proc' = IF Lock(p) = Round
             THEN [proc EXCEPT ![p] = [@ EXCEPT !.pc = "idle", !.last = Today(p)]]
             ELSE [proc EXCEPT ![p].lock = Round]
  /\ UNCHANGED <<life, day, snapshots, owner, plan, reclaim, mishaps>>
\* A directory without evidence raises; a dead owner is evicted.
Refused(p) ==
  /\ At(p, "acquire") /\ owner[Lock(p)] = Unsigned
  /\ Goto(p, "idle")
  /\ UNCHANGED <<life, day, snapshots, owner, plan, reclaim, mishaps>>
DeadOwner(p) == owner[Lock(p)] \in Procs /\ life[owner[Lock(p)]] = "down"
OwnTemporary(p) == {p}
Leftover(p) == {owner[Lock(p)]}
Evict(p) ==
  /\ At(p, "acquire") /\ DeadOwner(p)
  /\ temps' = IF Lock(p) = Round THEN temps
              ELSE [temps EXCEPT ![Lock(p)] = @ \ Leftover(p)]
  /\ Goto(p, "unlink_owner")
  /\ UNCHANGED <<life, day, target, receipt, failure, owner, plan, reclaim, mishaps>>
Unlink(l) == IF owner[l] = Nil THEN Nil ELSE Unsigned
EvictEvidence(p) ==
  /\ At(p, "unlink_owner")
  /\ owner' = [owner EXCEPT ![Lock(p)] = Unlink(Lock(p))]
  /\ Goto(p, IF owner[Lock(p)] \in Procs \/ Lock(p) # Round THEN "evict" ELSE "idle")
  /\ UNCHANGED <<life, day, snapshots, plan, reclaim, mishaps>>
EvictDirectory(p) ==
  /\ At(p, "evict")
  /\ IF owner[Lock(p)] = Unsigned
     THEN owner' = [owner EXCEPT ![Lock(p)] = Nil] /\ Goto(p, "acquire")
     ELSE UNCHANGED owner /\ Goto(p, "idle")
  /\ UNCHANGED <<life, day, snapshots, plan, reclaim, mishaps>>

(* The two steps of the finally clause that gives an owner directory back. *)
ReleaseEvidence(p) ==
  /\ At(p, "release")
  /\ owner' = [owner EXCEPT ![Lock(p)] = Unlink(Lock(p))]
  /\ temps' = IF Lock(p) = Round THEN temps ELSE [temps EXCEPT ![Lock(p)] = @ \ {p}]
  /\ Goto(p, "rmdir")
  /\ UNCHANGED <<life, day, target, receipt, failure, plan, reclaim, mishaps>>
Release(p) ==
  /\ At(p, "rmdir")
  /\ LET mine == owner[Lock(p)] = Unsigned
         done == mine /\ proc[p].ok
     IN /\ owner' = IF mine THEN [owner EXCEPT ![Lock(p)] = Nil] ELSE owner
        /\ proc' = [proc EXCEPT ![p] =
             [@ EXCEPT !.pc = IF done /\ Lock(p) # Round THEN "acquire" ELSE "idle",
                       !.last = IF done /\ Lock(p) = Round THEN Today(p) ELSE proc[p].last,
                       !.lock = Round]]
  /\ UNCHANGED <<life, day, snapshots, plan, reclaim, mishaps>>

-----------------------------------------------------------------------------
(* ensure_daily_forward_backup, owning the day.                            *)
Leave(p, ok) == proc' = [proc EXCEPT ![p] = [@ EXCEPT !.pc = "release", !.ok = ok]]
Existing(p) == target[Today(p)] # Nil

\* The second look at the receipt, and the adoption of a target without one.
Adopt(p) ==
  /\ At(p, "backup") /\ (Existing(p) \/ receipt[Today(p)] # Nil)
  /\ receipt' = IF receipt[Today(p)] # Nil THEN receipt
                ELSE [receipt EXCEPT ![Today(p)] = target[Today(p)]]
  /\ Leave(p, receipt'[Today(p)] = target[Today(p)])
  /\ UNCHANGED <<life, day, target, failure, temps, owner, plan, reclaim, mishaps>>
Copy(p) ==
  /\ At(p, "backup") /\ receipt[Today(p)] = Nil /\ ~Existing(p)
  /\ temps' = [temps EXCEPT ![Today(p)] = @ \cup {p}]
  /\ Goto(p, "copied")
  /\ UNCHANGED <<life, day, target, receipt, failure, owner, plan, reclaim, mishaps>>
Replace(p) ==
  /\ At(p, "copied")
  /\ temps' = [temps EXCEPT ![Today(p)] = @ \ {p}]
  /\ target' = [target EXCEPT ![Today(p)] = p]
  /\ Goto(p, "replaced")
  /\ UNCHANGED <<life, day, receipt, failure, owner, plan, reclaim, mishaps>>
Receipt(p) ==
  /\ At(p, "replaced")
  /\ receipt' = [receipt EXCEPT ![Today(p)] = target[Today(p)]]
  /\ Leave(p, TRUE)
  /\ UNCHANGED <<life, day, target, failure, temps, owner, plan, reclaim, mishaps>>
\* The copy, its integrity check or the receipt fails: the day is given up.
CopyFails(p) ==
  /\ (At(p, "copied") \/ At(p, "replaced")) /\ mishaps < MaxMishaps
  /\ mishaps' = mishaps + 1
  /\ failure' = failure \cup {Today(p)}
  /\ Leave(p, FALSE)
  /\ UNCHANGED <<life, day, target, receipt, temps, owner, plan, reclaim>>

-----------------------------------------------------------------------------
(* apply_backup_retention, owning the round.                               *)
Goes(p, pc, todo) == proc' = [proc EXCEPT ![p] = [@ EXCEPT !.pc = pc, !.todo = todo]]

\* The plan on disk is resumed; otherwise one is made, and written if it deletes.
Plan(p) ==
  /\ At(p, "plan")
  /\ LET made == {<<d, target[d]>> : d \in Managed \ Retained(Managed, Today(p))}
     IN CASE plan # {} -> Goes(p, "delete", plan) /\ UNCHANGED plan
          [] plan = {} /\ Affordable(Managed, Today(p)) ->
               plan' = made /\ Goes(p, "delete", made)
          [] OTHER -> Leave(p, FALSE) /\ UNCHANGED plan
  /\ UNCHANGED <<life, day, snapshots, owner, reclaim, mishaps>>
Item(p) == CHOOSE i \in proc[p].todo : \A j \in proc[p].todo : i[1] <= j[1]
Intact(i) == receipt[i[1]] = i[2] /\ target[i[1]] = i[2]
DeleteTarget(p) ==
  /\ At(p, "delete") /\ proc[p].todo # {}
  /\ LET i == Item(p) IN
     /\ target[i[1]] # Nil
     /\ target' = IF Intact(i) THEN [target EXCEPT ![i[1]] = Nil] ELSE target
     /\ IF Intact(i) THEN UNCHANGED proc ELSE Leave(p, FALSE)
  /\ UNCHANGED <<life, day, receipt, failure, temps, owner, plan, reclaim, mishaps>>
AccountableOnce(i) == receipt[i[1]] = i[2]
Accountable(i) == receipt[i[1]] \in {i[2], Nil}
DeleteReceipt(p) ==
  /\ At(p, "delete") /\ proc[p].todo # {}
  /\ LET i == Item(p) IN
     /\ target[i[1]] = Nil
     /\ receipt' = IF receipt[i[1]] = i[2] THEN [receipt EXCEPT ![i[1]] = Nil] ELSE receipt
     /\ IF Accountable(i) THEN Goes(p, "delete", proc[p].todo \ {i})
        ELSE Leave(p, FALSE)
  /\ UNCHANGED <<life, day, target, failure, temps, owner, plan, reclaim, mishaps>>

(* reclaim_proven_stale_backup_temps, the last part of the round.          *)
Proven == {f \in legacy : target[f] # Nil /\ f \notin refs}
Accounted == rplan # {} /\ rplan = rlast
PlanReclaim(p) ==
  /\ At(p, "delete") /\ proc[p].todo = {}
  /\ LET go(made) == proc' = [proc EXCEPT ![p] =
           [@ EXCEPT !.pc = "reclaim", !.todo = made, !.seen = refs]]
     IN \/ /\ Accounted                 \* only the plan is left
           /\ rplan' = {} /\ Goto(p, "clear")
        \/ /\ rplan # {} /\ ~Accounted /\ go(rplan) /\ UNCHANGED rplan
        \/ /\ rplan = {} /\ Proven = {} /\ Goto(p, "clear") /\ UNCHANGED rplan
        \/ /\ rplan = {} /\ Proven # {} /\ rplan' = Proven /\ go(Proven)
  /\ UNCHANGED <<life, day, snapshots, owner, plan, legacy, refs, rlast, rcount, mishaps>>
Stale(p) == CHOOSE f \in proc[p].todo : \A g \in proc[p].todo : f <= g
Reclaimable(p) == target[Stale(p)] # Nil /\ Stale(p) \notin proc[p].seen
Reclaim(p) ==
  /\ At(p, "reclaim") /\ proc[p].todo # {}
  /\ IF Reclaimable(p)
     THEN legacy' = legacy \ {Stale(p)} /\ Goes(p, "reclaim", proc[p].todo \ {Stale(p)})
     ELSE UNCHANGED legacy /\ Leave(p, FALSE)
  /\ UNCHANGED <<life, day, snapshots, owner, plan, refs, rplan, rlast, rcount, mishaps>>
AccountReclaim(p) ==
  /\ At(p, "reclaim") /\ proc[p].todo = {}
  /\ IF Proven = {}
     THEN /\ rcount' = [f \in Legacy |-> rcount[f] + IF f \in rplan THEN 1 ELSE 0]
          /\ rlast' = rplan /\ Goto(p, "unlink_plan")
     ELSE Leave(p, FALSE) /\ UNCHANGED <<rcount, rlast>>
  /\ UNCHANGED <<life, day, snapshots, owner, plan, legacy, refs, rplan, mishaps>>
EndReclaim(p) ==
  /\ At(p, "unlink_plan")
  /\ rplan' = {} /\ Goto(p, "clear")
  /\ UNCHANGED <<life, day, snapshots, owner, plan, legacy, refs, rlast, rcount, mishaps>>
\* The state receipt of the round, then the end of its plan.
EndRound(p) ==
  /\ At(p, "clear")
  /\ plan' = {} /\ Leave(p, TRUE)
  /\ UNCHANGED <<life, day, snapshots, owner, reclaim, mishaps>>

Step(p) ==
  \/ PollDay(p) \/ Mkdir(p) \/ Sign(p) \/ Busy(p) \/ Refused(p)
  \/ Evict(p) \/ EvictEvidence(p) \/ EvictDirectory(p) \/ ReleaseEvidence(p) \/ Release(p)
  \/ Adopt(p) \/ Copy(p) \/ Replace(p) \/ Receipt(p)
  \/ Plan(p) \/ DeleteTarget(p) \/ DeleteReceipt(p)
  \/ PlanReclaim(p) \/ Reclaim(p) \/ AccountReclaim(p) \/ EndReclaim(p) \/ EndRound(p)

-----------------------------------------------------------------------------
(* The environment.                                                        *)
Up == {p \in Procs : life[p] = "up"}
StartProcess(p) ==
  /\ life[p] = "new" /\ (\A q \in 1..(p - 1) : life[q] # "new") /\ Cardinality(Up) < Concurrent
  /\ life' = [life EXCEPT ![p] = "up"]
  /\ UNCHANGED <<proc, day, snapshots, owner, plan, reclaim, mishaps>>
StopProcess(p) ==
  /\ life[p] = "up" /\ p # Incarnations
  /\ Signed => proc[p].pc \notin {"sign", "evict", "rmdir"}
  /\ life' = [life EXCEPT ![p] = "down"]
  /\ proc' = [proc EXCEPT ![p] = FreshProc]
  /\ UNCHANGED <<day, snapshots, owner, plan, reclaim, mishaps>>
NewDay ==
  /\ day < LastBackup
  /\ day' = day + 1
  /\ UNCHANGED <<proc, life, snapshots, owner, plan, reclaim, mishaps>>
Edit(d) ==
  /\ mishaps < MaxMishaps /\ target[d] \in Procs
  /\ target' = [target EXCEPT ![d] = Edited]
  /\ mishaps' = mishaps + 1
  /\ UNCHANGED <<proc, life, day, receipt, failure, temps, owner, plan, reclaim>>
Refer(f) ==
  /\ mishaps < MaxMishaps /\ f \in legacy \ refs
  /\ refs' = refs \cup {f}
  /\ mishaps' = mishaps + 1
  /\ UNCHANGED <<proc, life, day, snapshots, owner, plan, legacy, rplan, rlast, rcount>>

BackupNext ==
  \/ \E p \in Procs : Step(p) \/ CopyFails(p) \/ StartProcess(p) \/ StopProcess(p)
  \/ NewDay
  \/ \E d \in BackupDays : Edit(d)
  \/ \E f \in Legacy : Refer(f)
BackupSpec == BackupInit /\ [][BackupNext]_backupVars
\* Time passes, the collector is restarted and its thread runs.
BackupFairSpec ==
  BackupSpec /\ WF_backupVars(NewDay) /\ WF_backupVars(\E p \in Procs : Step(p))
             /\ WF_backupVars(\E p \in Procs : StartProcess(p))

-----------------------------------------------------------------------------
(* Properties.                                                             *)

\* Type correctness.
BackupTypeOK ==
  /\ \A p \in Procs : /\ proc[p].last \in 0..LastBackup /\ proc[p].today \in 0..LastBackup
                       /\ proc[p].lock \in Locks /\ life[p] \in {"new", "up", "down"}
  /\ target \in [BackupDays -> Procs \cup {Nil, Edited}]
  /\ receipt \in [BackupDays -> Procs \cup {Nil, Edited}]
  /\ owner \in [Locks -> Procs \cup {Nil, Unsigned}]
  /\ plan \subseteq BackupDays \X (Procs \cup {Edited})

\* A temporary copy on disk is named by the evidence of its day's owner, so that the
\* next process finds it and removes it (_acquire_backup_owner, the finally clause).
TempsOwned == \A d \in BackupDays : temps[d] \subseteq {owner[d]}

\* A completion receipt outlives its snapshot only while a retention plan accounts for
\* the pair, whatever step the process that deletes it stopped at.
ReceiptHasFile ==
  \A d \in BackupDays : receipt[d] # Nil /\ target[d] = Nil => <<d, receipt[d]>> \in plan

\* A reclaimed temporary is in the history of the reclaim receipt exactly once, however
\* often the round that deleted it was interrupted and resumed.
CountedOnce ==
  \A f \in Legacy : /\ rcount[f] <= 1
                    /\ rcount[f] = 1 => f \notin legacy
                    /\ f \notin legacy /\ f \notin rplan => rcount[f] = 1

\* Retention deletes a snapshot only while the newest Daily snapshots of its own round
\* remain, or when it is too old; a restart that resumes a plan deletes nothing else.
NewerKept ==
  [][\A d \in BackupDays : target[d] # Nil /\ target'[d] = Nil =>
       \/ d < day - MaxAge
       \/ Cardinality({e \in BackupDays : e > d /\ target[e] # Nil}) >= Daily]_backupVars

\* A day's snapshot is made once: a restart or a second process adopts what is there,
\* and no other file takes its name while it exists.
OneSnapshot ==
  [][\A d \in BackupDays : target[d] # Nil => target'[d] \in {target[d], Nil, Edited}]_backupVars

\* The last day is backed up in the end, unless its one attempt failed or its snapshot
\* was changed by hand.
BackedUp ==
  <>[](\/ receipt[LastBackup] # Nil /\ receipt[LastBackup] = target[LastBackup]
       \/ LastBackup \in failure \/ target[LastBackup] = Edited)

\* What keeps a round from ending: evidence that changed after it was planned.
Obstructed ==
  \/ LastBackup \in failure
  \/ \E d \in BackupDays : target[d] = Edited
  \/ \E f \in rplan : target[f] = Nil \/ f \in refs
  \/ rplan # {} /\ Proven \ rplan # {}
\* The plans on disk are carried out and removed, whatever was interrupted.
RoundSettles ==
  <>[](Obstructed \/ ((\E p \in Up : proc[p].last = LastBackup) /\ plan = {} /\ rplan = {}))

\* After any crash each file is accounted for: a temporary by the evidence of
\* its owner, a receipt by its snapshot or a plan, a reclaim by one entry.
FilesAccounted == TempsOwned /\ ReceiptHasFile /\ CountedOnce
=============================================================================
