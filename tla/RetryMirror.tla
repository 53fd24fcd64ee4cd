----------------------------- MODULE RetryMirror -----------------------------
(*********************************************************************************)
(* The mirror of the jobs an operator may reschedule: the scheduler's list       *)
(* (list_retry_schedule_jobs) is pushed by the control lane to                   *)
(* operator_retry_jobs in D1, a bounded number of rows per call.  Both sides     *)
(* remember a digest of the list they last agreed on: the Worker in              *)
(* operator_retry_sync_state, the runtime in its state file.                     *)
(* Sources: web/app/api/_shared/operator-retry.ts, dashboard/sync/resources.py.  *)
(*********************************************************************************)
EXTENDS Integers, FiniteSets

CONSTANTS
  Jobs,        \* job identities; numbers, for the ORDER BY job_id
  Versions,    \* the contents a job's row can have
  NoRow,       \* the job is not listed, or not mirrored
  NoList,      \* no list recorded
  MUTATIONS    \* OPERATOR_RETRY_SYNC_MUTATIONS_PER_INVOCATION

Lists == [Jobs -> Versions \cup {NoRow}]

VARIABLES
  listed,    \* what list_retry_schedule_jobs returns now
  mirror,    \* operator_retry_jobs
  acked,     \* payload_digest of operator_retry_sync_state
  saved,     \* source_digest in dashboard-operator-retry-sync-state.json
  posting,   \* the list a pass read and has not posted yet, or NoList
  quiet      \* the scheduler has stopped changing its list

vars == <<listed, mirror, acked, saved, posting, quiet>>

Init == /\ listed = [j \in Jobs |-> NoRow]
        /\ mirror = [j \in Jobs |-> NoRow]
        /\ acked = NoList /\ saved = NoList /\ posting = NoList
        /\ quiet = FALSE

\* The scheduler moves a job into, out of or within the list.
Change(j) ==
  /\ ~quiet
  /\ \E v \in (Versions \cup {NoRow}) \ {listed[j]} : listed' = [listed EXCEPT ![j] = v]
  /\ UNCHANGED <<mirror, acked, saved, posting, quiet>>
Settle == quiet' = TRUE /\ UNCHANGED <<listed, mirror, acked, saved, posting>>

\* The pass reads the list; one it has already settled ends the pass there.
ReadList ==
  /\ posting = NoList
  /\ listed # saved
  /\ posting' = listed
  /\ UNCHANGED <<listed, mirror, acked, saved, quiet>>

FirstFew(S) == {j \in S : Cardinality({i \in S : i < j}) < MUTATIONS}
Wrong(list, rows) == {j \in Jobs : list[j] # NoRow /\ rows[j] # list[j]}
Obsolete(list, rows) == {j \in Jobs : list[j] = NoRow /\ rows[j] # NoRow}

Upserted(list, rows) ==
  [j \in Jobs |-> IF j \in FirstFew(Wrong(list, rows)) THEN list[j] ELSE rows[j]]
\* Rows go only when every listed row is right.
Deleted(list, rows) ==
  IF Wrong(list, rows) # {} THEN rows
  ELSE [j \in Jobs |-> IF j \in FirstFew(Obsolete(list, rows)) THEN NoRow ELSE rows[j]]

\* syncOperatorRetryJobs: a list with the recorded digest is answered at once;
\* otherwise one batch upserts, deletes, and records the list once it is exact.
After(list) == Deleted(list, Upserted(list, mirror))
\* Mutant: a call that wrote anything counts as complete.
CompleteWhenListed(list) == acked = list \/ Wrong(list, After(list)) = {}
Complete(list) == acked = list \/ After(list) = list

\* The answer may be lost; the state file is written for a complete answer only.
Post(answered) ==
  /\ posting # NoList
  /\ IF acked = posting THEN UNCHANGED <<mirror, acked>>
     ELSE /\ mirror' = After(posting)
          /\ acked' = IF Complete(posting) THEN posting ELSE acked
  /\ saved' = IF answered /\ Complete(posting) THEN posting ELSE saved
  /\ posting' = NoList
  /\ UNCHANGED <<listed, quiet>>

\* The call does not reach the Worker, or the synchronizer restarts.
Lose == posting # NoList /\ posting' = NoList /\ UNCHANGED <<listed, mirror, acked, saved, quiet>>

Next ==
  \/ \E j \in Jobs : Change(j)
  \/ Settle \/ ReadList \/ Lose
  \/ \E answered \in BOOLEAN : Post(answered)

\* Calls made again and again get through in the end.
Fairness == WF_vars(ReadList) /\ SF_vars(Post(TRUE))
Spec == Init /\ [][Next]_vars
FairSpec == Spec /\ Fairness
-----------------------------------------------------------------------------
\* Types of the state.
TypeOK ==
  /\ listed \in Lists /\ mirror \in Lists
  /\ {acked, saved, posting} \subseteq Lists \cup {NoList}

\* A list neither side has settled on before, once it stays as it is, is
\* mirrored row for row: partial calls add up, and cleanup is not starved.
NewListMirrored ==
  (quiet /\ listed \notin {acked, saved}) ~> (mirror = listed)

\* The runtime persists its source digest only for a mirror that has converged
\* exactly, and leaves the mirror alone while the digest matches.
SettledIsMirrored == (saved = listed /\ posting = NoList) => mirror = listed
=============================================================================
