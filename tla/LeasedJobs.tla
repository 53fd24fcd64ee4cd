----------------------------- MODULE LeasedJobs -----------------------------
(*****************************************************************************)
(* The rows of the assistant's work queues: conversation titles, context     *)
(* compaction, the memory index and news questions are four D1 tables with   *)
(* one life cycle.  A worker's claim is one batch: it returns every row      *)
(* whose lease ran out to the queue, or ends it after its last attempt, and  *)
(* leases the oldest row that is due.  A report first selects the row by     *)
(* its token and its unexpired lease and then writes, in a second request    *)
(* to D1, under the token.                                                   *)
(*                                                                           *)
(* Times are not counted: lapsed says that the row's lease_expires_at is     *)
(* past, due that its available_at is.  A token is the number of the         *)
(* attempt it was made for.                                                  *)
(*****************************************************************************)
EXTENDS Naturals, Sequences

CONSTANT MAX_ATTEMPTS

ASSUME LimitsAssumption == MAX_ATTEMPTS \in Nat \ {0}

Open == {"PENDING", "PROCESSING"}

\* A row as it is inserted.
Queued == [status |-> "PENDING", attempts |-> 0, due |-> TRUE, lapsed |-> FALSE]

\* What a claim makes of every row before it chooses one.
Swept(j) ==
  IF j.status # "PROCESSING" \/ ~j.lapsed THEN j
  ELSE [j EXCEPT !.status = IF @ = "PROCESSING" /\ j.attempts < MAX_ATTEMPTS
                            THEN "PENDING" ELSE "FAILED",
                 !.due = TRUE, !.lapsed = FALSE]

\* The row of a claim: of the rows that are due, the one inserted first.
Oldest(rows) ==
  {n \in DOMAIN rows : /\ rows[n].status = "PENDING" /\ rows[n].due
                       /\ \A o \in 1..(n - 1) : rows[o].status = "PENDING" => ~rows[o].due}

Leased(j) == [j EXCEPT !.status = "PROCESSING", !.attempts = @ + 1, !.lapsed = FALSE]

\* A report's select, and the guard of the batch that follows it.
Held(j, token) == j.status = "PROCESSING" /\ j.attempts = token /\ ~j.lapsed
Kept(j, token) == j.status = "PROCESSING" /\ j.attempts = token

Ended(j, status) == [j EXCEPT !.status = status, !.lapsed = FALSE]

\* A failure or a deferral: back to the queue for later, or the last attempt.
Returned(j) ==
  IF j.attempts >= MAX_ATTEMPTS THEN Ended(j, "FAILED")
  ELSE [j EXCEPT !.status = "PENDING", !.due = FALSE, !.lapsed = FALSE]

\* Time passes for one row.
Aged(j) ==
  CASE j.status = "PROCESSING" /\ ~j.lapsed -> [j EXCEPT !.lapsed = TRUE]
    [] j.status = "PENDING" /\ ~j.due -> [j EXCEPT !.due = TRUE]
    [] OTHER -> j
=============================================================================
