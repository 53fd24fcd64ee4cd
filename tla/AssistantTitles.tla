-------------------------- MODULE AssistantTitles ---------------------------
(*****************************************************************************)
(* The title of a conversation (web/app/api/_shared/                         *)
(* assistant-conversations.ts).  It starts as a provisional one; the first   *)
(* answer queues an automatic title, the owner may rename the conversation   *)
(* or ask for a new title, and a worker's title is shown when the            *)
(* conversation still waits for that very job at that very revision.         *)
(*                                                                           *)
(* A request of the owner and a report of a worker are each a read and a     *)
(* batch, two requests to D1: any other step may fall between them.          *)
(*****************************************************************************)
EXTENDS LeasedJobs

CONSTANTS Conversations, Workers, Keys, MaxJobs, MaxRenames

VARIABLES
  chat,      \* the conversation rows
  jobs,      \* assistant_title_jobs, in the order of insertion
  asking,    \* owner requests between their read and their batch
  worker     \* what each worker holds

vars == <<chat, jobs, asking, worker>>

NoJob == 0
Nowhere == MaxJobs + 1     \* an identifier no row was inserted for
Idle == [job |-> NoJob, token |-> 0, report |-> "none"]

(*****************************************************************************)
(* shown is the job the title came from, renamed how often the owner has     *)
(* renamed, since how many jobs there were when that last happened.          *)
(*****************************************************************************)
Init ==
  /\ chat = [c \in Conversations |-> [source |-> "PROVISIONAL", revision |-> 0,
       requests |-> 0, pending |-> NoJob, answered |-> FALSE, archived |-> FALSE,
       shown |-> NoJob, renamed |-> 0, since |-> 0]]
  /\ jobs = << >>
  /\ asking = {}
  /\ worker = [w \in Workers |-> Idle]

NewJob(c, key, by) ==
  [conv |-> c, key |-> key, by |-> by, revision |-> chat[c].revision,
   status |-> Queued.status, attempts |-> Queued.attempts, due |-> Queued.due,
   lapsed |-> Queued.lapsed]

Taken(c, key) == \E n \in DOMAIN jobs : jobs[n].conv = c /\ jobs[n].key = key
-----------------------------------------------------------------------------
(* The owner, and the answers of the conversation. *)

Rename(c) ==
  LET p == chat[c].pending
  IN /\ chat[c].renamed < MaxRenames
     /\ chat' = [chat EXCEPT ![c].source = "USER", ![c].revision = @ + 1,
          ![c].pending = NoJob, ![c].shown = NoJob, ![c].renamed = @ + 1,
          ![c].since = Len(jobs)]
     /\ jobs' = [n \in DOMAIN jobs |->
          IF n = p /\ jobs[n].status \in Open THEN Ended(jobs[n], "CANCELLED") ELSE jobs[n]]
     /\ UNCHANGED <<asking, worker>>

Archive(c) ==
  /\ chat' = [chat EXCEPT ![c].archived = ~@]
  /\ UNCHANGED <<jobs, asking, worker>>

\* A request that finds its key answers with that row, and one that finds no
\* answer or a pending job is refused: only the others go on to the batch.
AskTitle(c, key) ==
  /\ ~Taken(c, key) /\ chat[c].answered /\ chat[c].pending = NoJob
  /\ <<c, key>> \notin asking
  /\ asking' = asking \cup {<<c, key>>}
  /\ UNCHANGED <<chat, jobs, worker>>

(*****************************************************************************)
(* The batch.  It takes the pointer only if it is still free; the row is     *)
(* left out when one of the key was inserted since the read, and the         *)
(* pointer then names a job that does not exist.                             *)
(*****************************************************************************)
RequestTitle(c, key) ==
  LET free == chat[c].pending = NoJob
  IN /\ <<c, key>> \in asking /\ Len(jobs) < MaxJobs
     /\ asking' = asking \ {<<c, key>>}
     /\ chat' = IF ~free THEN chat
                ELSE [chat EXCEPT ![c].requests = @ + 1, ![c].pending =
                        IF Taken(c, key) THEN Nowhere ELSE Len(jobs) + 1]
     /\ jobs' = IF free /\ ~Taken(c, key) THEN Append(jobs, NewJob(c, key, "USER")) ELSE jobs
     /\ UNCHANGED worker

\* The two statements every answer's batch ends with.
AutomaticTitle(c) ==
  /\ ~chat[c].answered /\ Len(jobs) < MaxJobs
  /\ LET first == /\ chat[c].source = "PROVISIONAL" /\ chat[c].requests = 0
                  /\ chat[c].pending = NoJob
     IN /\ chat' = [chat EXCEPT ![c].answered = TRUE,
                      ![c].requests = IF first THEN @ + 1 ELSE @,
                      ![c].pending = IF first THEN Len(jobs) + 1 ELSE @]
        /\ jobs' = IF first THEN Append(jobs, NewJob(c, "automatic", "AUTOMATIC")) ELSE jobs
  /\ UNCHANGED <<asking, worker>>
-----------------------------------------------------------------------------
(* The workers. *)

\* The sweep frees the conversation of a job it ends, then one row is leased.
ClaimTitle(w) ==
  LET swept == [n \in DOMAIN jobs |-> Swept(jobs[n])]
      gone == {n \in DOMAIN jobs : jobs[n].status # swept[n].status /\ swept[n].status = "FAILED"}
  IN /\ worker[w] = Idle
     /\ chat' = [c \in Conversations |->
          IF chat[c].pending \in gone THEN [chat[c] EXCEPT !.pending = NoJob] ELSE chat[c]]
     /\ \E n \in Oldest(swept) \cup (IF Oldest(swept) = {} THEN {NoJob} ELSE {}) :
          /\ jobs' = IF n = NoJob THEN swept ELSE [swept EXCEPT ![n] = Leased(@)]
          /\ worker' = IF n = NoJob THEN worker
                       ELSE [worker EXCEPT ![w] =
                               [job |-> n, token |-> swept[n].attempts + 1, report |-> "none"]]
     /\ <<jobs, chat>> # <<jobs', chat'>>
     /\ UNCHANGED asking

\* The select of a report: without the row there is nothing to write.
ReadTitleJob(w) ==
  /\ worker[w].job # NoJob /\ worker[w].report = "none"
  /\ \E report \in {"complete", "fail", "defer"} :
       worker' = [worker EXCEPT ![w] =
         IF Held(jobs[worker[w].job], worker[w].token) THEN [@ EXCEPT !.report = report]
         ELSE Idle]
  /\ UNCHANGED <<chat, jobs, asking>>

\* Mutant: the conversation takes the title of whatever job is completed for it.
CompleteTitleAnyway(w) ==
  LET n == worker[w].job
  IN /\ worker[w].report = "complete"
     /\ jobs' = IF Kept(jobs[n], worker[w].token)
                THEN [jobs EXCEPT ![n] = Ended(@, "COMPLETED")] ELSE jobs
     /\ chat' = [chat EXCEPT ![jobs[n].conv].source = "AI", ![jobs[n].conv].pending = NoJob,
                             ![jobs[n].conv].shown = n]
     /\ worker' = [worker EXCEPT ![w] = Idle]
     /\ UNCHANGED asking

\* The job and the conversation are two statements: only the first asks for
\* the token.
CompleteTitle(w) ==
  LET n == worker[w].job
  IN /\ worker[w].report = "complete"
     /\ jobs' = IF Kept(jobs[n], worker[w].token)
                THEN [jobs EXCEPT ![n] = Ended(@, "COMPLETED")] ELSE jobs
     /\ chat' = [c \in Conversations |->
          IF jobs[n].conv = c /\ chat[c].pending = n /\ chat[c].revision = jobs[n].revision
          THEN [chat[c] EXCEPT !.source = "AI", !.revision = @ + 1, !.pending = NoJob,
                               !.shown = n]
          ELSE chat[c]]
     /\ worker' = [worker EXCEPT ![w] = Idle]
     /\ UNCHANGED asking

\* Both free the conversation after the last attempt.
ReturnTitle(w, report) ==
  LET n == worker[w].job
      last == worker[w].token >= MAX_ATTEMPTS
  IN /\ worker[w].report = report
     /\ jobs' = IF Kept(jobs[n], worker[w].token)
                THEN [jobs EXCEPT ![n] = Returned(@)] ELSE jobs
     /\ chat' = [c \in Conversations |->
          IF chat[c].pending = n /\ last THEN [chat[c] EXCEPT !.pending = NoJob] ELSE chat[c]]
     /\ worker' = [worker EXCEPT ![w] = Idle]
     /\ UNCHANGED asking

FailTitle(w) == ReturnTitle(w, "fail")
DeferTitle(w) == ReturnTitle(w, "defer")

Crash(w) ==
  /\ worker[w] # Idle
  /\ worker' = [worker EXCEPT ![w] = Idle]
  /\ UNCHANGED <<chat, jobs, asking>>

Age ==
  /\ \E n \in DOMAIN jobs : Aged(jobs[n]) # jobs[n] /\ jobs' = [jobs EXCEPT ![n] = Aged(@)]
  /\ UNCHANGED <<chat, asking, worker>>

Next ==
  \/ \E c \in Conversations :
       Rename(c) \/ Archive(c) \/ AutomaticTitle(c)
         \/ \E key \in Keys : AskTitle(c, key) \/ RequestTitle(c, key)
  \/ \E w \in Workers : ClaimTitle(w) \/ ReadTitleJob(w) \/ CompleteTitle(w)
                          \/ FailTitle(w) \/ DeferTitle(w) \/ Crash(w)
  \/ Age

Spec == Init /\ [][Next]_vars
-----------------------------------------------------------------------------
(*****************************************************************************)
(* A title the owner typed gives way only to a title the owner asked for     *)
(* after typing it: a generation that was already running is never shown,    *)
(* whichever worker reports it and however late                              *)
(* (completeAssistantTitleJob against renameOwnerAssistantConversation).     *)
(*****************************************************************************)
OwnerTitleStands ==
  [][\A c \in Conversations : chat[c].source = "USER" /\ chat'[c].source = "AI" =>
       /\ chat'[c].shown > chat[c].since
       /\ jobs[chat'[c].shown].by = "USER"]_vars

(*****************************************************************************)
(* An open job is one its conversation waits for, and a conversation that    *)
(* waits, waits for an open job (pending_title_job_id).  The code does not   *)
(* keep it: see RequestTitle and CompleteTitle.                              *)
(*****************************************************************************)
WaitsForOpenJob ==
  \A c \in Conversations : LET p == chat[c].pending IN
    /\ p # NoJob => p \in DOMAIN jobs /\ jobs[p].status \in Open
    /\ \A n \in DOMAIN jobs : jobs[n].conv = c /\ jobs[n].status \in Open => p = n
=============================================================================
