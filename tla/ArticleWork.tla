---------------------------- MODULE ArticleWork ----------------------------
(***************************************************************************)
(* What a lane does with the job it claimed: the requests to the models,    *)
(* the repair of a rejected impact answer from its checkpoint, the event    *)
(* identity of an assessed article and the rows that are stored for it.     *)
(* Every request and every transaction is a step; a lane may outlive its    *)
(* lease and the process may stop between any two steps.  Source:           *)
(* xauusd_news/news/annotation/product.py, impact_repair.py,                *)
(* news/retrieval/event_identity.py, evidence/ledger.py, scheduler/runtime. *)
(***************************************************************************)
EXTENDS Integers, FiniteSets

CONSTANTS
  Count,        \* the articles 1..Count, in the order they were first seen
  Lanes,
  Nobody,
  Queues,       \* what the scheduler may have queued: sets of jobs
  Outputs,      \* what a model may say that the contract rejects
  MaxMishaps     \* bound: leases that lapse under a running worker, failed or deferred
                \* requests, restarts of the process

VARIABLES
  annotations,    \* [articles -> models with an annotation row of it]
  titled,       \* [articles -> sources of its title rows]
  checkpoint,   \* [articles -> evidence of the rejected first impact answer, or NoEvidence]
  resolved,     \* [articles -> its assessment and event identity, or Unresolved]
  failures,     \* the failure rows: [job, model, attempt, terminal]
  prohibited,   \* articles with the marker of the content policy
  queued,       \* the jobs the scheduler has queued
  lease,        \* [jobs -> the worker that holds it, or Nobody]
  lapsed,       \* jobs of which a lease lapsed under a running worker
  lane,       \* the local variables of each worker
  mishaps

stored == <<annotations, titled, checkpoint, resolved, failures, prohibited>>
articleVars == <<stored, queued, lease, lapsed, lane, mishaps>>

Articles == 1..Count
Tasks == {"annotation", "title", "impact"}
ArticleJobs == Tasks \X Articles
\* There is an article, the scheduler queues jobs of articles, and a rejected answer and a
\* worker are told from none.
ASSUME ArticleAssumption ==
  /\ Count \in Nat \ {0}
  /\ \A jobs \in Queues : jobs \subseteq ArticleJobs
  /\ Nobody \notin Lanes \cup Outputs
DEFAULT == "default"
FALLBACK == "fallback"

\* The system's identifiers are derived from the annotation: 0 stands for none.
Unresolved == [relation |-> "none", matched |-> 0, episode |-> 0, event |-> 0]
NoEvidence == [context |-> {}, output |-> Nobody]
NoWork == [pc |-> "idle", job |-> <<"title", 1>>, model |-> DEFAULT, evidence |-> NoEvidence,
         answer |-> Unresolved, attempt |-> 0, terminal |-> FALSE]

ArticleInit ==
  /\ annotations = [a \in Articles |-> {}] /\ titled = [a \in Articles |-> {}]
  /\ checkpoint = [a \in Articles |-> NoEvidence]
  /\ resolved = [a \in Articles |-> Unresolved]
  /\ failures = {} /\ prohibited = {}
  /\ queued \in Queues /\ lease = [j \in ArticleJobs |-> Nobody] /\ lapsed = {}
  /\ lane = [w \in Lanes |-> NoWork]
  /\ mishaps = 0

-----------------------------------------------------------------------------
Job(w) == lane[w].job
Task(w) == Job(w)[1]
Article(w) == Job(w)[2]
Busy(w, task, pc) == lane[w].pc = pc /\ Task(w) = task
Onto(w, pc) == lane' = [lane EXCEPT ![w].pc = pc]
\* The job is given back by whoever still holds it.
Leave(w) ==
  /\ lane' = [lane EXCEPT ![w] = NoWork]
  /\ lease' = [lease EXCEPT ![Job(w)] = IF @ = w THEN Nobody ELSE @]
\* A database error ends the lane; its lease runs out.
Die(w) == lane' = [lane EXCEPT ![w] = NoWork] /\ UNCHANGED lease
Mishap == mishaps < MaxMishaps[queued] /\ mishaps' = mishaps + 1

\* pending_record_for_job: the work a job stands for is still to be done.
Outstanding(job) ==
  LET a == job[2]
  IN CASE job[1] = "annotation" -> annotations[a] = {}
       [] job[1] = "title" -> titled[a] = {}
       [] job[1] = "impact" -> annotations[a] # {} /\ resolved[a] = Unresolved

\* A lane claims a job and begins with it (_execute_job): prohibited content is skipped,
\* a stored checkpoint is resumed instead of a first impact request.
BeginWith(job) ==
  IF job[1] # "impact" THEN "ask"
  ELSE IF checkpoint[job[2]] = NoEvidence THEN "retrieve" ELSE "repair"
Begin(w, job) ==
  /\ job[2] \notin prohibited /\ Outstanding(job)
  /\ lane' = [lane EXCEPT ![w] = [NoWork EXCEPT !.pc = BeginWith(job), !.job = job,
       !.evidence = IF job[1] = "impact" THEN checkpoint[job[2]] ELSE NoEvidence]]
Take(w, job) ==
  /\ lane[w].pc = "idle" /\ lease[job] = Nobody
  /\ Begin(w, job)
  /\ lease' = [lease EXCEPT ![job] = w]
  /\ UNCHANGED <<stored, lapsed, mishaps>>
\* After a deferral or a failed request the lane gives the job back, or begins it again
\* with the next credential (_run_scheduled_lane).
LeaveOrAgain(w) == Leave(w) \/ (Begin(w, Job(w)) /\ UNCHANGED lease)

\* attach_hybrid_prior_event_context: the earlier annotated articles, with the identity
\* each has at this moment.
Context(a) ==
  {[of |-> c, episode |-> resolved[c].episode, event |-> resolved[c].event] :
     c \in {c \in Articles : c < a /\ annotations[c] # {}}}
Retrieve(w) ==
  /\ Busy(w, "impact", "retrieve")
  /\ IF Article(w) \in prohibited THEN Leave(w)
     ELSE /\ lane' = [lane EXCEPT ![w] = [@ EXCEPT !.pc = "ask",
               !.evidence = [context |-> Context(Article(w)), output |-> Nobody]]]
          /\ UNCHANGED lease
  /\ UNCHANGED <<stored, lapsed, mishaps>>

-----------------------------------------------------------------------------
(* The requests.  A worker that has sent one waits for its outcome.        *)
Asking == {"ask", "anchors", "review", "repair"}

\* The gateway has no capacity, or the embeddings are not ready: the job is deferred; for
\* want of capacity an annotation is tried with the other model first.
Defer(w) ==
  /\ lane[w].pc \in Asking \cup {"retrieve"} /\ Mishap
  /\ \/ LeaveOrAgain(w)
     \/ /\ Task(w) = "annotation" /\ lane[w].model = DEFAULT
        /\ Article(w) \notin prohibited
        /\ lane' = [lane EXCEPT ![w] = [@ EXCEPT !.pc = "ask", !.model = FALLBACK]]
        /\ UNCHANGED lease
  /\ UNCHANGED <<stored, lapsed>>
\* The provider fails, or the answer breaks a contract that is not repaired.
Fail(w) ==
  /\ lane[w].pc \in Asking /\ Mishap
  /\ Onto(w, "count")
  /\ UNCHANGED <<stored, lease, lapsed>>
\* The provider refuses the content: it is marked, before the failures of an impact job are
\* counted and after those of another job are.
Refuse(w) ==
  /\ lane[w].pc \in Asking /\ Mishap
  /\ lane' = [lane EXCEPT ![w] = [@ EXCEPT !.terminal = TRUE,
       !.pc = IF Task(w) = "impact" THEN "mark" ELSE "count"]]
  /\ UNCHANGED <<stored, lease, lapsed>>
Mark(w) ==
  /\ lane[w].pc = "mark"
  /\ prohibited' = prohibited \cup {Article(w)}
  /\ Onto(w, IF Task(w) = "impact" THEN "count" ELSE "log")
  /\ UNCHANGED <<annotations, titled, checkpoint, resolved, failures, lease, lapsed, mishaps>>

\* An annotation: evidence the article does not contain is asked for again, and the
\* text to be displayed is reviewed.
AskedAnnotation(w) ==
  /\ Task(w) = "annotation"
  /\ \/ lane[w].pc = "ask" /\ \E pc \in {"anchors", "review"} : Onto(w, pc)
     \/ lane[w].pc = "anchors" /\ Onto(w, "review")
     \/ lane[w].pc = "review" /\ Onto(w, "store")
  /\ UNCHANGED <<stored, lease, lapsed, mishaps>>
AskedTitle(w) ==
  /\ Busy(w, "title", "ask") /\ Onto(w, "store")
  /\ UNCHANGED <<stored, lease, lapsed, mishaps>>

\* An impact answer that passes its contract names an offered candidate, or none.
Judgements(w) ==
  {[relation |-> r, matched |-> c.of] :
     r \in {"SAME_EVENT", "SAME_EPISODE"}, c \in lane[w].evidence.context}
    \cup {[relation |-> r, matched |-> 0] : r \in {"NEW_EPISODE", "UNRESOLVED"}}
Accepted(w, choice) ==
  /\ lane' = [lane EXCEPT ![w] = [@ EXCEPT !.pc = "resolve",
       !.answer = [Unresolved EXCEPT !.relation = choice.relation,
                                     !.matched = choice.matched]]]
  /\ UNCHANGED <<stored, lease, lapsed, mishaps>>
AnswerImpact(w) ==
  /\ Busy(w, "impact", "ask") \/ Busy(w, "impact", "repair")
  /\ \E choice \in Judgements(w) : Accepted(w, choice)
\* A first answer that breaks it becomes the evidence of the repair.
RejectImpact(w, output) ==
  /\ Busy(w, "impact", "ask")
  /\ lane' = [lane EXCEPT ![w] = [@ EXCEPT !.pc = "checkpoint", !.evidence.output = output]]
  /\ UNCHANGED <<stored, lease, lapsed, mishaps>>
\* save_checkpoint: the first stored evidence stands.
SaveAnyway(w) ==
  /\ Busy(w, "impact", "checkpoint")
  /\ checkpoint' = [checkpoint EXCEPT ![Article(w)] = lane[w].evidence]
  /\ Onto(w, "repair")
  /\ UNCHANGED <<annotations, titled, resolved, failures, prohibited, lease, lapsed, mishaps>>
SaveCheckpoint(w) ==
  /\ Busy(w, "impact", "checkpoint")
  /\ checkpoint' = [checkpoint EXCEPT ![Article(w)] =
                      IF @ = NoEvidence THEN lane[w].evidence ELSE @]
  /\ Onto(w, "repair")
  /\ UNCHANGED <<annotations, titled, resolved, failures, prohibited, lease, lapsed, mishaps>>

-----------------------------------------------------------------------------
(* The rows.                                                               *)

\* resolve_event_identity: the identity the matched article has by now, else the one
\* it had when it was offered, else the one it would get on its own.
OfferTo(w, c) == CHOOSE o \in lane[w].evidence.context : o.of = c
OwnUnless(offered, own) == IF offered # 0 THEN offered ELSE own
EpisodeOf(w, c) ==
  IF resolved[c] # Unresolved THEN resolved[c].episode ELSE OwnUnless(OfferTo(w, c).episode, c)
EventOf(w, c) ==
  IF resolved[c] # Unresolved THEN resolved[c].event ELSE OwnUnless(OfferTo(w, c).event, c)
Identity(w) ==
  LET a == Article(w)  r == lane[w].answer
  IN IF r.matched = 0 THEN [r EXCEPT !.episode = a, !.event = a]
     ELSE [r EXCEPT !.episode = EpisodeOf(w, r.matched),
                    !.event = IF r.relation = "SAME_EVENT" THEN EventOf(w, r.matched) ELSE a]
Resolve(w) ==
  /\ Busy(w, "impact", "resolve")
  /\ lane' = [lane EXCEPT ![w] = [@ EXCEPT !.pc = "store", !.answer = Identity(w)]]
  /\ UNCHANGED <<stored, lease, lapsed, mishaps>>
\* append_news_impact_assessment: the assessment and the identity in one transaction;
\* a second one of the article is an error of the job.
StoreImpact(w) ==
  /\ Busy(w, "impact", "store")
  /\ IF resolved[Article(w)] = Unresolved
     THEN resolved' = [resolved EXCEPT ![Article(w)] = lane[w].answer] /\ Leave(w)
     ELSE Onto(w, "count") /\ UNCHANGED <<resolved, lease>>
  /\ UNCHANGED <<annotations, titled, checkpoint, failures, prohibited, lapsed, mishaps>>
\* append_annotation; a second annotation by the same model ends the lane.
StoreAnnotation(w) ==
  /\ Busy(w, "annotation", "store")
  /\ IF lane[w].model \in annotations[Article(w)] THEN Die(w) /\ UNCHANGED annotations
     ELSE /\ annotations' = [annotations EXCEPT ![Article(w)] = @ \cup {lane[w].model}]
          /\ Onto(w, "title") /\ UNCHANGED lease
  /\ UNCHANGED <<titled, checkpoint, resolved, failures, prohibited, lapsed, mishaps>>
\* Its title is a second transaction.
StoreItsTitle(w) ==
  /\ Busy(w, "annotation", "title")
  /\ titled' = [titled EXCEPT ![Article(w)] = @ \cup {lane[w].model}]
  /\ Leave(w)
  /\ UNCHANGED <<annotations, checkpoint, resolved, failures, prohibited, lapsed, mishaps>>
StoreTitle(w) ==
  /\ Busy(w, "title", "store")
  /\ IF "title" \in titled[Article(w)]
     THEN Onto(w, "count") /\ UNCHANGED <<titled, lease>>
     ELSE titled' = [titled EXCEPT ![Article(w)] = @ \cup {"title"}] /\ Leave(w)
  /\ UNCHANGED <<annotations, checkpoint, resolved, failures, prohibited, lapsed, mishaps>>

\* _append_llm_failure and _append_impact_failure: the last attempt is read, then the next
\* is inserted; when another worker inserted it in between, the lane ends.
Attempts(job, model) == {f.attempt : f \in {f \in failures : f.job = job /\ f.model = model}}
CountFailures(w) ==
  /\ lane[w].pc = "count"
  /\ lane' = [lane EXCEPT ![w] = [@ EXCEPT
       !.pc = IF lane[w].terminal /\ Task(w) # "impact" THEN "mark" ELSE "log",
       !.attempt = Cardinality(Attempts(Job(w), lane[w].model)) + 1]]
  /\ UNCHANGED <<stored, lease, lapsed, mishaps>>
LogFailure(w) ==
  /\ lane[w].pc = "log"
  /\ IF lane[w].attempt \in Attempts(Job(w), lane[w].model)
     THEN Die(w) /\ UNCHANGED failures
     ELSE /\ failures' = failures \cup
               {[job |-> Job(w), model |-> lane[w].model, attempt |-> lane[w].attempt,
                 terminal |-> lane[w].terminal]}
          /\ LeaveOrAgain(w)
  /\ UNCHANGED <<annotations, titled, checkpoint, resolved, prohibited, lapsed, mishaps>>

-----------------------------------------------------------------------------
(* The environment.                                                        *)

\* A lease runs out, of a worker that goes on or of a lane that ended.
Lapse(job) ==
  /\ lease[job] # Nobody
  /\ lease' = [lease EXCEPT ![job] = Nobody]
  /\ IF \E w \in Lanes : lane[w].pc # "idle" /\ Job(w) = job
     THEN Mishap /\ lapsed' = lapsed \cup {job}
     ELSE UNCHANGED <<lapsed, mishaps>>
  /\ UNCHANGED <<stored, lane>>
\* The process is started again; the leases of the old one run out.
StartAgain ==
  /\ Mishap
  /\ lane' = [w \in Lanes |-> NoWork]
  /\ UNCHANGED <<stored, lease, lapsed>>

ArticleStep(w) ==
  \/ \E job \in queued : Take(w, job)
  \/ Retrieve(w) \/ Defer(w) \/ Fail(w) \/ Refuse(w) \/ Mark(w)
  \/ AskedAnnotation(w) \/ AskedTitle(w) \/ AnswerImpact(w)
  \/ \E output \in Outputs : RejectImpact(w, output)
  \/ SaveCheckpoint(w) \/ Resolve(w) \/ StoreImpact(w)
  \/ StoreAnnotation(w) \/ StoreItsTitle(w) \/ StoreTitle(w)
  \/ CountFailures(w) \/ LogFailure(w)
ArticleNext ==
  /\ (\E w \in Lanes : ArticleStep(w)) \/ (\E job \in queued : Lapse(job)) \/ StartAgain
  /\ UNCHANGED queued
ArticleSpec == ArticleInit /\ [][ArticleNext]_articleVars

-----------------------------------------------------------------------------
(* What is promised.                                                        *)

\* A job of which no lease lapsed under its worker is in one pair of hands.
Undisturbed(w) == Job(w) \notin lapsed
\* "Quota deferral, provider failure and process restart resume only repair": a rejected
\* answer is kept with the context it was given in, and is repaired as it was kept.
RepairsTheCapture ==
  \A w \in Lanes : Task(w) = "impact" /\ Undisturbed(w) =>
    LET kept == checkpoint[Article(w)]
    IN /\ lane[w].pc \in {"retrieve", "ask", "checkpoint"} => kept = NoEvidence
       /\ lane[w].pc = "repair" => kept = lane[w].evidence /\ kept # NoEvidence
       /\ lane[w].pc \in {"resolve", "store"} => kept \in {NoEvidence, lane[w].evidence}
\* An identity is the article's own or that of an earlier annotated article it was matched
\* with: the one that article has, or would have had if it stood alone.
WellIdentified(a) ==
  LET r == resolved[a]  m == r.matched
  IN IF r.relation \in {"SAME_EVENT", "SAME_EPISODE"}
     THEN /\ m \in Articles /\ m < a /\ annotations[m] # {}
          /\ LET known == <<resolved[m].episode, resolved[m].event>>
             IN \E id \in {<<m, m>>} \cup {known} :
                  /\ id = known => resolved[m] # Unresolved
                  /\ r.episode = id[1]
                  /\ r.event = IF r.relation = "SAME_EVENT" THEN id[2] ELSE a
     ELSE m = 0 /\ r.episode = a /\ r.event = a
IdentityGrounded == \A a \in Articles : resolved[a] # Unresolved => annotations[a] # {} /\ WellIdentified(a)
\* The failures of a job by a model are numbered without a gap, whoever logs them.
FailuresNumbered ==
  \A job \in ArticleJobs, model \in {DEFAULT, FALLBACK} :
    LET mine == {f \in failures : f.job = job /\ f.model = model}
    IN {f.attempt : f \in mine} = 1..Cardinality(mine)
\* A failure without a retry is that of marked content.
TerminalMarked == \A f \in failures : f.terminal => f.job[2] \in prohibited
\* One lease, one annotation; a title a model wrote with its annotation has that annotation.
OneAnnotation ==
  \A a \in Articles :
    /\ <<"annotation", a>> \notin lapsed => Cardinality(annotations[a]) <= 1
    /\ titled[a] \ {"title"} \subseteq annotations[a]
ArticleKept ==
  RepairsTheCapture /\ IdentityGrounded /\ FailuresNumbered /\ TerminalMarked /\ OneAnnotation

\* Evidence is only added: no later answer, failure or stale worker replaces a captured
\* answer, an identity, an annotation or a failure.
EvidenceOnlyGrows ==
  /\ \A a \in Articles :
       /\ annotations[a] \subseteq annotations'[a] /\ titled[a] \subseteq titled'[a]
       /\ checkpoint[a] # NoEvidence => checkpoint'[a] = checkpoint[a]
       /\ resolved[a] # Unresolved => resolved'[a] = resolved[a]
  /\ failures \subseteq failures' /\ prohibited \subseteq prohibited'
\* What the lanes promise of the articles they work on.
ArticleSound == []ArticleKept /\ [][EvidenceOnlyGrows]_articleVars
=============================================================================
