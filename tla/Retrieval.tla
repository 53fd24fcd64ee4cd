----------------------------- MODULE Retrieval ------------------------------
(*****************************************************************************)
(* Prior-event context of the impact jobs (news/retrieval/search.py and      *)
(* gemini_embeddings.py): every lane catches the vectors up under one lease  *)
(* of the embedding generation, chooses the route from a durable mode with   *)
(* hysteresis, and freezes what it retrieved in a receipt per article.  The  *)
(* maintenance script appends vectors under the same lease.                  *)
(*                                                                           *)
(* Articles are numbered in the order they were first seen; they become      *)
(* candidates when they are annotated, in any order.  What a ranking selects *)
(* is abstracted to the candidates it was computed over.  Times are the time *)
(* left or gone.                                                             *)
(*****************************************************************************)
EXTENDS Integers, FiniteSets

CONSTANTS
  Lanes,      \* lanes of the annotator that run impact jobs
  Scripts,    \* runs of backfill_news_identity_embeddings.py
  Newest,     \* the articles are 1..Newest
  BATCH,      \* NEWS_BACKFILL_BATCH, or what one provider envelope holds
  LEASE,      \* NEWS_BACKFILL_LEASE_SECONDS
  COOLDOWN, LONGEST, \* NEWS_BACKFILL_COOLDOWN_BASE_SECONDS and _MAX_SECONDS
  STABLE,     \* NEWS_RETRIEVAL_RECOVERY_STABILIZATION
  RetryAfters,\* what a provider may ask for
  Pressures,  \* what the queues and the provider may show: none, queue, provider
  NoLane,
  MaxFaults   \* bound: provider failures and crashes

VARIABLES
  annotated,  \* articles with a usable annotation
  embedded,   \* news_identity_embeddings_v1 of the generation
  lease,      \* news_identity_embedding_backfill_leases_v1 of the generation
  mode,       \* news_ai_retrieval_mode_state_v1
  receipts,   \* the receipts of each article, one per route
  worker,     \* the local variables of each lane and script run
  failures    \* provider failures and crashes so far

retrievalVars == <<annotated, embedded, lease, mode, receipts, worker, failures>>

Articles == 1..Newest
Runners == Lanes \cup Scripts
ROUTES == {"HYBRID", "DETERMINISTIC_FALLBACK"}
NoContext == {}
NoLease == [owner |-> NoLane, left |-> 0, cooling |-> 0, count |-> 0]
Unobserved == -1
Resting == [pc |-> "idle", article |-> 0, universe |-> {}, batch |-> {},
            next |-> "NONE", observed |-> Unobserved, again |-> FALSE,
            whole |-> FALSE, had |-> [r \in ROUTES |-> NoContext],
            route |-> "NONE", context |-> NoContext]
Backoff(n) == LET b == COOLDOWN * 2^(n - 1) IN IF b < LONGEST THEN b ELSE LONGEST
\* More failures than that make no difference.
Deepest == CHOOSE n \in 1..11 :
  Backoff(n) = LONGEST /\ \A m \in 1..(n - 1) : Backoff(m) < LONGEST

RetrievalTypeOK ==
  /\ annotated \subseteq Articles /\ embedded \subseteq annotated
  /\ lease \in [owner : Runners \cup {NoLane}, left : 0..LEASE,
                cooling : Nat, count : 0..Deepest]
  /\ mode \in [is : ROUTES \cup {"NONE", "WAIT_FOR_HYBRID"},
               observed : {Unobserved} \cup 0..STABLE]
  /\ receipts \in [Articles -> [ROUTES -> SUBSET Articles]]
  /\ failures \in 0..MaxFaults

RetrievalInit ==
  /\ annotated = {} /\ embedded = {} /\ lease = NoLease /\ failures = 0
  /\ mode = [is |-> "NONE", observed |-> Unobserved]
  /\ receipts = [a \in Articles |-> [r \in ROUTES |-> NoContext]]
  /\ worker = [w \in Runners |-> Resting]

\* A usable annotation of an article is published.
Annotate(a) ==
  /\ a \notin annotated
  /\ annotated' = annotated \cup {a}
  /\ UNCHANGED <<embedded, lease, mode, receipts, worker, failures>>

Owns(w) == lease.owner = w
Missing(w) == worker[w].universe \ embedded
Goes(w, pc) == worker' = [worker EXCEPT ![w].pc = pc]
Ends(w) == worker' = [worker EXCEPT ![w] = Resting]
Fails == failures < MaxFaults /\ failures' = failures + 1

-----------------------------------------------------------------------------
(* An impact job begins: the candidates first seen no later than its own     *)
(* article.  A job whose lease ran out may be with two lanes.                *)
Begin(w, a) ==
  /\ w \in Lanes /\ worker[w].pc = "idle" /\ a \in annotated
  /\ worker' = [worker EXCEPT ![w] =
       [Resting EXCEPT !.pc = "policy", !.article = a, !.had = receipts[a],
                       !.universe = {b \in annotated : b <= a}]]
  /\ UNCHANGED <<annotated, embedded, lease, mode, receipts, failures>>

\* An operator runs the script, or its loop goes round.
RunScript(w) ==
  /\ w \in Scripts /\ worker[w].pc = "idle" /\ annotated # {}
  /\ worker' = [worker EXCEPT ![w] =
                  [Resting EXCEPT !.pc = "claim", !.universe = annotated]]
  /\ UNCHANGED <<annotated, embedded, lease, mode, receipts, failures>>

(* _adaptive_retrieval_policy reads vectors, cooldowns and the prior mode,   *)
(* and only then writes the mode it decided.                                 *)
Healthy(w, p) == Missing(w) = {} /\ lease.cooling = 0 /\ p # "provider"
Stabilizing ==
  mode.is = "DETERMINISTIC_FALLBACK" /\ mode.observed < STABLE
Decision(w, p) ==
  IF Healthy(w, p)
  THEN IF Stabilizing
       THEN [is |-> "DETERMINISTIC_FALLBACK",
             observed |-> IF mode.observed = Unobserved THEN 0 ELSE mode.observed]
       ELSE [is |-> "HYBRID", observed |-> Unobserved]
  ELSE IF \/ lease.cooling > 0 \/ p = "provider"
          \/ p = "queue" /\ Missing(w) # {}
          \/ mode.is = "DETERMINISTIC_FALLBACK"
       THEN [is |-> "DETERMINISTIC_FALLBACK", observed |-> Unobserved]
       ELSE [is |-> "WAIT_FOR_HYBRID", observed |-> Unobserved]
Policy(w, p) ==
  /\ worker[w].pc = "policy"
  /\ worker' = [worker EXCEPT ![w].pc = "write", ![w].next = Decision(w, p).is,
                              ![w].observed = Decision(w, p).observed]
  /\ UNCHANGED <<annotated, embedded, lease, mode, receipts, failures>>

WriteMode(w) ==
  /\ worker[w].pc = "write"
  /\ mode' = [is |-> worker[w].next, observed |-> worker[w].observed]
  /\ worker' = [worker EXCEPT ![w] =
       LET at(pc) == [@ EXCEPT !.pc = pc, !.next = "NONE", !.observed = Unobserved] IN
       IF @.next = "DETERMINISTIC_FALLBACK" THEN at("fallback")
       ELSE IF ~@.again THEN at("claim")
       ELSE IF @.whole THEN at("receipt") ELSE Resting]
  /\ UNCHANGED <<annotated, embedded, lease, receipts, failures>>

-----------------------------------------------------------------------------
(* append_missing_embeddings. *)

\* Where a call that could not append leaves its caller: an impact job records
\* the fallback, the script ends.
Unable(w) == IF w \in Scripts THEN Ends(w) ELSE Goes(w, "force")
Appended(w) == IF w \in Scripts THEN Ends(w) ELSE Goes(w, "load")

Claim(w) ==
  /\ worker[w].pc = "claim"
  /\ IF lease.cooling > 0
     THEN Unable(w) /\ UNCHANGED lease
     ELSE IF lease.left > 0
     THEN Appended(w) /\ UNCHANGED lease
     ELSE /\ lease' = [lease EXCEPT !.owner = w, !.left = LEASE]
          /\ Goes(w, "select")
  /\ UNCHANGED <<annotated, embedded, mode, receipts, failures>>

\* The newest of what is missing; none: the generation is whole.
Select(w) ==
  /\ worker[w].pc = "select"
  /\ \/ /\ Missing(w) = {} /\ Goes(w, "clear")
     \/ \E b \in SUBSET Missing(w) :
          /\ b # {} /\ Cardinality(b) <= BATCH
          /\ \A x \in b, y \in Missing(w) \ b : x > y
          /\ worker' = [worker EXCEPT ![w].pc = "call", ![w].batch = b]
  /\ UNCHANGED <<annotated, embedded, lease, mode, receipts, failures>>

\* The provider's vectors are stored; a vector that is there already stays.
Embed(w) ==
  /\ worker[w].pc = "call"
  /\ embedded' = embedded \cup worker[w].batch
  /\ worker' = [worker EXCEPT ![w].pc = "clear", ![w].batch = {}]
  /\ UNCHANGED <<annotated, lease, mode, receipts, failures>>

\* A failure of the provider, or of every account's admission: it is to be
\* recorded.  A dispatch the governor deferred is not recorded.
EmbedFails(w) ==
  /\ worker[w].pc = "call" /\ Fails
  /\ \E pc \in {"record", "release"} :
       worker' = [worker EXCEPT ![w].pc = pc, ![w].batch = {}]
  /\ UNCHANGED <<annotated, embedded, lease, mode, receipts>>

\* Mutant: the row is deleted whoever holds it.
ClearAny(w) ==
  /\ worker[w].pc = "clear"
  /\ lease' = NoLease
  /\ Appended(w)
  /\ UNCHANGED <<annotated, embedded, mode, receipts, failures>>

\* _clear_backfill_state: only one's own row.
Clear(w) ==
  /\ worker[w].pc = "clear"
  /\ lease' = IF Owns(w) THEN NoLease ELSE lease
  /\ Appended(w)
  /\ UNCHANGED <<annotated, embedded, mode, receipts, failures>>

\* The cooldown is what the provider asked for, or grows with the failures in a
\* row.  Who lost the lease raises,
\* and the job's attempt is an error.
RecordFailure(w) ==
  /\ worker[w].pc = "record"
  /\ IF Owns(w)
     THEN LET n == IF lease.count < Deepest THEN lease.count + 1 ELSE Deepest IN
          /\ \E c \in {Backoff(n)} \cup RetryAfters :
               lease' = [lease EXCEPT !.count = n, !.cooling = c]
          /\ Goes(w, "release")
     ELSE Ends(w) /\ UNCHANGED lease
  /\ UNCHANGED <<annotated, embedded, mode, receipts, failures>>

Release(w) ==
  /\ worker[w].pc = "release"
  /\ lease' = IF ~Owns(w) THEN lease
              ELSE IF lease.cooling > 0
              THEN [lease EXCEPT !.owner = NoLane, !.left = 0]
              ELSE NoLease
  /\ Unable(w)
  /\ UNCHANGED <<annotated, embedded, mode, receipts, failures>>

ForceFallback(w) ==
  /\ worker[w].pc = "force"
  /\ mode' = [is |-> "DETERMINISTIC_FALLBACK", observed |-> Unobserved]
  /\ Goes(w, "fallback")
  /\ UNCHANGED <<annotated, embedded, lease, receipts, failures>>

-----------------------------------------------------------------------------
(* The receipts. *)

\* load_embeddings, and then the policy again.
Load(w) ==
  /\ worker[w].pc = "load"
  /\ worker' = [worker EXCEPT ![w].pc = "policy", ![w].again = TRUE,
                              ![w].whole = Missing(w) = {}]
  /\ UNCHANGED <<annotated, embedded, lease, mode, receipts, failures>>

Attach(w, route, context) ==
  worker' = [worker EXCEPT ![w].pc = "attached", ![w].route = route, ![w].context = context]
Receipt(w, route) == receipts[worker[w].article][route]
\* INSERT OR IGNORE.
Freeze(w, route) ==
  receipts' = IF Receipt(w, route) # NoContext THEN receipts
              ELSE [receipts EXCEPT ![worker[w].article][route] = worker[w].universe]

LoadReceipt(w) ==
  /\ worker[w].pc = "receipt"
  /\ IF Receipt(w, "HYBRID") # NoContext
     THEN Attach(w, "HYBRID", Receipt(w, "HYBRID"))
     ELSE Goes(w, "query")
  /\ UNCHANGED <<annotated, embedded, lease, mode, receipts, failures>>

\* The article's own vector is asked for and the ranking is frozen.
Query(w) ==
  /\ worker[w].pc = "query"
  /\ Freeze(w, "HYBRID")
  /\ Attach(w, "HYBRID", worker[w].universe)
  /\ UNCHANGED <<annotated, embedded, lease, mode, failures>>

QueryFails(w) ==
  /\ worker[w].pc = "query" /\ Fails
  /\ Goes(w, "fallback")
  /\ UNCHANGED <<annotated, embedded, lease, mode, receipts>>

AttachFallback(w) ==
  /\ worker[w].pc = "fallback"
  /\ Freeze(w, "DETERMINISTIC_FALLBACK")
  /\ Attach(w, "DETERMINISTIC_FALLBACK",
            IF Receipt(w, "DETERMINISTIC_FALLBACK") # NoContext
            THEN Receipt(w, "DETERMINISTIC_FALLBACK") ELSE worker[w].universe)
  /\ UNCHANGED <<annotated, embedded, lease, mode, failures>>

\* The job goes on with its context; whether it succeeds is not modelled here.
Proceed(w) ==
  /\ worker[w].pc = "attached" /\ Ends(w)
  /\ UNCHANGED <<annotated, embedded, lease, mode, receipts, failures>>

-----------------------------------------------------------------------------
RunnerCrash(w) ==
  /\ worker[w].pc # "idle" /\ Fails
  /\ Ends(w)
  /\ UNCHANGED <<annotated, embedded, lease, mode, receipts>>

\* Time passes; the window of the policy is counted up to STABLE.
Older(age) == IF age \in {Unobserved, STABLE} THEN age ELSE age + 1
Less(t) == IF t = 0 THEN 0 ELSE t - 1
RetrievalTick ==
  /\ lease' = [lease EXCEPT !.left = Less(@), !.cooling = Less(@)]
  /\ mode' = [mode EXCEPT !.observed = Older(@)]
  /\ worker' = [w \in Runners |-> [worker[w] EXCEPT !.observed = Older(@)]]
  /\ UNCHANGED <<annotated, embedded, receipts, failures>>

RunnerStep(w) ==
  \/ \E p \in Pressures : Policy(w, p)
  \/ WriteMode(w) \/ Claim(w) \/ Select(w) \/ Embed(w) \/ EmbedFails(w) \/ Clear(w)
  \/ RecordFailure(w) \/ Release(w) \/ ForceFallback(w) \/ Load(w)
  \/ LoadReceipt(w) \/ Query(w) \/ QueryFails(w) \/ AttachFallback(w) \/ Proceed(w)

RetrievalNext ==
  \/ \E a \in Articles : Annotate(a) \/ \E w \in Runners : Begin(w, a)
  \/ \E w \in Runners : RunScript(w) \/ RunnerStep(w) \/ RunnerCrash(w)
  \/ RetrievalTick

\* Clocks run, lanes go on with what they began, and a queued impact job is
\* begun again and again.  Nobody is bound to run the script.
RetrievalFair ==
  /\ WF_retrievalVars(RetrievalTick)
  /\ \A w \in Runners : WF_retrievalVars(RunnerStep(w))
  /\ \A a \in Articles : SF_retrievalVars(\E w \in Lanes : Begin(w, a))
RetrievalSpec == RetrievalInit /\ [][RetrievalNext]_retrievalVars /\ RetrievalFair

-----------------------------------------------------------------------------
\* What a job was given is what its receipt of that route says, if the receipt
\* was there when the job began (search.py:796-808, 875-927), whatever has been
\* annotated since; and a hybrid context, in a job or in a receipt, stands on
\* the vectors of all its candidates.
ContextsFrozen ==
  /\ \A w \in Lanes : worker[w].pc = "attached" =>
       /\ worker[w].had[worker[w].route] \in {NoContext, worker[w].context}
       /\ worker[w].route = "HYBRID" => worker[w].context \subseteq embedded
  /\ \A a \in Articles : receipts[a]["HYBRID"] \subseteq embedded

\* A cooldown of the generation runs out by the clock alone: no success, release
\* or claim of another lane, however late, shortens it (search.py:199, 249, 333).
CooldownStands ==
  [][lease'.cooling < lease.cooling => RetrievalTick]_retrievalVars

\* What is retrieved is kept, and what is to wait waits.
RetrievalKept == [](RetrievalTypeOK /\ ContextsFrozen) /\ CooldownStands

\* After a fallback, work resumes hybrid retrieval.  It does not hold of this code:
\* under fallback attach_hybrid_prior_event_context returns before it appends what
\* is missing (search.py:759-762), so that only the script ends the fallback.
HybridReturns == mode.is = "DETERMINISTIC_FALLBACK" ~> mode.is = "HYBRID"
=============================================================================
