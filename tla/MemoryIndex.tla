---------------------------- MODULE MemoryIndex -----------------------------
(*****************************************************************************)
(* The index over old messages (web/app/api/_shared/                         *)
(* assistant-memory-index.ts).  A trigger queues one job with every message  *)
(* that is stored; a worker sends the terms and the embedding back, the      *)
(* embedding goes to the vector store, an external service, and then one     *)
(* batch adds the entry, its terms, the receipt of the vector and the end    *)
(* of the job.  A question recalls entries of the owner's other              *)
(* conversations that are older than itself, and says whether the index it   *)
(* looked through was complete.                                              *)
(*****************************************************************************)
EXTENDS LeasedJobs, FiniteSets

CONSTANTS
  Chats,         \* the owner's conversations
  Indexers,      \* the workers of the index
  MaxMessages, MaxIndexTime

VARIABLES
  messages,  \* [conv, at]: the messages in the order they were stored
  indexJobs, \* assistant_memory_index_jobs, one for each message
  entries,   \* the messages with an entry, its terms and its receipt
  vectors,   \* the messages whose embedding the vector store holds
  indexer, indexTime

indexVars == <<messages, indexJobs, entries, vectors, indexer, indexTime>>

IndexIdle == [job |-> 0, token |-> 0, report |-> "none"]

IndexInit ==
  /\ messages = << >> /\ indexJobs = << >> /\ entries = {} /\ vectors = {}
  /\ indexer = [w \in Indexers |-> IndexIdle] /\ indexTime = 0

\* created_at is the time of the request, which may have been on its way.
StoreMessage(c) ==
  /\ Len(messages) < MaxMessages
  /\ \E at \in {indexTime, indexTime - 1} \cap Nat :
       messages' = Append(messages, [conv |-> c, at |-> at])
  /\ indexJobs' = Append(indexJobs, Queued)
  /\ UNCHANGED <<entries, vectors, indexer, indexTime>>

ClaimIndex(w) ==
  LET swept == [n \in DOMAIN indexJobs |-> Swept(indexJobs[n])]
  IN /\ indexer[w] = IndexIdle
     /\ \E n \in Oldest(swept) \cup (IF Oldest(swept) = {} THEN {0} ELSE {}) :
          /\ indexJobs' = IF n = 0 THEN swept ELSE [swept EXCEPT ![n] = Leased(@)]
          /\ indexer' = IF n = 0 THEN indexer
                       ELSE [indexer EXCEPT ![w].job = n, ![w].token = swept[n].attempts + 1]
     /\ indexJobs # indexJobs'
     /\ UNCHANGED <<messages, entries, vectors, indexTime>>

ReadIndex(w) ==
  /\ indexer[w].job # 0 /\ indexer[w].report = "none"
  /\ \E report \in {"complete", "fail"} :
       indexer' = [indexer EXCEPT ![w] =
         IF Held(indexJobs[@.job], @.token) THEN [@ EXCEPT !.report = report] ELSE IndexIdle]
  /\ UNCHANGED <<messages, indexJobs, entries, vectors, indexTime>>

\* The same identifier each time: an upsert of what is there changes nothing.
Upsert(w) ==
  /\ indexer[w].report = "complete"
  /\ vectors' = vectors \cup {indexer[w].job}
  /\ indexer' = [indexer EXCEPT ![w].report = "stored"]
  /\ UNCHANGED <<messages, indexJobs, entries, indexTime>>

\* Mutant: the entry is stored whoever holds the job.
CompleteIndexUnfenced(w) ==
  LET n == indexer[w].job
  IN /\ indexer[w].report = "stored"
     /\ indexer' = [indexer EXCEPT ![w] = IndexIdle]
     /\ entries' = entries \cup {n}
     /\ indexJobs' = IF Kept(indexJobs[n], indexer[w].token)
                     THEN [indexJobs EXCEPT ![n] = Ended(@, "COMPLETED")] ELSE indexJobs
     /\ UNCHANGED <<messages, vectors, indexTime>>

\* Every statement asks for the token, or fails with the batch without it.
CompleteIndex(w) ==
  LET n == indexer[w].job
  IN /\ indexer[w].report = "stored"
     /\ indexer' = [indexer EXCEPT ![w] = IndexIdle]
     /\ IF Kept(indexJobs[n], indexer[w].token)
        THEN /\ indexJobs' = [indexJobs EXCEPT ![n] = Ended(@, "COMPLETED")]
             /\ entries' = entries \cup {n}
        ELSE UNCHANGED <<indexJobs, entries>>
     /\ UNCHANGED <<messages, vectors, indexTime>>

FailIndex(w) ==
  LET n == indexer[w].job
  IN /\ indexer[w].report = "fail"
     /\ indexer' = [indexer EXCEPT ![w] = IndexIdle]
     /\ indexJobs' = IF Kept(indexJobs[n], indexer[w].token)
                     THEN [indexJobs EXCEPT ![n] = Returned(@)] ELSE indexJobs
     /\ UNCHANGED <<messages, entries, vectors, indexTime>>

IndexerCrash(w) ==
  /\ indexer[w] # IndexIdle
  /\ indexer' = [indexer EXCEPT ![w] = IndexIdle]
  /\ UNCHANGED <<messages, indexJobs, entries, vectors, indexTime>>

IndexAge ==
  /\ \/ /\ indexTime < MaxIndexTime /\ indexTime' = indexTime + 1 /\ UNCHANGED indexJobs
     \/ /\ \E n \in DOMAIN indexJobs : Aged(indexJobs[n]) # indexJobs[n]
                                      /\ indexJobs' = [indexJobs EXCEPT ![n] = Aged(@)]
        /\ UNCHANGED indexTime
  /\ UNCHANGED <<messages, entries, vectors, indexer>>

IndexNext ==
  \/ \E c \in Chats : StoreMessage(c)
  \/ \E w \in Indexers : ClaimIndex(w) \/ ReadIndex(w) \/ Upsert(w) \/ CompleteIndex(w)
                          \/ FailIndex(w) \/ IndexerCrash(w)
  \/ IndexAge

IndexSpec == IndexInit /\ [][IndexNext]_indexVars
-----------------------------------------------------------------------------
\* A question of conversation c asked at that time.
Older(c, at) == {n \in DOMAIN messages : messages[n].conv # c /\ messages[n].at < at}
Recall(c, at) ==
  LET indexed == {n \in Older(c, at) \cap entries : indexJobs[n].status = "COMPLETED"}
  IN [items |-> Older(c, at) \cap entries, complete |-> indexed = Older(c, at)]

(*****************************************************************************)
(* A recall that calls itself complete really could have found every older   *)
(* message of the owner's other conversations, by its terms and by its       *)
(* vector; a job is completed exactly when its entry is there; and no        *)
(* recall reaches what its own question could not have known.                *)
(*****************************************************************************)
RecallHonest ==
  /\ \A n \in DOMAIN indexJobs : n \in entries <=> indexJobs[n].status = "COMPLETED"
  /\ \A c \in Chats, at \in 0..MaxIndexTime : LET r == Recall(c, at) IN
       /\ r.complete => \A n \in DOMAIN messages :
            messages[n].conv # c /\ messages[n].at < at => n \in entries \cap vectors
       /\ \A n \in r.items : messages[n].at < at /\ n \in vectors
=============================================================================
