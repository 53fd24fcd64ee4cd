---------------------------- MODULE MCAssistant ----------------------------
(*****************************************************************************)
(* Small instances of the assistant's six parts that share no state: the     *)
(* context memory, the capacity router, the conversation titles, the memory  *)
(* index, the queue of news questions and the model turns and tools of one   *)
(* chat turn.  A behaviour is one of either: scene says which, and the       *)
(* variables of the others rest.                                             *)
(*****************************************************************************)
EXTENDS AssistantMemory, MemoryIndex, NewsQuestions, AssistantAgent,
  AssistantCapacity, TLC

VARIABLES scene, titled, titleJobs, asking, titleWorker

MCOwner == [c \in Conversations |-> "o"]
-----------------------------------------------------------------------------
(* The router: an assistant's own pool of two keys and a shared one, two    *)
(* models that share their quota, and a soft share of eight tenths.         *)

MCPools == {"p1", "p2"}
MCType == [p \in MCPools |-> IF p = "p1" THEN "PREEMPTIBLE" ELSE "ROUTINE"]
MCKeys == [p \in MCPools |-> IF p = "p1" THEN 2 ELSE 1]
MCRank == [p \in MCPools |-> IF p = "p1" THEN 1 ELSE 2]
MCPlan == <<"m1", "m2">>
MCTemplates ==
  {[pool |-> "*", model |-> "m1", shared |-> {"m1", "m2"}, rpd |-> 5, rpm |-> 3,
    tpm |-> 4, soft |-> 8000, inFlight |-> 1, ttl |-> 1, cooldown |-> 1,
    threshold |-> 2, enabled |-> TRUE]}
MCOne == 1

-----------------------------------------------------------------------------
(* The titles. *)

MCKey == {"k"}
Title == INSTANCE AssistantTitles WITH
  Keys <- MCKey, MaxRenames <- MCOne, chat <- titled, jobs <- titleJobs,
  worker <- titleWorker
titleVars == <<titled, titleJobs, asking, titleWorker>>
-----------------------------------------------------------------------------
(* The agent: a remote and a smaller local model, the news search, a market tool *)
(* and a calendar tool that is not allowed.  Two calls of a batch compete for    *)
(* 150 tokens and two items of evidence; item c is too new for the turn.         *)

MCProfiles ==
  << [id |-> "g", limit |-> 420, large |-> TRUE, calls |-> TRUE, thinking |-> TRUE,
      local |-> FALSE],
     [id |-> "q", limit |-> 300, large |-> TRUE, calls |-> TRUE, thinking |-> TRUE,
      local |-> TRUE] >>
MCTools ==
  [n |-> [capability |-> "NEWS_RETRIEVAL", tokens |-> 100, timeout |-> 1],
   m |-> [capability |-> "MARKET_DATA_READ", tokens |-> 100, timeout |-> 1],
   x |-> [capability |-> "CALENDAR_READ", tokens |-> 50, timeout |-> 1]]
MCAllowed == {"NEWS_RETRIEVAL", "MARKET_DATA_READ"}
MCNewsItems ==
  [e \in {"a", "b", "c", "d"} |-> [at |-> IF e = "c" THEN 2 ELSE 1, size |-> 30]]
MCAnswers ==
  {[rows |-> <<"a", "b">>, complete |-> TRUE, cutoff |-> 1],
   [rows |-> <<"d">>, complete |-> TRUE, cutoff |-> 1],
   [rows |-> <<"c">>, complete |-> TRUE, cutoff |-> 2]}
Asks(id, tool, valid) ==
  [kind |-> "call", call |-> [id |-> id, tool |-> tool, valid |-> valid], claims |-> <<>>]
Says(claims) ==
  [kind |-> "text", call |-> [id |-> "", tool |-> "", valid |-> FALSE], claims |-> claims]
MCReplies ==
  {[finish |-> "STOP", parts |-> parts] : parts \in
     {<<Asks("1", "m", TRUE), Asks("2", "m", TRUE)>>,
      <<Says(<<>>), Asks("1", "n", FALSE), Asks("2", "n", TRUE)>>,
      <<Asks("1", "n", TRUE), Asks("2", "n", TRUE)>>,
      <<Says(<< <<"a">>, <<"a", "b">> >>)>>, <<Says(<< <<>> >>)>>, <<Says(<< <<"c">> >>)>>}}
    \cup {[finish |-> "MAX_TOKENS", parts |-> <<>>]}
MCSizes == {90}
-----------------------------------------------------------------------------
AssistantInit ==
  /\ Init /\ CapacityInit /\ Title!Init /\ IndexInit /\ QuestionInit /\ AgentInit
  /\ scene \in {"memory", "capacity", "titles", "index", "questions",
                "agent"}
AssistantNext ==
  /\ UNCHANGED scene
  /\ \/ /\ scene = "memory" /\ Next
        /\ UNCHANGED <<capacityVars, titleVars, indexVars, questionVars, agentVars>>
     \/ /\ scene = "capacity" /\ CapacityNext
        /\ UNCHANGED <<vars, titleVars, indexVars, questionVars, agentVars>>
     \/ /\ scene = "titles" /\ Title!Next
        /\ UNCHANGED <<vars, capacityVars, indexVars, questionVars, agentVars>>
     \/ /\ scene = "index" /\ IndexNext
        /\ UNCHANGED <<vars, capacityVars, titleVars, questionVars, agentVars>>
     \/ /\ scene = "questions" /\ QuestionNext
        /\ UNCHANGED <<vars, capacityVars, titleVars, indexVars, agentVars>>
     \/ /\ scene = "agent" /\ AgentNext
        /\ UNCHANGED <<vars, capacityVars, titleVars, indexVars, questionVars>>
AssistantSpec ==
  AssistantInit
    /\ [][AssistantNext]_<<scene, vars, capacityVars, titleVars, indexVars, questionVars,
                          agentVars>>

\* A title the owner gave is never replaced by one that was generated for an
\* older state of the conversation.
OwnerTitleStands == Title!OwnerTitleStands
WorkerSymmetry == Permutations(Workers)
=============================================================================
