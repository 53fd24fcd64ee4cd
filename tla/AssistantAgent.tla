--------------------------- MODULE AssistantAgent ---------------------------
(********************************************************************************)
(* One chat turn in the worker: run_bounded_assistant_agent alternates model    *)
(* requests and batches of tool calls within the turn's budgets, publishes each *)
(* settled batch, and answers with citations it has checked.  A failed attempt  *)
(* is claimed again; the turn's event stream goes on (AssistantEvents).         *)
(*                                                                              *)
(* The tools of a batch run in threads of their own against deadlines; the main *)
(* thread waits for the first of them (Wake), and later gives up those whose    *)
(* time is over (Expire).  A thread whose call was given up runs on; nobody     *)
(* reads its result.  Leases, lost answers and crashes are AssistantChat's.     *)
(* Sources: assistant/agent.py, tools.py (execute_batch), chat_worker.py.       *)
(********************************************************************************)
EXTENDS AssistantTools, AssistantEvents

CONSTANTS
  Replies,     \* what a model may answer: [finish, parts]; a part is [kind, call, claims]
  Answers,     \* what the news search may answer: [rows, complete, cutoff]
  Sizes,       \* tokens of another tool's output
  MAX_TURNS, MAX_CALLS, MAX_PARALLEL, RESULT_TOKENS, CONTEXT,   \* the budgets
  BASE,        \* estimate of the first request
  WRAP,        \* what a call adds to it beside its result
  ATTEMPTS     \* bound: attempts of the turn

VARIABLES
  run,     \* local variables of the attempt
  batch,   \* local variables of execute_batch
  stream   \* events of the turn that are stored

agentVars == <<run, batch, stream>>

MAX_ROUNDS == 2   \* MAX_TOOL_ROUNDS_PER_USER_TURN
POSTED == 16      \* ASSISTANT_CHAT_PROGRESS_BATCH_EVENTS

\* validated_budgets; a turn without tools may have no calls at all.
ValidBudgets ==
  /\ MAX_TURNS \in 1..3 /\ MAX_CALLS \in 0..32 /\ MAX_PARALLEL \in 1..16
  /\ RESULT_TOKENS \in FLOOR..32768 /\ MAX_EVIDENCE \in 0..100
  /\ MAX_CALLS = 0 \/ MAX_PARALLEL <= MAX_CALLS
  /\ OUTPUT \in Nat /\ CONTEXT \in Nat /\ OUTPUT < CONTEXT
Parts == UNION {ToSet(r.parts) : r \in Replies}
AgentConstants ==
  /\ ATTEMPTS \in 1..5
  /\ BASE \in Nat /\ WRAP \in Nat /\ Sizes \subseteq Nat /\ ENVELOPE \in Nat
  /\ NEWS_PAGE \in Nat /\ MAX_PER_CLAIM \in Nat
  /\ \A e \in DOMAIN NewsItems : NewsItems[e].size \in Nat
  /\ \A r \in Replies : r.parts \in Seq(Parts)
  /\ \A a \in Answers :
       /\ a.rows \in Seq(DOMAIN NewsItems)
       /\ \A i \in DOMAIN a.rows : NewsItems[a.rows[i]].at <= a.cutoff
ASSUME AgentAssumption == ValidBudgets /\ ValidRegistry /\ ValidProfiles /\ AgentConstants

NoReply == [error |-> "", calls |-> <<>>, claims |-> <<>>, content |-> <<>>]
Begun(attempt) ==
  [step |-> "context", attempt |-> attempt, turn |-> 0, calls |-> 0, rounds |-> 0,
   tokens |-> 0, available |-> <<>>, shown |-> <<>>, receipts |-> <<>>,
   contents |-> << [role |-> "user", parts |-> <<>>] >>, models |-> <<>>, planned |-> -1,
   reply |-> NoReply, code |-> "", cited |-> {}, cards |-> <<>>]
NoBatch == [plan |-> <<>>, results |-> <<>>, pending |-> {}, threads |-> <<>>,
         clock |-> 0, waiting |-> TRUE, tokens |-> 0, evidence |-> 0]

Fail(code) == run' = [run EXCEPT !.step = "failed", !.code = code]

-----------------------------------------------------------------------------
(* The worker prepares the attempt.                                           *)

\* The context is built and checked; the first attempt reports its reasoning.
Prepare ==
  /\ run.step = "context"
  /\ \/ Fail("CONTEXT_BUILD_FAILED") /\ UNCHANGED stream
     \/ /\ run' = [run EXCEPT !.step = "model"]
        /\ stream' = IF Len(stream) = 1 THEN Append(stream, <<"reasoning.started", 0>>)
                     ELSE stream
  /\ UNCHANGED batch

-----------------------------------------------------------------------------
(* A model request.                                                           *)

Remaining(r) == MAX_CALLS - r.calls
ToolsAllowed(r) ==
  /\ Authorized # {} /\ Remaining(r) > 0
  /\ r.turn < MAX_TURNS /\ r.rounds < MAX_ROUNDS
Planned(r) ==
  IF ToolsAllowed(r)
  THEN AtMost(Remaining(r), AtMost(MAX_PARALLEL, Cardinality(Authorized))) ELSE 0

\* The request carries the whole history; its estimate grows with it.
Estimate(r) == BASE + r.tokens + WRAP * r.calls

\* decode_gemini_assistant_turn keeps the content as it came, decode_ollama_assistant_turn
\* rebuilds it from the text and the calls.
OfKind(parts, kind) ==
  FlattenSeq([i \in DOMAIN parts |-> IF parts[i].kind = kind THEN <<parts[i]>> ELSE <<>>])
Content(profile, parts) ==
  IF profile.local THEN OfKind(parts, "text") \o OfKind(parts, "call") ELSE parts
Decoded(profile, reply) ==
  LET calls == OfKind(reply.parts, "call")
      texts == OfKind(reply.parts, "text")
      content == Content(profile, reply.parts)
      broken == \E i \in DOMAIN reply.parts : reply.parts[i].kind = "broken"
  IN [error |-> IF reply.finish # "STOP" THEN "MODEL_TURN_INCOMPLETE"
                ELSE IF broken THEN "INVALID_FUNCTION_CALL"
                ELSE IF content = <<>> THEN "INVALID_MODEL_TURN" ELSE "",
      calls |-> [i \in DOMAIN calls |-> calls[i].call],
      claims |-> IF texts = <<>> THEN <<>> ELSE texts[1].claims,
      content |-> content]

\* The profile of the first request is the only candidate of the later ones, and
\* the calls planned at the first decide the reasoning of all.
PlannedFirst(r) == IF r.models = <<>> THEN Planned(r) ELSE r.planned
Routes(r) ==
  LET IsCandidate(p) == r.models = <<>> \/ p.id = r.models[1]
  IN ToSet(Candidates(SelectSeq(Profiles, IsCandidate), Estimate(r), PlannedFirst(r)))

\* A lease that is not renewed, no capacity, or no usable answer of a provider.
Unanswered ==
  {"CHAT_LEASE_RENEWAL_REJECTED", "NO_MODEL_CAPACITY", "REMOTE_DEPENDENCY_UNAVAILABLE"}

Request(r) ==
  \/ \E code \in Unanswered : Fail(code)
  \/ \E p \in Routes(r), reply \in Replies :
       LET turn == Decoded(p, reply) IN
       IF turn.error # "" THEN Fail(turn.error)
       ELSE run' = [r EXCEPT !.step = IF turn.calls = <<>> THEN "answer" ELSE "plan",
              !.models = Append(@, p.id), !.planned = PlannedFirst(r), !.reply = turn]

\* The next round of the loop.
ModelTurn ==
  LET r == [run EXCEPT !.turn = @ + 1] IN
  /\ run.step = "model"
  /\ IF run.turn = MAX_TURNS THEN Fail("MODEL_TURN_BUDGET_EXCEEDED")
     ELSE IF Estimate(r) + OUTPUT > CONTEXT THEN Fail("ACTIVE_CONTEXT_BUDGET_EXCEEDED")
     ELSE IF Routes(r) = {} THEN Fail("NO_COMPATIBLE_MODEL")
     ELSE Request(r)
  /\ UNCHANGED <<batch, stream>>

\* A final answer is published whole, or not at all.
FinalAnswer ==
  LET claims == run.reply.claims
      cited == Cited(claims) IN
  /\ run.step = "answer"
  /\ IF claims = <<>> THEN Fail("EMPTY_FINAL_ANSWER") /\ UNCHANGED stream
     ELSE IF ~AnswerValid(claims, run.available)
     THEN Fail("INVALID_EVIDENCE_ANSWER") /\ UNCHANGED stream
     ELSE \/ Fail("OUTPUT_BUDGET_EXCEEDED") /\ UNCHANGED stream
          \/ /\ run' = [run EXCEPT !.step = "answered", !.cited = cited,
                          !.cards = Cards(cited, run.shown)]
             /\ stream' = stream \o << <<"answer.started", 0>>, <<"answer.delta", 0>>,
                             <<"content.block", 0>>, <<"answer.completed", 0>>,
                             <<"conversation.completed", 0>> >>
  /\ UNCHANGED batch

-----------------------------------------------------------------------------
(* A batch of tool calls.                                                     *)

Quota == [tokens |-> RESULT_TOKENS - run.tokens,
          evidence |-> AtLeast(0, MAX_EVIDENCE - Len(run.available))]

\* The plan is rejected whole, or its executable calls start in threads.
Plan ==
  LET plan == run.reply.calls IN
  /\ run.step = "plan"
  /\ IF ~ToolsAllowed(run) THEN Fail("TOOL_CALL_OUTSIDE_BUDGET") /\ UNCHANGED batch
     ELSE IF Len(plan) > Planned(run)
     THEN Fail("TOOL_PLAN_BUDGET_EXCEEDED") /\ UNCHANGED batch
     ELSE IF Quota.tokens < FLOOR
     THEN Fail("TOOL_RESULT_BUDGET_EXCEEDED") /\ UNCHANGED batch
     ELSE IF PlanRejected(plan, Planned(run))
     THEN Fail("INVALID_TOOL_PLAN") /\ UNCHANGED batch
     ELSE /\ run' = [run EXCEPT !.step = "tools"]
          /\ batch' = [NoBatch EXCEPT !.plan = plan, !.pending = Prepared(plan),
               !.tokens = Quota.tokens, !.evidence = Quota.evidence,
               !.results = [i \in DOMAIN plan |->
                              Refused(plan[i], "REJECTED", Refusal(plan[i]))],
               !.threads = [i \in DOMAIN plan |->
                              [step |-> "new", result |-> Refused(plan[i], "", "")]]]
  /\ UNCHANGED stream

Call(i) == batch.plan[i]
Deadline(i) == Tools[Call(i).tool].timeout
Tokens(i) == TokenBudget(batch.plan, i, batch.tokens)
Evidence(i) == EvidenceBudget(batch.plan, i, batch.evidence)
Finish(i, result) ==
  batch' = [batch EXCEPT !.threads[i] = [step |-> "done", result |-> result]]

\* A thread starts; the news search first checks its share and its time.
Begin(i) ==
  /\ batch.threads[i].step = "new"
  /\ CASE IsNews(Call(i)) /\ Evidence(i) < 1 ->
            Finish(i, Refused(Call(i), "FAILED", "EVIDENCE_BUDGET_EXHAUSTED"))
       [] IsNews(Call(i)) /\ Evidence(i) >= 1 /\ batch.clock >= Deadline(i) ->
            Finish(i, Refused(Call(i), "TIMED_OUT", "TOOL_TIMEOUT"))
       [] OTHER ->
            batch' = [batch EXCEPT !.threads[i] = [step |-> "calling", result |-> @.result]]

\* It ends with a result, or an exception of its tool.
End(i) ==
  /\ batch.threads[i].step = "calling"
  /\ \/ Finish(i, Refused(Call(i), "FAILED", "TOOL_EXECUTION_FAILED"))
     \/ /\ IsNews(Call(i))
        /\ \E a \in Answers : Finish(i, NewsResult(Call(i), a, Evidence(i), Tokens(i)))
     \/ /\ ~IsNews(Call(i))
        /\ \E n \in Sizes : Finish(i, OtherResult(Call(i), n, Tokens(i)))

Thread(i) ==
  /\ i \in Prepared(batch.plan) /\ (Begin(i) \/ End(i))
  /\ UNCHANGED <<run, stream>>

Done == {i \in batch.pending : batch.threads[i].step = "done"}

\* wait(FIRST_COMPLETED) returns: what is done now is recorded, in the calls' order.
Wake ==
  /\ run.step = "tools" /\ batch.waiting /\ batch.pending # {}
  /\ Done # {} \/ \E i \in batch.pending : batch.clock >= Deadline(i)
  /\ batch' = [batch EXCEPT !.pending = @ \ Done, !.waiting = FALSE,
       !.results = [i \in DOMAIN @ |->
                      IF i \in Done THEN batch.threads[i].result ELSE @[i]]]
  /\ UNCHANGED <<run, stream>>

\* The clock is read again: what is late is given up, done meanwhile or not.
Expire ==
  LET late == {i \in batch.pending : batch.clock >= Deadline(i)} IN
  /\ ~batch.waiting
  /\ batch' = [batch EXCEPT !.pending = @ \ late, !.waiting = TRUE,
       !.results = [i \in DOMAIN @ |->
                      IF i \in late THEN Refused(Call(i), "TIMED_OUT", "TOOL_TIMEOUT")
                      ELSE @[i]]]
  /\ UNCHANGED <<run, stream>>

\* Bound: the clock of a batch stops one tick after the last deadline.
Tick ==
  /\ run.step = "tools" /\ \E i \in Prepared(batch.plan) : batch.clock <= Deadline(i)
  /\ batch' = [batch EXCEPT !.clock = @ + 1]
  /\ UNCHANGED <<run, stream>>

-----------------------------------------------------------------------------
(* The settled batch enters the turn.                                         *)

\* A sequence's elements at their first places.
Distinct(s) ==
  FlattenSeq([k \in DOMAIN s |->
                IF \E j \in 1..k - 1 : s[j] = s[k] THEN <<>> ELSE <<s[k]>>])

SpentOf(results) == Total(Len(results), [i \in DOMAIN results |-> results[i].tokens])
Found(results) == FlattenSeq([i \in DOMAIN results |-> results[i].evidence])
IsShown(result) == result.status = "SUCCEEDED" /\ IsNews(result)

\* The call's place and the attempt make its public identity; an unknown tool has
\* no version to show.
PublicOfRound(i) == <<run.rounds, i>>
Public(i) == <<run.attempt, run.rounds, i>>
ProgressOf(i, result) ==
  IF result.code = "UNKNOWN_TOOL" THEN <<>>
  ELSE << <<"tool.started", Public(i)>>,
          <<IF result.status = "SUCCEEDED" THEN "tool.completed" ELSE "tool.failed",
            Public(i)>> >>
Progress(results) == FlattenSeq([i \in DOMAIN results |-> ProgressOf(i, results[i])])

\* function_response_content: one response for each call, with its identity.
Responses(calls, results) ==
  [role |-> "user",
   parts |-> [i \in DOMAIN calls |-> [kind |-> "response", call |-> calls[i],
                                      claims |-> <<>>, result |-> results[i]]]]

Absorbed(results) ==
  LET shown == SelectSeq(results, IsShown) IN
  [run EXCEPT !.step = "model", !.calls = @ + Len(results), !.rounds = @ + 1,
    !.tokens = @ + SpentOf(results),
    !.available = Distinct(@ \o Found(results)),
    !.shown = Distinct(@ \o Found(shown)),
    !.receipts = Append(@, results),
    !.contents = @ \o << [role |-> "model", parts |-> run.reply.content],
                         Responses(batch.plan, results) >>]

Settle ==
  LET results == batch.results
      after == Absorbed(results)
      progress == Progress(results)
      events == stream \o progress IN
  /\ run.step = "tools" /\ batch.waiting /\ batch.pending = {}
  /\ IF after.tokens > RESULT_TOKENS
     THEN /\ run' = [after EXCEPT !.step = "failed", !.code = "TOOL_RESULT_BUDGET_EXCEEDED"]
          /\ UNCHANGED stream
     ELSE IF Len(after.available) > MAX_EVIDENCE
     THEN /\ run' = [after EXCEPT !.step = "failed", !.code = "EVIDENCE_BUDGET_EXCEEDED"]
          /\ UNCHANGED stream
     ELSE IF ~Accepts(events) THEN Fail("CHAT_MACHINE_WRITE_REJECTED") /\ UNCHANGED stream
     ELSE \/ run' = after /\ stream' = events
          \/ /\ Fail("REMOTE_DEPENDENCY_UNAVAILABLE")
             /\ \E n \in 0..Len(progress) :
                  /\ n % POSTED = 0 \/ n = Len(progress)
                  /\ stream' = stream \o SubSeq(progress, 1, n)
  /\ UNCHANGED batch

-----------------------------------------------------------------------------
(* What a provider is sent.                                                   *)

\* final_answer_json_schema, which constrains a request that offers no tools.
SchemaAdmits(claims, available) ==
  /\ Len(claims) \in 1..MAX_CLAIMS
  /\ \A i \in DOMAIN claims :
       IF available = <<>> THEN claims[i] = <<>>
       ELSE /\ Len(claims[i]) \in 1..AtMost(AtMost(MAX_PER_CLAIM, AtLeast(1, MAX_EVIDENCE)),
                                           Len(available))
            /\ ToSet(claims[i]) \subseteq ToSet(available)

\* ollama_openai_payload: a message for each content, or for each of its responses.
Said(content) ==
  LET calls == OfKind(content.parts, "call")
      responses == OfKind(content.parts, "response")
  IN IF responses # <<>>
     THEN [i \in DOMAIN responses |-> [role |-> "tool", ids |-> {responses[i].call.id}]]
     ELSE << [role |-> IF content.role = "model" THEN "assistant" ELSE "user",
              ids |-> {calls[i].call.id : i \in DOMAIN calls}] >>
Messages(contents) == FlattenSeq([k \in DOMAIN contents |-> Said(contents[k])])

-----------------------------------------------------------------------------
\* The attempt is given back: the turn is claimed again, or fails for good.
GiveBack ==
  /\ run.step = "failed"
  /\ IF run.attempt < ATTEMPTS
     THEN run' = Begun(run.attempt + 1) /\ UNCHANGED stream
     ELSE run' = [run EXCEPT !.step = "over"] /\ stream' = Append(stream, <<"error", 0>>)
  /\ batch' = NoBatch

AgentInit ==
  /\ run = Begun(1) /\ batch = NoBatch
  /\ stream = << <<"conversation.started", 0>> >>

AgentNext ==
  \/ Prepare \/ ModelTurn \/ FinalAnswer \/ Plan \/ Wake \/ Expire \/ Tick \/ Settle \/ GiveBack
  \/ \E i \in DOMAIN batch.threads : Thread(i)

AgentSpec == AgentInit /\ [][AgentNext]_agentVars

-----------------------------------------------------------------------------
\* However calls are refused, fail, time out or fill their shares, an attempt stays
\* within its calls, its result tokens and its evidence: dividing what is left among
\* the calls of a batch bounds their sum, so that the checks after a batch never
\* fail, and the loop never ends without an answer or a cause.
BudgetsKept ==
  /\ run.calls <= MAX_CALLS /\ run.rounds <= MAX_ROUNDS
  /\ run.tokens <= RESULT_TOKENS /\ Len(run.available) <= MAX_EVIDENCE
  /\ run.code \notin {"EVIDENCE_BUDGET_EXCEEDED", "MODEL_TURN_BUDGET_EXCEEDED"}

\* "every cited evidence ID came from the retrieved packet for that turn": what an
\* answer cites was received by the turn's cutoff, was in a result the model was
\* sent, and has a card while there is room; with evidence at hand it cites some.
AnswerGrounded ==
  LET results == ToSet(FlattenSeq(run.receipts))
      packets == UNION {ToSet(r.evidence) : r \in {x \in results : x.status = "SUCCEEDED"}}
  IN run.step = "answered" =>
       /\ run.cited \subseteq packets
       /\ \A e \in run.cited : NewsItems[e].at <= CUTOFF
       /\ packets # {} => run.cited # {}
       /\ ToSet(run.cards) \subseteq run.cited
       /\ Len(run.cards) = AtMost(MAX_CARDS, Cardinality(run.cited))

\* "every functionResponse MUST match that ID", in either provider's form: the tool
\* messages after an assistant message answer exactly its calls, and nothing else
\* follows one before they do.
HistoryMatched ==
  LET said == Messages(run.contents) IN
  \A k \in DOMAIN said : said[k].role = "assistant" =>
    LET n == Cardinality(said[k].ids) IN
    /\ k + n <= Len(said)
    /\ said[k].ids = UNION {said[j].ids : j \in k + 1..k + n}
    /\ \A j \in k + 1..k + n : said[j].role = "tool"
    /\ k + n < Len(said) => said[k + n + 1].role # "tool"

\* "The selected model is fixed for one native sequence", and can hold each request.
ModelFixed ==
  \A i \in DOMAIN run.models :
    /\ run.models[i] = run.models[1]
    /\ run.step \notin {"model", "failed", "over"} =>
         \E p \in ToSet(Profiles) : p.id = run.models[i] /\ Estimate(run) + OUTPUT <= p.limit

\* An answer the schema admits is not refused, unless it repeats a citation.
SchemaSuffices ==
  \A reply \in Replies :
    LET claims == Decoded(Profiles[1], reply).claims IN
    /\ SchemaAdmits(claims, run.available)
    /\ \A i \in DOMAIN claims : Cardinality(ToSet(claims[i])) = Len(claims[i])
    => AnswerValid(claims, run.available)

\* Over all attempts the turn's events are in an order the protocol accepts.
StreamAccepted == Accepts(stream) /\ run.code # "CHAT_MACHINE_WRITE_REJECTED"

RunSound ==
  AnswerGrounded /\ HistoryMatched /\ ModelFixed /\ SchemaSuffices /\ StreamAccepted
=============================================================================
