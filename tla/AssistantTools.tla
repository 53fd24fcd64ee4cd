--------------------------- MODULE AssistantTools ---------------------------
(********************************************************************************)
(* What surrounds the tool loop of an assistant turn: the models it may be      *)
(* routed to, the registered read-only tools, how a batch's budgets are divided *)
(* among its calls, the news search that adapts the web application's archive,  *)
(* and the check of the answer's citations.  The worker registers the news      *)
(* search alone; the registry and the loop are written for any tools.           *)
(*                                                                              *)
(* A call is [id, tool, valid]: valid says that its arguments satisfy the       *)
(* tool's schema.  A result is [id, tool, status, code, tokens, evidence].      *)
(* Tokens are the bytes the code counts as a conservative estimate of them.     *)
(* Sources: assistant/tools.py, routing.py, evidence.py, content.py.            *)
(********************************************************************************)
EXTENDS Integers, SequencesExt

CONSTANTS
  Profiles,    \* enabled models: sequence of [id, limit, large, calls, thinking, local]
  Reasoning,   \* class of the owner's text: "SIMPLE" or "ANALYTICAL"
  Tools,       \* by name: [capability, tokens, timeout]
  Allowed,     \* capabilities of the actor
  CallIds,     \* well-formed call identities
  NewsItems,   \* by evidence id: [at, size]
  CUTOFF,      \* received-time cutoff of the turn
  ENVELOPE,    \* tokens of a news result without items
  OUTPUT,      \* max_output_tokens
  MAX_EVIDENCE, MAX_PER_CLAIM, MAX_CLAIMS, NEWS_PAGE, MAX_CARDS

FLOOR == 32            \* least max_total_result_tokens of a batch
MAX_BATCH == 16        \* MAX_ASSISTANT_TOOL_CALLS_PER_ROUND
MAX_CANDIDATES == 8    \* MAX_ASSISTANT_MODEL_CANDIDATES

AtMost(a, b) == IF a < b THEN a ELSE b
AtLeast(a, b) == IF a < b THEN b ELSE a

\* The sum of f over 1..n.
Total(n, f) == LET sum[k \in 0..n] == IF k = 0 THEN 0 ELSE sum[k - 1] + f[k] IN sum[n]

\* validate_definition: every definition is bounded.
ValidRegistry ==
  /\ IsFiniteSet(DOMAIN Tools)
  /\ \A t \in DOMAIN Tools :
       /\ Tools[t].capability \in {"NEWS_RETRIEVAL", "MARKET_DATA_READ", "CALENDAR_READ"}
       /\ Tools[t].tokens \in Nat /\ Tools[t].tokens >= FLOOR
       /\ Tools[t].timeout \in Nat \ {0}
Authorized == {t \in DOMAIN Tools : Tools[t].capability \in Allowed}

ValidProfiles ==
  /\ Len(Profiles) \in 1..32
  /\ \A i \in DOMAIN Profiles :
       /\ Profiles[i].limit \in Nat
       /\ {Profiles[i].large, Profiles[i].calls, Profiles[i].thinking} \subseteq BOOLEAN
  /\ \A i, j \in DOMAIN Profiles : Profiles[i].id = Profiles[j].id => i = j

-----------------------------------------------------------------------------
(* The model route.                                                           *)

Classified(planned) == IF planned > 1 THEN "TOOL_HEAVY" ELSE Reasoning

\* plan_assistant_route: the profiles that fit, in the order of preference.
Candidates(profiles, input, planned) ==
  LET simple == Classified(planned) = "SIMPLE"
      Fits(p) == /\ p.limit >= input + OUTPUT
                 /\ planned > 0 => p.calls
                 /\ ~simple => p.thinking
      Small(p) == Fits(p) /\ ~p.large
      Large(p) == Fits(p) /\ p.large
      preferred == IF simple THEN SelectSeq(profiles, Small) \o SelectSeq(profiles, Large)
                   ELSE SelectSeq(profiles, Large)
  IN SubSeq(preferred, 1, AtMost(MAX_CANDIDATES, Len(preferred)))

-----------------------------------------------------------------------------
(* Results and the preparation of a batch.                                    *)

Refused(call, status, code) ==
  [id |-> call.id, tool |-> call.tool, status |-> status, code |-> code,
   tokens |-> 0, evidence |-> <<>>]
Succeeded(call, tokens, evidence) ==
  [id |-> call.id, tool |-> call.tool, status |-> "SUCCEEDED", code |-> "",
   tokens |-> tokens, evidence |-> evidence]

\* A plan that is refused whole, before any of its calls runs.
PlanRejected(plan, parallel) ==
  \/ Len(plan) > AtMost(MAX_BATCH, parallel)
  \/ \E i \in DOMAIN plan : plan[i].id \notin CallIds
  \/ \E i, j \in DOMAIN plan : i # j /\ plan[i].id = plan[j].id

\* Why a call of an accepted plan is not executed.
Refusal(call) ==
  IF call.tool \notin DOMAIN Tools THEN "UNKNOWN_TOOL"
  ELSE IF Tools[call.tool].capability \notin Allowed THEN "TOOL_NOT_AUTHORIZED"
  ELSE IF ~call.valid THEN "INVALID_TOOL_ARGUMENTS" ELSE ""

IsNews(call) ==
  call.tool \in DOMAIN Tools /\ Tools[call.tool].capability = "NEWS_RETRIEVAL"
Prepared(plan) == {i \in DOMAIN plan : Refusal(plan[i]) = ""}
NewsCalls(plan) == {i \in DOMAIN plan : IsNews(plan[i])}

\* The share of the one at this place of those among which the total is divided.
Share(total, among, i) ==
  total \div Cardinality(among)
    + IF Cardinality({j \in among : j < i}) < total % Cardinality(among) THEN 1 ELSE 0
TokenBudgetUndivided(plan, i, total) == AtMost(Tools[plan[i].tool].tokens, total)
TokenBudget(plan, i, total) ==
  AtMost(Tools[plan[i].tool].tokens, Share(total, Prepared(plan), i))
\* Refused news calls take a share of the evidence, too.
EvidenceBudget(plan, i, total) ==
  IF IsNews(plan[i]) THEN Share(total, NewsCalls(plan), i) ELSE 0

-----------------------------------------------------------------------------
(* The news search.                                                           *)

Weight(rows, n) ==
  ENVELOPE + Total(n, [i \in 1..n |-> NewsItems[rows[i]].size])

\* The packet without its last rows, as many as its budget holds.
Fitting(rows, budget) ==
  Cardinality({n \in 1..Len(rows) : Weight(rows, n) <= budget})

\* What the adapter makes of an answer [rows, complete, cutoff] of the web
\* application, and the registry of the adapter's output.
NewsResult(call, answer, evidence, budget) ==
  LET n == Fitting(answer.rows, budget) IN
  IF Len(answer.rows) > AtMost(NEWS_PAGE, evidence) \/ ~answer.complete
  THEN Refused(call, "FAILED", "AUTHORITATIVE_NEWS_RETRIEVAL_REQUIRED")
  ELSE IF answer.cutoff # CUTOFF
  THEN Refused(call, "FAILED", "NEWS_RETRIEVAL_PROVENANCE_MISMATCH")
  ELSE IF Weight(answer.rows, n) > budget \/ (n = 0 /\ answer.rows # <<>>)
  THEN Refused(call, "FAILED", "TOOL_RESULT_BUDGET_EXCEEDED")
  ELSE Succeeded(call, Weight(answer.rows, n), SubSeq(answer.rows, 1, n))

\* Any other tool: its output is measured, and brings no evidence.
OtherResult(call, tokens, budget) ==
  IF tokens > budget THEN Refused(call, "FAILED", "TOOL_RESULT_BUDGET_EXCEEDED")
  ELSE Succeeded(call, tokens, <<>>)

-----------------------------------------------------------------------------
(* The answer: a sequence of claims, each the sequence of ids it cites.       *)

Cited(claims) == UNION {ToSet(claims[i]) : i \in DOMAIN claims}

\* validate_assistant_evidence_claims: with evidence every claim cites some of it,
\* without there are no citations.
AnswerValid(claims, available) ==
  /\ Len(claims) \in 1..MAX_CLAIMS
  /\ Cardinality(Cited(claims)) <= AtLeast(1, MAX_EVIDENCE)
  /\ \A i \in DOMAIN claims :
       /\ Len(claims[i]) <= MAX_PER_CLAIM
       /\ Cardinality(ToSet(claims[i])) = Len(claims[i])
       /\ IF available = <<>> THEN claims[i] = <<>>
          ELSE claims[i] # <<>> /\ ToSet(claims[i]) \subseteq ToSet(available)

\* build_assistant_content_document: a card for each cited item, up to a maximum.
Cards(cited, shown) ==
  LET IsCited(e) == e \in cited
      chosen == SelectSeq(shown, IsCited)
  IN SubSeq(chosen, 1, AtMost(MAX_CARDS, Len(chosen)))
=============================================================================
