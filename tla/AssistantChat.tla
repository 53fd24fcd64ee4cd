--------------------------- MODULE AssistantChat ---------------------------
(********************************************************************************)
(* The queue of chat turns.  An owner sends and cancels turns; workers claim    *)
(* them under a lease, publish progress events, and complete or fail them.      *)
(* Every request of the control plane reads, decides, and then runs one         *)
(* guarded batch, so requests interleave between the two.  An answer may be     *)
(* lost: the worker goes on while its request still runs.                       *)
(* Sources: web assistant-chat.ts, assistant-events.ts, the triggers of         *)
(* drizzle/0011 and 0012, and assistant/chat_worker.py.  What a stream accepts  *)
(* is AssistantEvents, what happens inside an attempt AssistantAgent.           *)
(*                                                                              *)
(* A turn is named by <<owner, key>>, unique in the table.  The lease token is  *)
(* the number of the attempt that drew it: claims draw a fresh one.  Answer     *)
(* deltas are one event, content blocks are left out.                           *)
(********************************************************************************)
EXTENDS AssistantEvents, FiniteSets

CONSTANTS
  Requests,  \* sends: [owner, key, to, text], "to" is "new" or a conversation
  Workers,
  PerOwner, Global, Rate,   \* admission limits
  TTL, LEASE, BACKOFF,      \* turnTtlMs, leaseMs, the first retry delay, in ticks
  MAX_ATTEMPTS,
  SendUntil, LastTick,      \* bounds: last tick of a send, last tick
  MaxFaults                 \* bound: lost answers and crashes

VARIABLES
  turn,      \* assistant_turn_jobs: record by name
  stream,    \* assistant_turn_events: sequence by name
  message,   \* turns that have an ASSISTANT row in assistant_messages
  worker,    \* per worker: local variables of run_assistant_chat_worker
  calls,     \* requests inside the control plane
  told,      \* history: turns whose owner was told they are cancelled
  now, faults

chatVars == <<turn, stream, message, worker, calls, told, now, faults>>

None == <<>>
Off == [step |-> "idle", turn |-> None, token |-> 0, at |-> 0, rows |-> {}]
Active == {"PENDING", "PROCESSING"}
Ended == {"ANSWERED", "FAILED", "EXPIRED", "CANCELLED"}
Names == {<<r.owner, r.key>> : r \in Requests}
Turns == DOMAIN turn
Holds(events, e) == \E i \in DOMAIN events : events[i] = e
Least(a, b) == IF a < b THEN a ELSE b

\* A lease starts or is renewed, but not past the end of the turn.
Lease(row, at) == Least(at + LEASE, row.expires)

\* The row a worker's request must find: its own live lease.
Held(n, token, at) ==
  /\ turn[n].status = "PROCESSING"
  /\ turn[n].token = token
  /\ turn[n].until > at

-----------------------------------------------------------------------------
\* The events a worker's request carries, as the attempt builds them.
Drafts(op, token) ==
  CASE op = "REASON" -> << <<"reasoning.started", token>> >>
    [] op = "TOOLS" -> << <<"tool.started", token>>, <<"tool.completed", token>> >>
    [] op = "COMPLETE" -> << <<"answer.started", token>>, <<"answer.delta", token>>,
                            <<"answer.completed", token>>,
                            <<"conversation.completed", token>> >>

-----------------------------------------------------------------------------
(* createAssistantChatTurn: the reads before and after its batch decide only   *)
(* the answer; the batch is refused whole unless the turn was admitted.          *)

Conversation(r) == IF r.to = "new" THEN <<r.owner, r.key>> ELSE r.to
Admitted(r) ==
  LET live == {n \in Turns : turn[n].status \in Active} IN
  /\ Cardinality({n \in live : n[1] = r.owner}) < PerOwner
  /\ Cardinality(live) < Global
  /\ Cardinality({n \in Turns : n[1] = r.owner /\ turn[n].created >= now - 1}) < Rate
  /\ \A n \in live : turn[n].conv # Conversation(r)

Send(r) ==
  LET n == <<r.owner, r.key>> IN
  /\ now <= SendUntil
  /\ n \notin Turns
  /\ r.to # "new" => \E m \in Turns : turn[m].conv = r.to /\ m[1] = r.owner
  /\ Admitted(r)
  /\ turn' = [m \in Turns \cup {n} |-> IF m # n THEN turn[m] ELSE
       [status |-> "PENDING", conv |-> Conversation(r), available |-> now, created |-> now,
        expires |-> now + TTL, token |-> 0, until |-> 0, attempts |-> 0]]
  /\ stream' = [m \in Turns \cup {n} |->
                 IF m = n THEN << <<"conversation.started", 0>> >> ELSE stream[m]]
  /\ UNCHANGED <<message, worker, calls, told, now, faults>>

-----------------------------------------------------------------------------
(* Batches.                                                                  *)

Loose(row) == [row EXCEPT !.token = 0, !.until = 0]

\* terminalizeTurn: its event, then the status, both at the sequence it read.
Terminalize(n, status, seq) ==
  IF turn[n].status \in Active /\ Len(stream[n]) = seq
  THEN /\ turn' = [turn EXCEPT ![n] = [Loose(@) EXCEPT !.status = status]]
       /\ stream' = [stream EXCEPT ![n] =
            Append(@, <<IF status = "CANCELLED" THEN "cancelled" ELSE "error", 0>>)]
  ELSE UNCHANGED <<turn, stream>>

RetryAnyHolder(n, token, at) ==
  IF turn[n].status = "PROCESSING"
  THEN turn' = [turn EXCEPT ![n] = [Loose(@) EXCEPT
         !.status = "PENDING", !.available = at + BACKOFF * 2 ^ (token - 1)]]
  ELSE UNCHANGED turn

\* failAssistantChatTurn after its read: the retry is guarded by the token alone.
Retry(n, token, at) ==
  IF turn[n].status = "PROCESSING" /\ turn[n].token = token
  THEN turn' = [turn EXCEPT ![n] = [Loose(@) EXCEPT
         !.status = "PENDING", !.available = at + BACKOFF * 2 ^ (token - 1)]]
  ELSE UNCHANGED turn

\* What a recovery or a failure makes of the row it read.
Verdict(row, at) ==
  CASE row.expires <= at -> "EXPIRED"
    [] row.expires > at /\ row.attempts >= MAX_ATTEMPTS -> "FAILED"
    [] OTHER -> "RETRY"

-----------------------------------------------------------------------------
(* claimAssistantChatTurn: recovery of stale rows, one batch each, and a claim. *)

StaleLeases(at) == {n \in Turns : turn[n].status = "PROCESSING" /\ turn[n].until <= at}
Stale(at) ==
  {n \in Turns : \/ turn[n].status = "PENDING" /\ turn[n].expires <= at
                 \/ turn[n].status = "PROCESSING" /\ turn[n].until <= at}
Claimable(n, at) ==
  /\ turn[n].status = "PENDING"
  /\ turn[n].available <= at
  /\ turn[n].expires > at
  /\ turn[n].attempts < MAX_ATTEMPTS

Poll(w) ==
  /\ worker[w].step = "idle"
  /\ Stale(now) # {} \/ \E n \in Turns : Claimable(n, now)
  /\ worker' = [worker EXCEPT ![w] = [Off EXCEPT !.step = "claim", !.at = now,
       !.rows = {<<n, Len(stream[n]), Verdict(turn[n], now)>> : n \in Stale(now)}]]
  /\ UNCHANGED <<turn, stream, message, calls, told, now, faults>>

\* The row goes back only if its lease is still the expired one.
Release(n, at) ==
  IF turn[n].status = "PROCESSING" /\ turn[n].until <= at
  THEN turn' = [turn EXCEPT ![n] = [Loose(@) EXCEPT
                 !.status = "PENDING", !.available = at]]
  ELSE UNCHANGED turn

Recover(w) ==
  \E r \in worker[w].rows :
    /\ worker[w].step = "claim"
    /\ worker' = [worker EXCEPT ![w].rows = @ \ {r}]
    /\ IF r[3] = "RETRY"
       THEN Release(r[1], worker[w].at) /\ UNCHANGED stream
       ELSE Terminalize(r[1], r[3], r[2])
    /\ UNCHANGED <<message, calls, told, now, faults>>

Claim(w) ==
  LET at == worker[w].at
      open == {n \in Turns : Claimable(n, at)} IN
  /\ worker[w].step = "claim" /\ worker[w].rows = {}
  /\ IF open = {} THEN worker' = [worker EXCEPT ![w] = Off] /\ UNCHANGED turn
     ELSE \E n \in open :
       /\ \A m \in open : turn[n].created <= turn[m].created
       /\ turn' = [turn EXCEPT ![n].status = "PROCESSING",
            ![n].attempts = @ + 1, ![n].token = turn[n].attempts + 1,
            ![n].until = Lease(turn[n], at)]
       /\ worker' = [worker EXCEPT ![w] = [Off EXCEPT
            !.step = IF Len(stream[n]) = 1 THEN "reason" ELSE "model",
            !.turn = n, !.token = turn[n].attempts + 1]]
  /\ UNCHANGED <<stream, message, calls, told, now, faults>>

-----------------------------------------------------------------------------
(* The worker's attempt.                                                     *)

Waiting(w) == \E c \in calls : c.by = w /\ ~c.late
Busy(w) == worker[w].step \notin {"idle", "claim"} /\ ~Waiting(w)
Request(w, op) == [by |-> w, op |-> op, turn |-> worker[w].turn, token |-> worker[w].token,
                   stage |-> "sent", at |-> 0, seq |-> 0, verdict |-> "",
                   late |-> FALSE]
Post(w, op) ==
  /\ calls' = calls \cup {Request(w, op)}
  /\ UNCHANGED <<turn, stream, message, worker, told, now, faults>>

Reason(w) == Busy(w) /\ worker[w].step = "reason" /\ Post(w, "REASON")
Tools(w) == Busy(w) /\ worker[w].step = "tools" /\ Post(w, "TOOLS")
Answer(w) == Busy(w) /\ worker[w].step = "answer" /\ Post(w, "COMPLETE")
GiveBack(w) == Busy(w) /\ worker[w].step = "failing" /\ Post(w, "FAIL")

\* renewAssistantChatTurn, then a model attempt: tools (one round), an answer, or
\* an error.  One UPDATE, so it is a single step.
Model(w) ==
  LET n == worker[w].turn
      token == worker[w].token
      held == Held(n, token, now) /\ turn[n].expires > now IN
  /\ Busy(w) /\ worker[w].step = "model"
  /\ turn' = IF held THEN [turn EXCEPT ![n].until = Lease(turn[n], now)]
             ELSE turn
  /\ \E next \in {"tools", "answer", "failing"} :
       /\ ~held => next = "failing"
       /\ next = "tools" => ~Holds(stream[n], <<"tool.started", token>>)
       /\ worker' = [worker EXCEPT ![w].step = next]
  /\ UNCHANGED <<stream, message, calls, told, now, faults>>

\* The context could not be built; later errors are outcomes of Model.
Raise(w) ==
  /\ Busy(w) /\ worker[w].step = "reason"
  /\ worker' = [worker EXCEPT ![w].step = "failing"]
  /\ UNCHANGED <<turn, stream, message, calls, told, now, faults>>

\* What the worker does with the answer of its request.
After(op, ok) ==
  CASE op \in {"REASON", "TOOLS"} -> IF ok THEN "model" ELSE "failing"
    [] op = "COMPLETE" -> IF ok THEN "idle" ELSE "failing"
    [] op = "FAIL" -> "idle"

Return(c, ok) ==
  /\ calls' = calls \ {c}
  /\ told' = IF c.op = "CANCEL" /\ ok THEN told \cup {c.turn} ELSE told
  /\ worker' = IF c.late \/ c.op = "CANCEL" THEN worker
               ELSE [worker EXCEPT ![c.by] =
                      IF After(c.op, ok) = "idle" THEN Off
                      ELSE [@ EXCEPT !.step = After(c.op, ok)]]

\* The worker stops waiting; the request may still run.  A failed FAIL ends the run.
GiveUp(w) ==
  \E c \in calls :
    /\ c.by = w /\ ~c.late /\ faults < MaxFaults
    /\ faults' = faults + 1
    /\ calls' = (calls \ {c}) \cup {[c EXCEPT !.late = TRUE]}
    /\ worker' = [worker EXCEPT ![w] =
         IF c.op = "FAIL" THEN Off ELSE [@ EXCEPT !.step = "failing"]]
    /\ UNCHANGED <<turn, stream, message, told, now>>

Crash(w) ==
  /\ worker[w].step # "idle" /\ faults < MaxFaults
  /\ faults' = faults + 1
  /\ worker' = [worker EXCEPT ![w] = Off]
  /\ calls' = {IF c.by = w THEN [c EXCEPT !.late = TRUE] ELSE c : c \in calls}
  /\ UNCHANGED <<turn, stream, message, told, now>>

-----------------------------------------------------------------------------
(* The control plane: a request reads its row and decides ...                  *)

\* The keys of the batch are stored: the request is a replay.
Replayed(c) == Holds(stream[c.turn], Head(Drafts(c.op, c.token)))
Proceed(c) ==
  /\ calls' = (calls \ {c}) \cup {[c EXCEPT !.stage = "read", !.at = now,
                                    !.seq = Len(stream[c.turn]),
                                    !.verdict = Verdict(turn[c.turn], now)]}
  /\ UNCHANGED <<worker, told>>

ReadEvents(c) ==
  CASE ~Held(c.turn, c.token, now) -> Return(c, FALSE)
    [] Held(c.turn, c.token, now) /\ Replayed(c) -> Return(c, TRUE)
    [] OTHER -> IF Accepts(stream[c.turn] \o Drafts(c.op, c.token))
                THEN Proceed(c) ELSE Return(c, FALSE)

ReadComplete(c) ==
  IF Held(c.turn, c.token, now) /\ Accepts(stream[c.turn] \o Drafts(c.op, c.token))
  THEN Proceed(c) ELSE Return(c, FALSE)

ReadFail(c) == IF Held(c.turn, c.token, now) THEN Proceed(c) ELSE Return(c, FALSE)

\* cancelOwnerAssistantChatTurn: a cancelled turn is answered again.
ReadCancel(c) ==
  IF turn[c.turn].status \in Active THEN Proceed(c)
  ELSE Return(c, turn[c.turn].status = "CANCELLED")

Read(c) ==
  /\ c.stage = "sent"
  /\ CASE c.op \in {"REASON", "TOOLS"} -> ReadEvents(c)
       [] c.op = "COMPLETE" -> ReadComplete(c)
       [] c.op = "FAIL" -> ReadFail(c)
       [] c.op = "CANCEL" -> ReadCancel(c)
  /\ UNCHANGED <<turn, stream, message, now, faults>>

Cancel(n) ==
  /\ turn[n].status \in Active \cup {"CANCELLED"}
  /\ \A c \in calls : c.op # "CANCEL"
  /\ calls' = calls \cup {[by |-> "owner", op |-> "CANCEL", turn |-> n, token |-> 0,
                           stage |-> "sent", at |-> 0, seq |-> 0, verdict |-> "",
                           late |-> FALSE]}
  /\ UNCHANGED <<turn, stream, message, worker, told, now, faults>>

(* ... and then runs its batch.                                               *)

CommitEventsAsRead(c) ==
  /\ stream' = [stream EXCEPT ![c.turn] = @ \o Drafts(c.op, c.token)]
  /\ Return(c, TRUE)
  /\ UNCHANGED <<turn, message>>

CommitEvents(c) ==
  LET ok == Held(c.turn, c.token, c.at) /\ Len(stream[c.turn]) = c.seq IN
  /\ stream' = IF ok THEN [stream EXCEPT ![c.turn] = @ \o Drafts(c.op, c.token)]
               ELSE stream
  /\ Return(c, ok)
  /\ UNCHANGED <<turn, message>>

\* The message row is guarded by the lease, the events and the status by the
\* sequence as well; a second message makes the canonical trigger abort the batch.
CommitComplete(c) ==
  LET held == Held(c.turn, c.token, c.at) /\ c.turn \notin message
      ok == held /\ Len(stream[c.turn]) = c.seq IN
  /\ message' = IF held THEN message \cup {c.turn} ELSE message
  /\ stream' = IF ok THEN [stream EXCEPT ![c.turn] = @ \o Drafts(c.op, c.token)]
               ELSE stream
  /\ turn' = IF ok THEN [turn EXCEPT ![c.turn] = [Loose(@) EXCEPT !.status = "ANSWERED"]]
             ELSE turn
  /\ Return(c, ok)

CommitFail(c) ==
  /\ IF c.verdict = "RETRY" THEN Retry(c.turn, c.token, c.at) /\ UNCHANGED stream
     ELSE Terminalize(c.turn, c.verdict, c.seq)
  /\ Return(c, turn' # turn)
  /\ UNCHANGED message

CommitCancel(c) ==
  /\ Terminalize(c.turn, "CANCELLED", c.seq)
  /\ Return(c, turn' # turn)
  /\ UNCHANGED message

Commit(c) ==
  /\ c.stage = "read"
  /\ CASE c.op \in {"REASON", "TOOLS"} -> CommitEvents(c)
       [] c.op = "COMPLETE" -> CommitComplete(c)
       [] c.op = "FAIL" -> CommitFail(c)
       [] c.op = "CANCEL" -> CommitCancel(c)
  /\ UNCHANGED <<now, faults>>

\* A request of the control plane spans at most one tick (half a lease at least);
\* on its way to it, it may be delayed for ever.
Tick ==
  /\ now < LastTick
  /\ \A c \in calls : c.stage = "read" => c.at = now
  /\ \A w \in Workers : worker[w].step = "claim" => worker[w].at = now
  /\ now' = now + 1
  /\ UNCHANGED <<turn, stream, message, worker, calls, told, faults>>

-----------------------------------------------------------------------------
Init ==
  /\ turn = [n \in {} |-> None] /\ stream = [n \in {} |-> None]
  /\ message = {} /\ told = {} /\ calls = {}
  /\ worker = [w \in Workers |-> Off]
  /\ now = 0 /\ faults = 0

Attempt(w) == Reason(w) \/ Model(w) \/ Tools(w) \/ Answer(w) \/ GiveBack(w)
Serve(b) == \E c \in calls : c.by = b /\ (Read(c) \/ Commit(c))
Queue(w) == Poll(w) \/ Recover(w) \/ Claim(w)

Next ==
  \/ \E r \in Requests : Send(r)
  \/ \E n \in Turns : Cancel(n)
  \/ \E w \in Workers : Queue(w) \/ Attempt(w) \/ Raise(w) \/ GiveUp(w) \/ Crash(w)
  \/ \E b \in Workers \cup {"owner"} : Serve(b)
  \/ Tick

Spec == Init /\ [][Next]_chatVars

\* Time passes, requests return or time out, and the worker task keeps polling.
FairSpec ==
  /\ Spec
  /\ WF_chatVars(Tick)
  /\ \A b \in Workers \cup {"owner"} : WF_chatVars(Serve(b))
  /\ \A w \in Workers : WF_chatVars(Queue(w)) /\ WF_chatVars(Attempt(w))

-----------------------------------------------------------------------------
\* Every row, event list, message and local variable keeps its shape, and a lease
\* never outlives its turn.
TypeOK ==
  /\ Turns \subseteq Names /\ DOMAIN stream = Turns /\ message \cup told \subseteq Turns
  /\ \A n \in Turns :
       /\ turn[n].status \in Active \cup Ended
       /\ turn[n].attempts \in 0..MAX_ATTEMPTS /\ turn[n].token \in 0..turn[n].attempts
       /\ turn[n].until <= turn[n].expires
       /\ turn[n].status = "PROCESSING" <=> turn[n].token # 0
  /\ \A w \in Workers :
       worker[w].step \in {"idle", "claim", "reason", "model", "tools", "answer", "failing"}
  /\ now \in 0..LastTick /\ faults \in 0..MaxFaults

Types(n) == [i \in DOMAIN stream[n] |-> stream[n][i][1]]
Terminals == {"error", "cancelled", "conversation.completed"}

\* The replayed stream of a turn starts once, closes each tool call it opened before
\* the answer, reports reasoning once, and nothing follows its only terminal event
\* (docs/specs/ASSISTANT_BEHAVIOR.md, the event protocol).
StreamClosed ==
  \A n \in Turns : LET s == Types(n) IN
    /\ s[1] = "conversation.started"
    /\ \A e \in {"conversation.started", "reasoning.started", "answer.started"} :
         Cardinality({i \in DOMAIN s : s[i] = e}) <= 1
    /\ \A i \in DOMAIN s : s[i] \in Terminals => i = Len(s)
    /\ \A i \in DOMAIN s : s[i] = "tool.started" =>
         \E j \in i + 1..Len(s) : s[j] = "tool.completed" /\ stream[n][j] = <<s[j], stream[n][i][2]>>
    /\ \A i, j \in DOMAIN s : s[i] = "answer.started" /\ s[j] = "tool.started" => j < i

\* The three records of a turn's end agree at every moment: its status, the last
\* event of its stream, and the canonical message.  An owner who was told "cancelled"
\* never finds an answer.
EndAgrees ==
  \A n \in Turns : LET last == stream[n][Len(stream[n])][1] IN
    /\ turn[n].status = "ANSWERED" <=> last = "conversation.completed"
    /\ turn[n].status = "ANSWERED" <=> n \in message
    /\ turn[n].status \in {"FAILED", "EXPIRED"} <=> last = "error"
    /\ turn[n].status = "CANCELLED" <=> last = "cancelled"
    /\ n \in told => turn[n].status = "CANCELLED"

\* A turn fails only when its attempts are used up, expires only after its time, and
\* never waits with no attempt left, where no claim could take it.
BudgetDecides ==
  \A n \in Turns :
    /\ turn[n].status = "FAILED" => turn[n].attempts = MAX_ATTEMPTS
    /\ turn[n].status = "EXPIRED" => turn[n].expires <= now
    /\ turn[n].status = "PENDING" => turn[n].attempts < MAX_ATTEMPTS

\* A request of a worker whose lease was taken over or given back changes neither the
\* turn nor its stream, however late its batch runs.
OnlyHolderWrites ==
  [][\A c \in calls \ calls' :
       c.by \in Workers /\ ~(turn[c.turn].status = "PROCESSING" /\ turn[c.turn].token = c.token)
       => /\ turn'[c.turn] = turn[c.turn]
          /\ stream'[c.turn] = stream[c.turn]
          /\ message' = message]_chatVars

\* Every admitted turn ends, though workers stop and their answers are lost: recovery
\* gives it back, fails it or lets it expire.
TurnEnds ==
  \A n \in Names : (n \in Turns) ~> (n \in Turns /\ turn[n].status \in Ended)

\* The event stream, the turn's status and its stored answer tell one story,
\* and a turn that failed or expired had spent its attempts or its time.
TurnConsistent == StreamClosed /\ EndAgrees /\ BudgetDecides
=============================================================================
