----------------------------- MODULE DailyBrief -----------------------------
(*****************************************************************************)
(* The daily news brief.  One batch of the annotator takes the current       *)
(* receipt day and the newest unfinished days; each day either gets a new    *)
(* immutable revision, is finalized once its news is settled, or waits.      *)
(* Revision, finalization and refresh state are separate transactions, and   *)
(* the annotator may stop between any two of them.                           *)
(* Sources: news/brief/product.py, news/brief/runtime.py.                    *)
(*                                                                           *)
(* A packet stands for the bounded evidence of a day; the same packet can    *)
(* come back, since the input budget it must fit moves both ways.            *)
(*****************************************************************************)
EXTENDS Integers, FiniteSets, Sequences, Functions

CONSTANTS
  LastBrief,   \* bound: days are 0..LastBrief; the last one receives nothing
  Packets,     \* evidence packets
  NoPacket,    \* nothing reviewed
  FAILURES,    \* BRIEF_FAILURE_ATTEMPT_LIMIT
  MaxReceipts, \* bound: receipts
  MaxEvents    \* bound: receipts, changes of packets besides reviews, crashes

\* A day is given up after several failures; the code allows five.
ASSUME BriefAssumption ==
  /\ LastBrief \in Nat /\ FAILURES \in Nat \ {0, 1} /\ NoPacket \notin Packets

BriefDays == 0..LastBrief
FINAL_PHASES == {"FINAL", "DEGRADED"}
NoHash == <<NoPacket, FALSE>>

VARIABLES
  today,     \* the current day in Asia/Kuala_Lumpur
  news,      \* per day: receipts, pending and terminal items, the packet
  repacks,
  briefs,    \* daily_news_briefs: revisions of a day
  final,     \* daily_news_brief_finalizations_v1
  corrected, \* daily_news_brief_finalization_corrections_v1, this recovery version
  row,       \* daily_news_brief_refresh_state
  cache,     \* date_discovery_cache_json of the current day's row
  rejected,  \* failures of the day's candidate since its last revision
  work,      \* local variables of the running batch
  crashes

briefVars == <<today, news, repacks, briefs, final, corrected, row, cache, rejected, work, crashes>>
source == <<today, news, repacks>>

FreshState == [phase |-> "NONE", gen |-> NoHash, pend |-> NoHash,
          wait |-> FALSE, failures |-> 0, code |-> "NONE"]
Idle == [step |-> "idle", queue |-> {}, current |-> 0, day |-> 0, cand |-> NoHash,
         settled |-> FALSE, terminal |-> FALSE, forced |-> FALSE,
         found |-> <<>>]
NoCache == [key |-> <<>>, dates |-> {}]

BriefInit ==
  /\ today = 0
  /\ news = [d \in BriefDays |-> [receipts |-> 0, pending |-> 0, terminal |-> 0,
                             packet |-> NoPacket]]
  /\ repacks = 0
  /\ briefs = [d \in BriefDays |-> <<>>]
  /\ final = [d \in BriefDays |-> "NONE"]
  /\ corrected = [d \in BriefDays |-> "NONE"]
  /\ row = [d \in BriefDays |-> FreshState]
  /\ cache = NoCache
  /\ rejected = [d \in BriefDays |-> 0]
  /\ work = Idle /\ crashes = 0
-----------------------------------------------------------------------------
\* The inputs, written by collection and annotation at any moment.
Same == UNCHANGED <<briefs, final, corrected, row, cache, rejected, work, crashes>>

Receipts == FoldFunction(LAMBDA n, sum : n.receipts + sum, 0, news)
Another == Receipts + repacks + crashes < MaxEvents

\* A revision is received; without enough body it is not annotatable.
Receive(body) ==
  /\ today < LastBrief /\ Receipts < MaxReceipts /\ Another
  /\ news' = [news EXCEPT ![today].receipts = @ + 1,
                          ![today].pending = IF body THEN @ + 1 ELSE @]
  /\ UNCHANGED <<today, repacks>> /\ Same

\* A pending item is annotated, or its job becomes a dead letter.
Review(d) ==
  /\ news[d].pending > 0
  /\ \E item \in {[news[d] EXCEPT !.pending = @ - 1, !.packet = p] : p \in Packets}
                 \cup {[news[d] EXCEPT !.pending = @ - 1, !.terminal = @ + 1]} :
       news' = [news EXCEPT ![d] = item]
  /\ UNCHANGED <<today, repacks>> /\ Same

\* The input budget or the ranking selects another packet.
Repack(d) ==
  /\ Another /\ repacks' = repacks + 1
  /\ news[d].packet # NoPacket
  /\ \E p \in Packets \ {news[d].packet} : news' = [news EXCEPT ![d].packet = p]
  /\ UNCHANGED today /\ Same

Midnight == today < LastBrief /\ today' = today + 1 /\ UNCHANGED <<news, repacks>> /\ Same

\* The retry or refresh time of a day passes.
Due(d) ==
  /\ row[d].wait
  /\ row' = [row EXCEPT ![d].wait = FALSE]
  /\ UNCHANGED <<source, briefs, final, corrected, cache, rejected, work, crashes>>
-----------------------------------------------------------------------------
\* _effective_finalization: a correction stands; an original that is DEGRADED
\* does not, and reopens its day once.
Effective(d) == IF corrected[d] # "NONE" THEN corrected[d]
                ELSE IF final[d] = "DEGRADED" THEN "NONE" ELSE final[d]
Recovering(d) == corrected[d] = "NONE" /\ final[d] = "DEGRADED"

\* Mutant: a degraded day is not taken up again.
UnfinishedNew == {today} \cup {d \in BriefDays : d <= today /\ news[d].receipts > 0 /\ final[d] = "NONE"}
\* _uncached_brief_dates.
Unfinished ==
  {today} \cup {d \in BriefDays : d <= today /\ news[d].receipts > 0 /\ Effective(d) = "NONE"}

\* _brief_date_source_token with the day: the tails of the append-only inputs.
Token == <<today, [d \in BriefDays |-> news[d].receipts], final, corrected>>

\* _discover_brief_dates: token and dates come from one snapshot.
Discover ==
  /\ work.step = "idle"
  /\ IF cache.key = Token
     THEN work' = [Idle EXCEPT !.step = "next", !.queue = cache.dates, !.current = today]
     ELSE work' = [Idle EXCEPT !.step = IF row[today].phase = "NONE" THEN "next" ELSE "publish",
                               !.queue = Unfinished, !.current = today, !.found = Token]
  /\ UNCHANGED <<source, briefs, final, corrected, row, cache, rejected, crashes>>

\* brief_dates_to_process publishes afterwards, under the token it read; a busy
\* writer makes it give up.
PublishDates ==
  /\ work.step = "publish"
  /\ cache' \in {cache, [key |-> work.found, dates |-> work.queue]}
  /\ work' = [work EXCEPT !.step = "next"]
  /\ UNCHANGED <<source, briefs, final, corrected, row, rejected, crashes>>

\* run_daily_brief_batch: the current day, then the newest first.
NextDay == IF work.current \in work.queue THEN work.current
           ELSE CHOOSE d \in work.queue : \A e \in work.queue : e <= d
Done(w) == IF w.queue = {} THEN Idle
           ELSE [Idle EXCEPT !.step = "next", !.queue = w.queue, !.current = w.current]
\* The day at hand and what the rest of its update works with.
Onto(step, d, cand) ==
  [work EXCEPT !.step = step, !.day = d, !.queue = @ \ {d}, !.cand = cand,
               !.settled = d # work.current /\ news[d].pending = 0,
               !.terminal = news[d].terminal > 0, !.forced = FALSE, !.found = <<>>]
LeaveDay(d) == Done([work EXCEPT !.queue = @ \ {d}])

Latest(d) == briefs[d][Len(briefs[d])]
HasBrief(d) == briefs[d] # <<>>
LatestHash(d) == IF HasBrief(d) THEN Latest(d).hash ELSE NoHash
Revision(hash, kind) == [hash |-> hash, kind |-> kind]
Published(d, hash) == \E i \in DOMAIN briefs[d] : briefs[d][i].hash = hash

\* The candidate hash covers the packet and, in recovery, the recovery version.
Candidate(d) == <<news[d].packet, Recovering(d)>>
\* The refresh state as the update reads it: recovery starts over.
Seen(d) == IF Recovering(d) /\ row[d].phase = "DEGRADED"
           THEN [FreshState EXCEPT !.phase = "UPDATING"] ELSE row[d]

Generated(d) == IF Seen(d).gen # NoHash THEN Seen(d).gen ELSE LatestHash(d)
\* Mutant: any revision of the day will do.
UnchangedSomehow(d) == HasBrief(d) /\ Latest(d).kind # "fallback"
\* The packet is the one last generated from.
Unchanged(d) ==
  /\ HasBrief(d) /\ Latest(d).kind # "fallback"
  /\ \/ Latest(d).hash = Candidate(d)
     \/ ~Recovering(d) /\ Generated(d) = Candidate(d)

\* _update_daily_brief up to the model call, one action per outcome.
AtHand(d) == work.step = "next" /\ d = NextDay
NoRows(d) == news[d].pending = 0 /\ news[d].terminal = 0 /\ news[d].packet = NoPacket
Synthesis(d) == AtHand(d) /\ Effective(d) = "NONE" /\ news[d].packet # NoPacket

Finalized(d) ==
  /\ AtHand(d) /\ Effective(d) # "NONE"
  /\ row' = [row EXCEPT ![d] = [FreshState EXCEPT !.phase = Effective(d), !.gen = LatestHash(d)]]
  /\ work' = LeaveDay(d)
  /\ UNCHANGED <<source, briefs, final, corrected, cache, rejected, crashes>>

NoNews(d) ==
  /\ AtHand(d) /\ Effective(d) = "NONE" /\ NoRows(d)
  /\ IF d = work.current
     THEN row' = [row EXCEPT ![d] = [FreshState EXCEPT !.phase = "WAITING"]] /\ work' = LeaveDay(d)
          /\ UNCHANGED final
     ELSE final' = [final EXCEPT ![d] = IF @ = "NONE" THEN "EMPTY" ELSE @]
          /\ work' = Onto("empty", d, NoHash)
          /\ UNCHANGED row
  /\ UNCHANGED <<source, briefs, corrected, cache, rejected, crashes>>

\* Only terminal items: a system revision closes the day.
NoReviewed(d) ==
  /\ AtHand(d) /\ Effective(d) = "NONE" /\ ~NoRows(d) /\ news[d].packet = NoPacket
  /\ LET closed == Onto("finalize", d, <<"population", FALSE>>) IN
     IF closed.settled /\ closed.terminal
     THEN /\ briefs' = IF HasBrief(d) THEN briefs
                       ELSE [briefs EXCEPT ![d] = <<Revision(closed.cand, "settlement")>>]
          /\ work' = closed /\ UNCHANGED row
     ELSE /\ row' = [row EXCEPT ![d] = [FreshState EXCEPT
                !.phase = IF d = work.current THEN "WAITING" ELSE "UPDATING"]]
          /\ work' = LeaveDay(d) /\ UNCHANGED briefs
  /\ UNCHANGED <<source, final, corrected, cache, rejected, crashes>>

CandidatesUnchanged(d) ==
  /\ Synthesis(d) /\ Unchanged(d)
  /\ LET w == Onto("finalize", d, Candidate(d)) IN
     IF w.settled THEN work' = w /\ UNCHANGED row
     ELSE /\ row' = [row EXCEPT ![d] = [FreshState EXCEPT !.phase = "UPDATING", !.gen = Candidate(d)]]
          /\ work' = LeaveDay(d)
  /\ UNCHANGED <<source, briefs, final, corrected, cache, rejected, crashes>>

RetryLater(d) == Seen(d).wait /\ Seen(d).code # "NONE"
StillDeferred(d) ==
  /\ Synthesis(d) /\ ~Unchanged(d) /\ RetryLater(d)
  /\ work' = LeaveDay(d)
  /\ UNCHANGED <<source, briefs, final, corrected, row, cache, rejected, crashes>>

Spent(d) == Seen(d).failures >= FAILURES /\ Seen(d).pend = Candidate(d)
Exhausted(d) == d # work.current /\ Spent(d)
GiveUp(d) ==
  /\ Synthesis(d) /\ ~Unchanged(d) /\ ~RetryLater(d) /\ Exhausted(d)
  /\ work' = Onto("fallback", d, Candidate(d))
  /\ UNCHANGED <<source, briefs, final, corrected, row, cache, rejected, crashes>>

\* _adaptive_refresh_decision: a settled historical day and a new contract are
\* eligible at once; otherwise age and pressure decide.
MustRefresh(d) == Recovering(d) \/ (d # work.current /\ news[d].pending = 0)
Refreshed(d, eligible) ==
  [FreshState EXCEPT !.phase = "UPDATING", !.gen = Generated(d), !.pend = Candidate(d),
                !.wait = ~eligible]
Deferred(d, cand, failures, code) ==
  [FreshState EXCEPT !.phase = "DEFERRED", !.gen = LatestHash(d), !.pend = cand,
                !.wait = TRUE, !.failures = failures, !.code = code]

\* The refresh waits; or no account is left; or the model is asked.
Refresh(d) ==
  /\ Synthesis(d) /\ ~Unchanged(d) /\ ~RetryLater(d) /\ ~Exhausted(d)
  /\ \/ /\ HasBrief(d) /\ ~MustRefresh(d)
        /\ row' = [row EXCEPT ![d] = Refreshed(d, FALSE)]
        /\ work' = LeaveDay(d)
     \/ /\ row' = [row EXCEPT ![d] = Deferred(d, Candidate(d), 0, "CAPACITY")]
        /\ work' = LeaveDay(d)
     \/ /\ row' = [row EXCEPT ![d] = IF HasBrief(d) THEN Refreshed(d, TRUE) ELSE Seen(d)]
        /\ work' = Onto("model", d, Candidate(d))
  /\ UNCHANGED <<source, briefs, final, corrected, cache, rejected, crashes>>
-----------------------------------------------------------------------------
\* The model's answer becomes the next revision; the table holds one revision
\* for a day and hash, and a second one ends the annotator's cycle.
Answer ==
  /\ work.step = "model"
  /\ IF Published(work.day, work.cand)
     THEN work' = Idle /\ UNCHANGED <<briefs, rejected>>
     ELSE /\ briefs' = [briefs EXCEPT ![work.day] = Append(@, Revision(work.cand, "model"))]
          /\ rejected' = [rejected EXCEPT ![work.day] = 0]
          /\ work' = [work EXCEPT !.step = IF work.settled THEN "finalize" ELSE "record"]
  /\ UNCHANGED <<source, final, corrected, row, cache, crashes>>

Capacity ==
  /\ work.step = "model"
  /\ row' = [row EXCEPT ![work.day] = Deferred(work.day, work.cand, 0, "CAPACITY")]
  /\ work' = Done(work)
  /\ UNCHANGED <<source, briefs, final, corrected, cache, rejected, crashes>>

\* _record_generation_failure: the failure row, then the refresh state.
Fail ==
  /\ work.step = "model"
  /\ rejected' = [rejected EXCEPT ![work.day] = IF @ > FAILURES THEN @ ELSE @ + 1]
  /\ work' = [work EXCEPT !.step = "failed"]
  /\ UNCHANGED <<source, briefs, final, corrected, row, cache, crashes>>

\* Counted up to the limit: the count is only compared with it.
Consecutive(d) ==
  LET before == IF row[d].pend = work.cand /\ row[d].code = "FAILURE"
                THEN row[d].failures ELSE 0 IN
  IF before < FAILURES THEN before + 1 ELSE FAILURES
RecordFailure ==
  /\ work.step = "failed"
  /\ LET n == Consecutive(work.day) IN
     /\ row' = [row EXCEPT ![work.day] = Deferred(work.day, work.cand, n, "FAILURE")]
     /\ work' = IF work.day # work.current /\ n >= FAILURES
                THEN [work EXCEPT !.step = "fallback"] ELSE Done(work)
  /\ UNCHANGED <<source, briefs, final, corrected, cache, rejected, crashes>>

\* _finalize_generation_fallback: the revision of this hash, or a new one.
Fallback ==
  /\ work.step = "fallback"
  /\ briefs' = IF Published(work.day, work.cand) THEN briefs
               ELSE [briefs EXCEPT ![work.day] = Append(@, Revision(work.cand, "fallback"))]
  /\ rejected' = [rejected EXCEPT ![work.day] = 0]
  /\ work' = [work EXCEPT !.step = "finalize", !.forced = TRUE]
  /\ UNCHANGED <<source, final, corrected, row, cache, crashes>>

\* _finalize, its first transaction.
Status == IF work.terminal \/ work.forced THEN "DEGRADED" ELSE "FINAL"
Finalize ==
  /\ work.step = "finalize"
  /\ IF final[work.day] = "NONE"
     THEN final' = [final EXCEPT ![work.day] = Status] /\ UNCHANGED corrected
     ELSE /\ corrected' = [corrected EXCEPT ![work.day] = IF @ = "NONE" THEN Status ELSE @]
          /\ UNCHANGED final
  /\ work' = [work EXCEPT !.step = "close"]
  /\ UNCHANGED <<source, briefs, row, cache, rejected, crashes>>
\* _write_state, the last transaction of an update.
Record ==
  /\ work.step \in {"close", "record", "empty"}
  /\ row' = [row EXCEPT ![work.day] =
       [FreshState EXCEPT !.gen = work.cand,
                     !.phase = CASE work.step = "close" -> Status
                                 [] work.step = "record" -> "UPDATING"
                                 [] work.step = "empty" -> "EMPTY"]]
  /\ work' = Done(work)
  /\ UNCHANGED <<source, briefs, final, corrected, cache, rejected, crashes>>

\* The annotator stops; what it committed stays.
Crash ==
  /\ work # Idle /\ Another
  /\ crashes' = crashes + 1 /\ work' = Idle
  /\ UNCHANGED <<source, briefs, final, corrected, row, cache, rejected>>

Update(d) == \/ Finalized(d) \/ NoNews(d) \/ NoReviewed(d) \/ CandidatesUnchanged(d)
             \/ StillDeferred(d) \/ GiveUp(d) \/ Refresh(d)
Close == RecordFailure \/ Fallback \/ Finalize \/ Record
Batch == Discover \/ PublishDates \/ Close \/ \E d \in BriefDays : Update(d)
BriefNext ==
  \/ \E body \in BOOLEAN : Receive(body)
  \/ \E d \in BriefDays : Review(d) \/ Repack(d) \/ Due(d)
  \/ Midnight
  \/ Batch \/ Answer \/ Capacity \/ Fail
  \/ Crash

\* The batch runs every cycle, retry times pass, and a model asked again and
\* again, with an account at hand, answers in the end.
Asked(d) == Refresh(d) /\ work'.step = "model"
Fairness ==
  /\ WF_briefVars(Batch \/ Answer \/ Capacity \/ Fail)
  /\ \A d \in BriefDays : WF_briefVars(Due(d)) /\ SF_briefVars(Asked(d))
  /\ SF_briefVars(Answer)
BriefSpec == BriefInit /\ [][BriefNext]_briefVars
BriefFairSpec == BriefSpec /\ Fairness
-----------------------------------------------------------------------------
\* Types of the state.
BriefTypeOK ==
  /\ today \in BriefDays
  /\ \A d \in BriefDays :
       /\ news[d].pending + news[d].terminal <= news[d].receipts
       /\ final[d] \in FINAL_PHASES \cup {"NONE", "EMPTY"}
       /\ corrected[d] \in FINAL_PHASES \cup {"NONE"}
       /\ row[d].phase \in FINAL_PHASES \cup {"NONE", "WAITING", "UPDATING", "DEFERRED", "EMPTY"}
  /\ work.queue \subseteq BriefDays

\* One finalization in force at most, once and for all: a recorded original or
\* correction is never replaced, and a correction only follows a degraded one.
FinalizedOnce ==
  [][\A d \in BriefDays :
       /\ final[d] # "NONE" => final'[d] = final[d]
       /\ corrected[d] # "NONE" => corrected'[d] = corrected[d]
       /\ corrected'[d] # "NONE" => final'[d] = "DEGRADED"]_briefVars

\* The current day is never closed, and a day is closed only with nothing of
\* it left to review; its items are then all reviewed or settled terminally.
ClosedIsSettled ==
  \A d \in BriefDays : Effective(d) # "NONE" =>
    /\ d < today /\ news[d].pending = 0
    /\ Effective(d) \in FINAL_PHASES => HasBrief(d)
    /\ Effective(d) = "FINAL" => news[d].terminal = 0

\* A stored date list is used only while it is what discovery would compute:
\* no unfinished day drops out of the batches.
CachedDatesExact == cache.key = Token => cache.dates = Unfinished

\* A past day with nothing pending is closed in the end, whatever crashes and
\* deferrals came between, unless its candidate was published before and is not
\* resumed: the duplicate insert then ends every cycle.
Closable(d) == d < today /\ news[d].receipts > 0 /\ news[d].pending = 0
Revisited(d) == Published(d, Candidate(d)) /\ ~Unchanged(d) /\ ~Spent(d)
HistoryCloses ==
  \A d \in BriefDays : Closable(d) ~> (Effective(d) # "NONE" \/ Revisited(d))

\* "must not call the model again or attempt a duplicate insert": an answer is
\* for a candidate that has no revision yet.
NoDuplicateInsert ==
  work.step = "model" => ~Published(work.day, work.cand)

\* A day is finalized with the revision of its settled packet, also when the
\* annotator stopped between the revision and the refresh state; the exception
\* is a packet that had a revision before the latest one.
FinalIsOfPacket ==
  work.step = "finalize" /\ ~work.forced /\ Latest(work.day).kind = "model"
    => Latest(work.day).hash = work.cand \/ Published(work.day, work.cand)

\* "A closed historical date stops synthesis retries after five consecutive
\* failures for the same candidate set."
FiniteRetries == \A d \in BriefDays : d < today => rejected[d] <= FAILURES

\* The archive presents a day as final once it is finalized.
Shown(d) == IF row[d].phase # "NONE" THEN row[d].phase ELSE Effective(d)
ArchiveShowsFinal ==
  \A d \in BriefDays : Effective(d) \in FINAL_PHASES ~> Shown(d) \in FINAL_PHASES

\* A closed day is settled, with the revision of its settled packet, and the
\* cached list of unfinished days is used only while it is exact.
BriefExact == ClosedIsSettled /\ FinalIsOfPacket /\ CachedDatesExact
=============================================================================
