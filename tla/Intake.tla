------------------------------- MODULE Intake -------------------------------
(**********************************************************************************)
(* News collection.  One owner thread polls all sources in turn, waits and        *)
(* starts over; its status is shared with the decision loop.  The poll log, the   *)
(* stored articles and the discovery failures are durable, the status is not.     *)
(* The articles of a source are those its feed lists and the intake rules admit;  *)
(* they stay listed.  An article in Blocked has a publisher that never yields     *)
(* its text; any other fails only by a fault.                                     *)
(* Sources: news/collection/intake.py, source_polling.py, runtime.py.             *)
(*                                                                                *)
(* Time is in ticks; a round reads the clock once, when it starts.                *)
(**********************************************************************************)
EXTENDS Integers, FiniteSets, Sequences, FiniteSetsExt, SequencesExt

CONSTANTS
  Order,      \* Seq(sources), as collect_official_news polls them
  Kind,       \* [sources -> the collector that polls it]
  Interval,   \* [sources -> ticks between two complete polls]
  Credentialed, \* the sources that present a key
  Items,      \* [sources -> Seq(articles or series), as the feed lists them]
  Blocked,
  Feed,       \* [articles of a "fed" source -> the feed that lists it]
  LIMIT,      \* full-text attempts of a direct poll
  TARGET, BUDGET, \* articles a Google lane fills, and attempts it may spend
  TRANSIENT, RATE, AUTH, HISTORY, \* retry ladders and delay; RECOVERY_HISTORY_LIMIT
  ITEM_DELAY, \* ticks before a failed article is tried again
  RetryAfters,\* what a 429 may carry, within its bound; 0 is nothing
  POLL,       \* ticks the owner waits between rounds
  MaxRound,   \* bound: ticks of network time in a round
  MaxLosses   \* bound: failed requests, failed writes, stops and crashes

VARIABLES
  log,        \* the latest HISTORY polls of a source, newest first
  fetched, succeeded, \* ticks since the latest poll, the latest OK one
  stored,     \* articles with full text, series with a value
  retry,      \* [articles -> ticks until next_retry_at]
  collector,      \* the thread: phase, next source, ticks of this round, stop flag
  results,    \* statuses of the running round
  shown,      \* latest_status, and the ticks since last_completed_at
  asked,      \* history: the last request to a source, and what it came to
  losses

durable == <<log, fetched, succeeded, stored, retry>>
intakeVars == <<durable, collector, results, shown, asked, losses>>

Sources == Range(Order)
ASSUME IntakeAssumption ==
  /\ Order \in Seq(Sources) /\ Interval \in [Sources -> Nat]
  /\ TRANSIENT \in Seq(Nat) /\ RATE \in Seq(Nat) /\ AUTH \in Nat
  /\ RetryAfters \subseteq Nat /\ IsFiniteSet(RetryAfters)
  /\ POLL \in Nat /\ MaxRound \in Nat
Listed(s) == Range(Items[s])
Articles == UNION {Listed(s) : s \in Sources}
Longest == Max(Range(TRANSIENT) \cup Range(RATE) \cup RetryAfters \cup {AUTH}
                 \cup {Interval[s] : s \in Sources}) + MaxRound + 1
Older(t) == Min({t + 1, Longest})
Unpolled == [s \in Sources |-> "NONE"]
Nothing == [done |-> FALSE, age |-> 0, status |-> Unpolled]
AtRest == [phase |-> "waiting", next |-> 0, clock |-> 0, stop |-> FALSE]

IntakeInit ==
  /\ log = [s \in Sources |-> <<>>]
  /\ fetched = [s \in Sources |-> Longest]
  /\ succeeded = [s \in Sources |-> Longest]
  /\ stored = {}
  /\ retry = [i \in Articles |-> 0]
  /\ collector = AtRest
  /\ results = Unpolled
  /\ shown = Nothing
  /\ asked = [s \in Sources |-> [age |-> Longest, run |-> 0, gap |-> 0, lost |-> FALSE]]
  /\ losses = 0
-----------------------------------------------------------------------------
(* Recovery of a source                                                      *)

\* A poll as the log keeps it: why is the class of its failure.
PollRow(status, why, after) == [status |-> status, why |-> why, after |-> after]
Rung(ladder, n) == ladder[Min({n, Len(ladder)})]
\* The delay after n polls in a row that did not complete, the last of them p.
DelayAfter(p, n) ==
  CASE p.why = "AUTH" -> AUTH
    [] p.why = "RATE" -> IF p.after > 0 THEN p.after ELSE Rung(RATE, n)
    [] p.why = "OTHER" -> Rung(TRANSIENT, n)
\* One that asks only whether a poll failed altogether.
ErrorRows(s) ==
  LET oks == {i \in DOMAIN log[s] : log[s][i].status # "ERROR"}
  IN IF oks = {} THEN Len(log[s]) ELSE Min(oks) - 1
\* The polls since the last complete one.
FailureRows(s) ==
  LET oks == {i \in DOMAIN log[s] : log[s][i].status = "OK"}
  IN IF oks = {} THEN Len(log[s]) ELSE Min(oks) - 1

\* source_poll_gate, as of the start of the round
Gate(s) ==
  IF FailureRows(s) > 0
  THEN IF fetched[s] - collector.clock >= DelayAfter(log[s][1], FailureRows(s))
       THEN "COLLECT" ELSE "SKIPPED_RETRY_BACKOFF"
  ELSE IF succeeded[s] - collector.clock < Interval[s] THEN "SKIPPED_INTERVAL" ELSE "COLLECT"
Ungated(s) == Kind[s] = "fed"
-----------------------------------------------------------------------------
(* What one collector may come to: the articles it stores, those whose failed    *)
(* discovery it records, its poll, the faults this takes, and whether an error   *)
(* after the poll leaves the round.                                              *)

Result(new, failed, poll, cost) ==
  [new |-> new, failed |-> failed, poll |-> poll, cost |-> cost, torn |-> FALSE]
OK == PollRow("OK", "NONE", 0)
Incomplete(status) == PollRow(status, "OTHER", 0)
\* classified_poll_error
Failures(s) ==
  {PollRow("ERROR", "RATE", a) : a \in RetryAfters} \cup {PollRow("ERROR", "OTHER", 0)}
    \cup (IF s \in Credentialed THEN {PollRow("ERROR", "AUTH", 0)} ELSE {})
\* The feed, the listing or the archive cannot be read.
Unreachable(s) == {Result({}, {}, p, 1) : p \in Failures(s)}

Position(s, i) == CHOOSE n \in DOMAIN Items[s] : Items[s][n] = i
Missing(s) == Listed(s) \ stored
FirstOf(s, S, n) ==
  {i \in S : Cardinality({j \in S : Position(s, j) < Position(s, i)}) < n}
\* What of the attempted A is read, with at most one fault.
Readings(A) ==
  LET good == A \ Blocked
  IN {[read |-> good, cost |-> 0]} \cup {[read |-> good \ {i}, cost |-> 1] : i \in good}

\* One that caps the listing before it looks at what is stored.
CappedAttempts(s) == FirstOf(s, Listed(s), LIMIT) \ stored
\* collect_direct_full_text_rss_news: stored articles cost no attempt.
Attempts(s) == FirstOf(s, Missing(s), LIMIT)
Direct(s) ==
  {Result(r.read, {}, IF r.read = Attempts(s) THEN OK ELSE Incomplete("PARTIAL"), r.cost) :
     r \in Readings(Attempts(s))}

\* collect_direct_full_text_html_news: a page that lists no article is an error.
Html(s) == Direct(s) \cup {Result({}, {}, Incomplete("ERROR"), 1)}

\* collect_federal_reserve_news: one poll for all feeds, whatever each came to.
Fed(s) ==
  LET Feeds == {Feed[i] : i \in Listed(s)}
      Of(F) == {i \in Missing(s) : Feed[i] \notin F}
      Errors(F, read) == Cardinality(F \cup {Feed[i] : i \in Of(F) \ read})
      Status(n) == IF n = 0 THEN OK
                   ELSE Incomplete(IF n < Cardinality(Feeds) THEN "PARTIAL" ELSE "ERROR")
  IN UNION {{Result(r.read, {}, Status(Errors(F, r.read)), r.cost + Cardinality(F)) :
               r \in Readings(Of(F))} : F \in SUBSET Feeds}

\* collect_bls_macro: one request; the answer may refuse it, and need not hold all series.
Bls(s) ==
  {Result(S, {}, OK, 0) : S \in SUBSET Listed(s)} \cup {Result({}, {}, Incomplete("ERROR"), 1)}
\* collect_eia_macro: one request of one series; an answer without a value is an error.
Eia(s) == {Result(Listed(s), {}, OK, 0), Result({}, {}, Incomplete("ERROR"), 1)}

\* collect_fred_macro: a request per series; _primary_poll_failure decides how the
\* whole is retried.
Primary(ps) ==
  IF \E p \in ps : p.why = "AUTH" THEN "AUTH"
  ELSE IF \E p \in ps : p.why = "RATE" THEN "RATE" ELSE "OTHER"
Parts(s, started) ==
  {Result(Listed(s), {}, OK, 0)} \cup
  UNION {{LET bad == {f[i] : i \in F}
              new == (Listed(s) \ F) \cup kept
              why == Primary(bad)
          IN Result(new, {},
               PollRow(IF new = {} THEN "ERROR" ELSE "PARTIAL", why,
                    IF why = "RATE" THEN Max({p.after : p \in bad}) ELSE 0),
               Cardinality(F)) : f \in [F -> Failures(s)], kept \in IF started THEN SUBSET F ELSE {{}}} :
         F \in {G \in SUBSET Listed(s) : G # {} /\ Cardinality(G) <= MaxLosses - losses}}
Fred(s) == Parts(s, FALSE)
\* collect_bea_macro: a request per table; of one that fails, the lines before the
\* missing one stay.
Bea(s) == Parts(s, TRUE)

\* collect_gdelt_news: articles without text do not count against the poll; a receipt
\* that cannot be stored is reported under the identity of the poll just stored.
Gdelt(s) ==
  LET plain == {Result(r.read, {}, OK, r.cost) : r \in Readings(Missing(s))}
  IN plain \cup {[r EXCEPT !.torn = TRUE, !.cost = r.cost + 1] : r \in plain}

\* collect_world_gold_council_news: every listed article is loaded, stored or not.
Wgc(s) ==
  {Result(r.read \ stored, {},
          IF r.read = Listed(s) THEN OK
          ELSE Incomplete(IF r.read # {} THEN "PARTIAL" ELSE "ERROR"), r.cost) :
     r \in Readings(Listed(s))}

NoneDeferred(s) == {}
\* collect_google_news_lane: the articles not stored come first; one whose retry is
\* not due is passed over; the attempts end when the target is filled or spent.
Postponed(s) == {i \in Missing(s) : retry[i] > 0}
Google(s) ==
  LET due == Missing(s) \ Postponed(s)
      Ahead(i, S) == Cardinality({j \in S : Position(s, j) < Position(s, i)})
      Tried(read) == {i \in due : Ahead(i, due) < BUDGET /\ Ahead(i, read) < TARGET}
      Spent(A) == Cardinality(A) = BUDGET /\
        \E i \in Missing(s) : \A j \in A : Position(s, j) < Position(s, i)
      Filled(A, got) ==
        Cardinality(got) + (IF Spent(A) THEN 0 ELSE Cardinality(Listed(s) \cap stored))
  IN {LET A == Tried(r.read)
          got == r.read \cap A
      IN Result(got, A \ got,
           IF Filled(A, got) < Min({TARGET, Len(Items[s])}) THEN Incomplete("PARTIAL")
           ELSE OK, r.cost) : r \in Readings(due)}

Outcomes(s) ==
  Unreachable(s) \cup
  CASE Kind[s] = "fed" -> Fed(s) [] Kind[s] = "direct" -> Direct(s)
    [] Kind[s] = "html" -> Html(s) [] Kind[s] = "bls" -> Bls(s)
    [] Kind[s] = "eia" -> Eia(s) [] Kind[s] = "fred" -> Fred(s) [] Kind[s] = "bea" -> Bea(s)
    [] Kind[s] = "gdelt" -> Gdelt(s) [] Kind[s] = "wgc" -> Wgc(s)
    [] Kind[s] = "google" -> Google(s)
-----------------------------------------------------------------------------
(* The owner thread                                                          *)

InRound == collector.phase = "round"
Current == Order[collector.next]
Advance == collector' = [collector EXCEPT !.next = @ + 1]
\* After its wait, unless it was stopped.
StartRound ==
  /\ collector.phase = "waiting" /\ collector.clock = 0 /\ ~collector.stop
  /\ collector' = [collector EXCEPT !.phase = "round", !.next = 1]
  /\ results' = Unpolled
  /\ UNCHANGED <<durable, shown, asked, losses>>

Skip ==
  /\ InRound /\ collector.next <= Len(Order) /\ ~Ungated(Current) /\ Gate(Current) # "COLLECT"
  /\ results' = [results EXCEPT ![Current] = Gate(Current)]
  /\ Advance
  /\ UNCHANGED <<durable, shown, asked, losses>>

\* An exception leaves the collector: the owner reports it for the round.
Abort ==
  /\ shown' = [done |-> TRUE, age |-> 0, status |-> [s \in Sources |-> "FAILED"]]
  /\ collector' = [AtRest EXCEPT !.clock = POLL, !.stop = collector.stop]
  /\ results' = Unpolled

\* append_source_poll: the poll carries the time the round started.
RecordPoll(s, p) ==
  /\ log' = [log EXCEPT ![s] = SubSeq(<<p>> \o @, 1, Min({HISTORY, Len(@) + 1}))]
  /\ fetched' = [fetched EXCEPT ![s] = collector.clock]
  /\ succeeded' = IF p.status = "OK" THEN [succeeded EXCEPT ![s] = collector.clock] ELSE succeeded
\* The history of requests: how often in a row one did not complete, and the delay
\* its answer asks for.
Answered(s, p) ==
  LET run == IF p.status = "OK" THEN 0 ELSE Min({asked[s].run + 1, Longest})
  IN asked' = [asked EXCEPT ![s] = [age |-> collector.clock, run |-> run, lost |-> FALSE,
       gap |-> IF run = 0 THEN Interval[s] ELSE DelayAfter(p, run)]]

Collect ==
  /\ InRound /\ collector.next <= Len(Order)
  /\ LET s == Current
     IN /\ Ungated(s) \/ Gate(s) = "COLLECT"
        /\ \E r \in Outcomes(s) :
             /\ losses + r.cost <= MaxLosses
             /\ losses' = losses + r.cost
             /\ stored' = stored \cup r.new
             /\ retry' = [i \in Articles |-> IF i \in r.failed THEN ITEM_DELAY ELSE retry[i]]
             /\ RecordPoll(s, r.poll)
             /\ Answered(s, r.poll)
             /\ IF r.torn THEN Abort
                ELSE /\ results' = [results EXCEPT ![s] = r.poll.status]
                     /\ Advance
                     /\ UNCHANGED shown

\* The database refuses a write of the poll: what was stored before it stays.
WriteFails ==
  /\ InRound /\ collector.next <= Len(Order) /\ losses < MaxLosses
  /\ LET s == Current
     IN /\ Ungated(s) \/ Gate(s) = "COLLECT"
        /\ \E r \in Outcomes(s) : r.cost = 0 /\ stored' = stored \cup r.new
        /\ asked' = [asked EXCEPT ![s] = [@ EXCEPT !.age = collector.clock, !.lost = TRUE]]
  /\ Abort
  /\ losses' = losses + 1
  /\ UNCHANGED <<log, fetched, succeeded, retry>>

\* The round is over: its statuses replace those of the one before.
EndCollection ==
  /\ InRound /\ collector.next > Len(Order)
  /\ shown' = [done |-> TRUE, age |-> 0, status |-> results]
  /\ collector' = [AtRest EXCEPT !.clock = POLL, !.stop = collector.stop]
  /\ UNCHANGED <<durable, results, asked, losses>>

\* close: a running round ends first, unless the process goes before.
StopCollector ==
  /\ losses < MaxLosses /\ collector.phase # "ended" /\ ~collector.stop
  /\ collector' = [collector EXCEPT !.stop = TRUE]
  /\ losses' = losses + 1
  /\ UNCHANGED <<durable, results, shown, asked>>
Ended ==
  /\ collector.phase = "waiting" /\ collector.stop
  /\ collector' = [AtRest EXCEPT !.phase = "ended"]
  /\ UNCHANGED <<durable, results, shown, asked, losses>>
CollectorDies ==
  /\ losses < MaxLosses /\ collector.phase # "ended"
  /\ collector' = [AtRest EXCEPT !.phase = "ended"]
  /\ losses' = losses + 1
  /\ UNCHANGED <<durable, results, shown, asked>>
\* The next process has a new owner, which knows no status.
StartCollector ==
  /\ collector.phase = "ended"
  /\ collector' = AtRest /\ shown' = Nothing /\ results' = Unpolled
  /\ UNCHANGED <<durable, asked, losses>>

\* Time passes in requests, in the wait and while nothing runs.
IntakeTick ==
  /\ \/ InRound /\ collector.clock < MaxRound /\ collector' = [collector EXCEPT !.clock = @ + 1]
     \/ collector.phase = "waiting" /\ collector.clock > 0 /\ collector' = [collector EXCEPT !.clock = @ - 1]
     \/ collector.phase = "ended" /\ UNCHANGED collector
  /\ fetched' = [s \in Sources |-> Older(fetched[s])]
  /\ succeeded' = [s \in Sources |-> Older(succeeded[s])]
  /\ retry' = [i \in Articles |-> Max({0, retry[i] - 1})]
  /\ shown' = [shown EXCEPT !.age = IF shown.done THEN Min({@ + 1, 2 * POLL + 1}) ELSE 0]
  /\ asked' = [s \in Sources |-> [asked[s] EXCEPT !.age = Older(@)]]
  /\ UNCHANGED <<log, stored, results, losses>>

Thread == StartRound \/ Skip \/ Collect \/ EndCollection \/ Ended \/ StartCollector
IntakeNext == Thread \/ WriteFails \/ StopCollector \/ CollectorDies \/ IntakeTick
IntakeSpec == IntakeInit /\ [][IntakeNext]_intakeVars
\* The thread runs and time passes: in a round and in a wait only so often.
Progress == Thread \/ (collector.phase # "ended" /\ IntakeTick)
IntakeFairSpec == IntakeSpec /\ WF_intakeVars(Progress)
-----------------------------------------------------------------------------
AlwaysFresh == TRUE
(* snapshot                                                                  *)
IsFresh == shown.age <= 2 * POLL
Warned == ~shown.done \/ ~IsFresh

\* A status shown as complete and without a warning tells of a poll that did
\* complete, and not longer ago than two waits and the longest round (OPERATIONAL_HEALTH:
\* an unfinished or stale poll degrades news freshness).
SnapshotHonest ==
  \A s \in Sources :
    ~Warned /\ shown.status[s] = "OK" => succeeded[s] <= 2 * POLL + MaxRound

\* A source is asked again no sooner than its last answer and the number of
\* incomplete answers in a row call for, whatever happened to the process in between;
\* only a request whose poll could not be recorded is forgotten.
Paced ==
  [][(Collect \/ WriteFails) /\ ~Ungated(Current) =>
       LET last == asked[Current] IN last.lost \/ last.age - collector.clock >= last.gap]_intakeVars

\* Every article whose publisher yields its text is stored in the end, whatever
\* stands before it in the listing.
ReadableIsStored == <>(Articles \ Blocked \subseteq stored)
=============================================================================
