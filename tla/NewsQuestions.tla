---------------------------- MODULE NewsQuestions ---------------------------
(*****************************************************************************)
(* Questions about the news (web/app/api/_shared/news-questions.ts): one     *)
(* batch admits a question with a conversation and a message of its own, a   *)
(* queue hands it to workers under a lease, and it ends answered, failed or  *)
(* expired.                                                                  *)
(*****************************************************************************)
EXTENDS LeasedJobs, FiniteSets

CONSTANTS
  Owners, Keys, Texts,
  Answerers,            \* the workers that answer
  QUESTIONS_PER_OWNER,  \* activePerOwner
  QUESTIONS_GLOBAL,     \* activeGlobal
  RATE,                 \* questions admitted per minute and owner
  MaxQuestions, MaxDays

ASSUME QuestionAssumption ==
  /\ QUESTIONS_PER_OWNER \in Nat /\ QUESTIONS_GLOBAL \in Nat /\ RATE \in Nat
  /\ MaxDays \in Nat

VARIABLES
  questions, \* news_questions
  stored,    \* how many messages of each role a question's conversation has
  answerer, day

questionVars == <<questions, stored, answerer, day>>

AnswererIdle == [row |-> 0, token |-> 0, report |-> "none"]

QuestionInit ==
  /\ questions = << >> /\ stored = << >>
  /\ answerer = [w \in Answerers |-> AnswererIdle] /\ day = 0

OpenQuestions == {n \in DOMAIN questions : questions[n].status \in Open}
OpenOf(o) == {n \in OpenQuestions : questions[n].owner = o}
RecentQuestions(o) == {n \in DOMAIN questions : questions[n].owner = o /\ questions[n].recent}

\* Mutant: a question is known by its key alone.
SameKey(n, o, key, text) == questions[n].owner = o /\ questions[n].key = key

\* The hash of a question is made of the date and the normalised text.
SameQuestion(n, o, key, text) ==
  questions[n].owner = o /\ (questions[n].key = key \/ questions[n].hash = <<day, text>>)

CreateQuestion(o, key, text) ==
  LET same == {n \in DOMAIN questions : SameQuestion(n, o, key, text)}
      room == /\ Cardinality(OpenOf(o)) < QUESTIONS_PER_OWNER
              /\ Cardinality(OpenQuestions) < QUESTIONS_GLOBAL
              /\ Cardinality(RecentQuestions(o)) < RATE
  IN /\ Len(questions) < MaxQuestions
     /\ IF room /\ same = {}
        THEN /\ questions' = Append(questions, [owner |-> o, key |-> key, hash |-> <<day, text>>,
                  recent |-> TRUE, stale |-> FALSE, status |-> Queued.status,
                  attempts |-> Queued.attempts, due |-> Queued.due, lapsed |-> Queued.lapsed])
             /\ stored' = Append(stored, [user |-> 1, assistant |-> 0])
        ELSE UNCHANGED <<questions, stored>>
     /\ UNCHANGED <<answerer, day>>

\* A question past its time expires, even under a live lease; then the leases.
ExpiredQuestion(r) ==
  IF r.status \in Open /\ r.stale THEN [r EXCEPT !.status = "EXPIRED", !.lapsed = FALSE]
  ELSE Swept(r)

ClaimQuestion(w) ==
  LET swept == [n \in DOMAIN questions |-> ExpiredQuestion(questions[n])]
  IN /\ answerer[w] = AnswererIdle
     /\ \E n \in Oldest(swept) \cup (IF Oldest(swept) = {} THEN {0} ELSE {}) :
          /\ questions' = IF n = 0 THEN swept ELSE [swept EXCEPT ![n] = Leased(@)]
          /\ answerer' = IF n = 0 THEN answerer
                       ELSE [answerer EXCEPT ![w].row = n, ![w].token = swept[n].attempts + 1]
     /\ questions' # questions
     /\ UNCHANGED <<stored, day>>

\* A failure is accepted under the token alone, the others under the lease.
ReadQuestion(w) ==
  /\ answerer[w].row # 0 /\ answerer[w].report = "none"
  /\ \E report \in {"complete", "fail", "defer"} :
       answerer' = [answerer EXCEPT ![w] =
         IF \/ Held(questions[@.row], @.token)
            \/ report = "fail" /\ Kept(questions[@.row], @.token)
         THEN [@ EXCEPT !.report = report] ELSE AnswererIdle]
  /\ UNCHANGED <<questions, stored, day>>

\* The answer, the row and the activity of the conversation in one batch.
CompleteQuestion(w) ==
  LET n == answerer[w].row
      kept == Kept(questions[n], answerer[w].token)
  IN /\ answerer[w].report = "complete"
     /\ questions' = IF kept THEN [questions EXCEPT ![n] = Ended(@, "ANSWERED")] ELSE questions
     /\ stored' = IF kept THEN [stored EXCEPT ![n].assistant = @ + 1] ELSE stored
     /\ answerer' = [answerer EXCEPT ![w] = AnswererIdle]
     /\ UNCHANGED day

ReturnQuestion(w, report) ==
  LET n == answerer[w].row
  IN /\ answerer[w].report = report
     /\ questions' = IF ~Kept(questions[n], answerer[w].token) THEN questions
                     ELSE [questions EXCEPT ![n] =
                       IF @.stale THEN Ended(@, "EXPIRED") ELSE Returned(@)]
     /\ answerer' = [answerer EXCEPT ![w] = AnswererIdle]
     /\ UNCHANGED <<stored, day>>

FailQuestion(w) == ReturnQuestion(w, "fail")
DeferQuestion(w) == ReturnQuestion(w, "defer")

AnswererCrash(w) ==
  /\ answerer[w] # AnswererIdle
  /\ answerer' = [answerer EXCEPT ![w] = AnswererIdle]
  /\ UNCHANGED <<questions, stored, day>>

\* Time for one row: its lease or delay, its minute, its life.  Or a new day.
QuestionAge ==
  /\ \/ \E n \in DOMAIN questions :
          /\ questions' \in {[questions EXCEPT ![n] = Aged(@)],
                             [questions EXCEPT ![n].recent = FALSE],
                             [questions EXCEPT ![n].stale = TRUE]}
          /\ questions[n].status \in Open \/ questions[n].recent # questions'[n].recent
          /\ questions' # questions /\ UNCHANGED day
     \/ day < MaxDays /\ day' = day + 1 /\ UNCHANGED questions
  /\ UNCHANGED <<stored, answerer>>

QuestionNext ==
  \/ \E o \in Owners, key \in Keys, text \in Texts : CreateQuestion(o, key, text)
  \/ \E w \in Answerers : ClaimQuestion(w) \/ ReadQuestion(w) \/ CompleteQuestion(w)
                          \/ FailQuestion(w) \/ DeferQuestion(w) \/ AnswererCrash(w)
  \/ QuestionAge

QuestionSpec == QuestionInit /\ [][QuestionNext]_questionVars
-----------------------------------------------------------------------------
(*****************************************************************************)
(* Each question is its owner's only one of that key and of that day and     *)
(* text, has its message, and has an answer in its conversation exactly if   *)
(* it is answered, whatever leases lapse and reports come late; the limits   *)
(* on open questions and on the rate hold.                                   *)
(*****************************************************************************)
QuestionsExact ==
  /\ \A n, m \in DOMAIN questions : n # m /\ questions[n].owner = questions[m].owner =>
       questions[n].key # questions[m].key /\ questions[n].hash # questions[m].hash
  /\ \A n \in DOMAIN questions :
       stored[n] = [user |-> 1, assistant |-> IF questions[n].status = "ANSWERED" THEN 1 ELSE 0]
  /\ Cardinality(OpenQuestions) <= QUESTIONS_GLOBAL
  /\ \A o \in Owners : /\ Cardinality(OpenOf(o)) <= QUESTIONS_PER_OWNER
                       /\ Cardinality(RecentQuestions(o)) <= RATE
=============================================================================
