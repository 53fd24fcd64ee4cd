----------------------- MODULE AssistantMemoryProofs -----------------------
(*******************************************************************************)
(* The summaries of a conversation are exact: each goes on where the one       *)
(* before it ended, none reaches into the recent turns, and a conversation     *)
(* waits for exactly its open job, for any number of conversations, workers    *)
(* and attempts, through lapsed leases, late reports, lost requests and plans  *)
(* that were read at the same time.  The two other queues follow: the memory   *)
(* index says of itself what is true, and a question's conversation agrees     *)
(* with its row, for any number of messages, questions, workers and days.      *)
(*******************************************************************************)
EXTENDS AssistantMemory, MemoryIndex, NewsQuestions, FiniteSetTheorems,
        NaturalsInduction, TLAPS

ChatRow ==
  [roles : Seq({"USER", "ASSISTANT"}), turn : {"none", "asked", "answered", "failed"},
   version : Nat, request : Nat, pending : Nat, calls : Nat]
JobRow ==
  [conv : Conversations, prior : Nat, from : Nat, to : Nat, pins : Nat,
   status : Open \cup {"COMPLETED", "FAILED"}, attempts : Nat, due : BOOLEAN,
   lapsed : BOOLEAN]
PlanRow == [version : Nat, request : Nat, from : Nat, to : Nat, pins : Nat]
WorkerRow ==
  [job : Nat, token : Nat, report : {"none", "complete", "fail", "defer"}, pins : Nat]

Typed ==
  /\ chat \in [Conversations -> ChatRow]
  /\ summary \in [Conversations -> Seq(Nat)]
  /\ pins \in [Conversations -> [all : Nat, system : Nat]]
  /\ jobs \in Seq(JobRow)
  /\ plan \in [Conversations -> SUBSET PlanRow]
  /\ worker \in [Workers -> WorkerRow]

\* A job back in the queue has an attempt left, and a worker's token is the number
\* of an attempt its job has counted.
TokensSound ==
  /\ \A n \in DOMAIN jobs :
       /\ jobs[n].attempts <= MAX_ATTEMPTS
       /\ jobs[n].status = "PENDING" => jobs[n].attempts < MAX_ATTEMPTS
  /\ \A w \in Workers :
       /\ worker[w].report # "none" => worker[w].job # NoJob
       /\ worker[w].job # NoJob =>
            /\ worker[w].job \in DOMAIN jobs
            /\ worker[w].token <= jobs[worker[w].job].attempts

\* The last message a conversation's summaries cover.
Last(s) == IF s = << >> THEN 0 ELSE s[Len(s)]

\* An open job is the one its conversation waits for, made for its version, and
\* goes on where the last summary ended.
JobsFollow ==
  /\ \A c \in Conversations : \A n \in Active : jobs[n].conv = c =>
       /\ chat[c].pending = n /\ jobs[n].prior = chat[c].version
       /\ jobs[n].from = Last(summary[c]) + 1
       /\ jobs[n].to < RecentFrom(chat[c].roles)
  /\ \A c \in Conversations : chat[c].pending # NoJob =>
       chat[c].pending \in Active /\ jobs[chat[c].pending].conv = c

\* What a request read holds as long as its version is the conversation's.
PlansFollow ==
  \A c \in Conversations : \A p \in plan[c] :
    /\ p.version <= chat[c].version
    /\ p.version = chat[c].version => p.from = Last(summary[c]) + 1
    /\ p.to < RecentFrom(chat[c].roles)

\* Each summary is what a completed job was made for.
Covers(j, s, v) ==
  /\ j.status = "COMPLETED" /\ j.to = s[v]
  /\ j.from = (IF v = 1 THEN 0 ELSE s[v - 1]) + 1
Linked ==
  \A c \in Conversations :
    /\ chat[c].version = Len(summary[c])
    /\ \A v \in DOMAIN summary[c] : \E n \in DOMAIN jobs :
         jobs[n].conv = c /\ Covers(jobs[n], summary[c], v)

\* The recent turns are never behind a summary.
RecentKept ==
  \A c \in Conversations : summary[c] # << >> =>
    Last(summary[c]) < RecentFrom(chat[c].roles)

OfOwner(c) == {n \in Active : Owner[jobs[n].conv] = Owner[c]}
LimitsKept ==
  /\ Cardinality(Active) <= GLOBAL
  /\ \A c \in Conversations : Cardinality(OfOwner(c)) <= PER_OWNER

Followed == JobsFollow /\ LimitsKept /\ Linked /\ RecentKept

\* The inductive invariant.
Sound == Typed /\ TokensSound /\ PlansFollow /\ Followed

-----------------------------------------------------------------------------
\* A set of numbers has a least one, and a bounded one has a greatest.
LEMMA LeastNumber ==
  ASSUME NEW K, K \subseteq Nat, K # {}
  PROVE  \E k \in K : \A l \in K : k <= l
<1> DEFINE R == {p \in Nat \X Nat : p[1] < p[2]}
<1>1. IsWellFoundedOn(R, Nat)
  BY NatLessThanWellFounded DEF OpToRel
<1>2. PICK k \in K : \A l \in K : ~ (<<l, k>> \in R)
  <2> HIDE DEF R
  <2> QED
    BY <1>1, WFMin
<1>3. ASSUME NEW l \in K
      PROVE  k <= l
  <2>1. k \in Nat /\ l \in Nat
    OBVIOUS
  <2>2. <<l, k>> \in R <=> l < k
    BY <2>1
  <2>3. ~ (<<l, k>> \in R)
    BY <1>2
  <2> HIDE DEF R
  <2> QED
    BY <2>1, <2>2, <2>3
<1> QED
  BY <1>3

LEMMA GreatestNumber ==
  ASSUME NEW m \in Nat, NEW S, S \subseteq 1..m, S # {}
  PROVE  \E g \in S : \A x \in S : x <= g
<1> DEFINE K == {m - x : x \in S}
<1>1. \A x \in S : x \in Nat /\ m - x \in Nat
  OBVIOUS
<1>2. K \subseteq Nat /\ K # {}
  BY <1>1
<1>3. PICK k \in K : \A l \in K : k <= l
  <2> HIDE DEF K
  <2> QED
    BY <1>2, LeastNumber
<1>4. PICK g \in S : k = m - g
  BY <1>3
<1>5. \A x \in S : m - g <= m - x
  BY <1>3, <1>4
<1>6. \A x \in S : x <= g
  BY <1>1, <1>5
<1> QED
  BY <1>6

-----------------------------------------------------------------------------
\* The questions of a conversation, and those from some message on.
Users(roles) == {i \in DOMAIN roles : roles[i] = "USER"}
Since(roles, i) == {j \in Users(roles) : j >= i}

LEMMA UsersFinite ==
  ASSUME NEW roles \in Seq({"USER", "ASSISTANT"})
  PROVE  /\ Len(roles) \in Nat /\ Users(roles) \subseteq 1..Len(roles)
         /\ IsFiniteSet(Users(roles)) /\ Cardinality(Users(roles)) \in Nat
         /\ \A i : IsFiniteSet(Since(roles, i)) /\ Cardinality(Since(roles, i)) \in Nat
<1>1. Len(roles) \in Nat /\ Users(roles) \subseteq 1..Len(roles)
  BY DEF Users
<1>2. IsFiniteSet(1..Len(roles))
  BY <1>1, FS_Interval
<1>3. IsFiniteSet(Users(roles))
  BY <1>1, <1>2, FS_Subset
<1>4. \A i : Since(roles, i) \in SUBSET Users(roles)
  BY DEF Since
<1>5. \A i : IsFiniteSet(Since(roles, i))
  BY <1>3, <1>4, FS_Subset
<1> QED
  BY <1>1, <1>3, <1>5, FS_CardinalityType

\* Where the recent turns begin: at the question that has RECENT - 1 after it.
LEMMA RecentExists ==
  ASSUME NEW roles \in Seq({"USER", "ASSISTANT"}), Cardinality(Users(roles)) >= RECENT
  PROVE  \E i \in Users(roles) : Cardinality(Since(roles, i)) = RECENT
<1> DEFINE U == Users(roles)
           S == {i \in U : Cardinality(Since(roles, i)) >= RECENT}
<1>1. /\ Len(roles) \in Nat /\ U \subseteq 1..Len(roles) /\ Cardinality(U) \in Nat
      /\ \A i : IsFiniteSet(Since(roles, i)) /\ Cardinality(Since(roles, i)) \in Nat
  BY UsersFinite
<1>2. RECENT \in Nat /\ RECENT > 0
  BY MemoryAssumption
<1>3. S # {}
  <2>1. U # {}
    BY <1>2, FS_EmptySet, UsersFinite
  <2>2. PICK i \in U : \A j \in U : i <= j
    <3>1. U \subseteq Nat
      BY <1>1
    <3> HIDE DEF U
    <3> QED
      BY <2>1, <3>1, LeastNumber
  <2>3. Since(roles, i) = U
    BY <1>1, <2>2 DEF Since
  <2>4. Cardinality(Since(roles, i)) >= RECENT
    BY <2>3
  <2> QED
    BY <2>4
<1>4. PICK g \in S : \A x \in S : x <= g
  <2>1. S \subseteq 1..Len(roles)
    BY <1>1
  <2> HIDE DEF S
  <2> QED
    BY <1>1, <1>3, <2>1, GreatestNumber
<1>5. g \in U /\ Cardinality(Since(roles, g)) >= RECENT
  BY <1>4
<1>6. SUFFICES ASSUME Cardinality(Since(roles, g)) > RECENT
               PROVE  FALSE
  BY <1>1, <1>2, <1>5
<1> DEFINE L == Since(roles, g) \ {g}
<1>7. Cardinality(L) = Cardinality(Since(roles, g)) - 1
  <2>1. g \in Since(roles, g)
    BY <1>1, <1>5 DEF Since
  <2> QED
    BY <2>1, <1>1, FS_RemoveElement
<1>8. Cardinality(L) >= RECENT
  BY <1>1, <1>2, <1>6, <1>7
<1>9. L # {}
  BY <1>2, <1>8, FS_EmptySet
<1>10. PICK h \in L : \A j \in L : h <= j
  <2>1. L \subseteq Nat
    BY <1>1 DEF Since
  <2> HIDE DEF L
  <2> QED
    BY <1>9, <2>1, LeastNumber
<1>11. h \in U /\ h > g
  BY <1>1, <1>5, <1>10 DEF Since
<1>12. Since(roles, h) = L
  BY <1>1, <1>5, <1>10, <1>11 DEF Since
<1>13. h \in S
  BY <1>8, <1>11, <1>12
<1> QED
  BY <1>1, <1>4, <1>5, <1>11, <1>13

LEMMA RecentFacts ==
  ASSUME NEW roles \in Seq({"USER", "ASSISTANT"})
  PROVE  /\ RecentFrom(roles) \in Nat
         /\ Cardinality(Users(roles)) < RECENT => RecentFrom(roles) = 0
         /\ Cardinality(Users(roles)) >= RECENT =>
              /\ RecentFrom(roles) \in Users(roles)
              /\ Cardinality(Since(roles, RecentFrom(roles))) = RECENT
<1> DEFINE U == Users(roles)
<1>1. RecentFrom(roles) = IF Cardinality(U) < RECENT THEN 0
                          ELSE CHOOSE i \in U : Cardinality(Since(roles, i)) = RECENT
  BY DEF RecentFrom, Since, Users
<1>2. /\ Cardinality(U) \in Nat /\ RECENT \in Nat /\ U \subseteq 1..Len(roles)
      /\ Len(roles) \in Nat
  BY UsersFinite, MemoryAssumption
<1>3. CASE Cardinality(U) < RECENT
  BY <1>1, <1>2, <1>3
<1>4. CASE Cardinality(U) >= RECENT
  <2>1. \E i \in U : Cardinality(Since(roles, i)) = RECENT
    BY <1>4, RecentExists
  <2>2. RecentFrom(roles) = CHOOSE i \in U : Cardinality(Since(roles, i)) = RECENT
    BY <1>1, <1>2, <1>4
  <2> HIDE DEF U
  <2>3. RecentFrom(roles) \in U /\ Cardinality(Since(roles, RecentFrom(roles))) = RECENT
    BY <2>1, <2>2
  <2>4. RecentFrom(roles) \in Nat
    <3>1. U \subseteq Nat
      BY <1>2
    <3> QED
      BY <2>3, <3>1
  <2> QED
    BY <1>2, <1>4, <2>3, <2>4 DEF U
<1> QED
  BY <1>2, <1>3, <1>4

\* A further message never makes an older turn recent again.
LEMMA RecentGrows ==
  ASSUME NEW roles \in Seq({"USER", "ASSISTANT"}), NEW m \in {"USER", "ASSISTANT"}
  PROVE  /\ Append(roles, m) \in Seq({"USER", "ASSISTANT"})
         /\ RecentFrom(roles) <= RecentFrom(Append(roles, m))
<1> DEFINE more == Append(roles, m)
           r == RecentFrom(roles)
           q == RecentFrom(more)
<1>1. /\ more \in Seq({"USER", "ASSISTANT"}) /\ Len(more) = Len(roles) + 1
      /\ \A i \in 1..Len(roles) : more[i] = roles[i]
      /\ DOMAIN roles = 1..Len(roles) /\ DOMAIN more = 1..Len(more) /\ Len(roles) \in Nat
  OBVIOUS
<1>2. Users(roles) \subseteq Users(more)
  BY <1>1 DEF Users
<1> HIDE DEF more
<1>3. /\ r \in Nat /\ q \in Nat /\ RECENT \in Nat
      /\ IsFiniteSet(Users(more)) /\ Cardinality(Users(more)) \in Nat
      /\ Cardinality(Users(roles)) \in Nat
  BY <1>1, UsersFinite, RecentFacts, MemoryAssumption
<1>4. SUFFICES ASSUME q < r
               PROVE  FALSE
  BY <1>1, <1>3 DEF more
<1>5. Cardinality(Users(roles)) >= RECENT
  BY <1>3, <1>4, RecentFacts
<1>6. r \in Users(roles) /\ Cardinality(Since(roles, r)) = RECENT
  BY <1>5, RecentFacts
<1>7. Cardinality(Users(more)) >= RECENT
  <2>1. Cardinality(Users(roles)) <= Cardinality(Users(more))
    BY <1>2, <1>3, FS_Subset
  <2> QED
    BY <1>3, <1>5, <2>1
<1>8. q \in Users(more) /\ Cardinality(Since(more, q)) = RECENT
  BY <1>1, <1>7, RecentFacts
<1>9. /\ IsFiniteSet(Since(roles, r)) /\ IsFiniteSet(Since(more, q))
      /\ Users(roles) \subseteq 1..Len(roles)
  BY <1>1, UsersFinite
<1>10. q \notin Since(roles, r) /\ Since(roles, r) \cup {q} \subseteq Since(more, q)
  <2>1. \A j \in Since(roles, r) : j \in Nat /\ j >= r /\ j \in Users(more)
    BY <1>2, <1>9 DEF Since
  <2>2. \A j \in Since(roles, r) : j >= q /\ j # q
    BY <2>1, <1>3, <1>4
  <2>3. q >= q
    BY <1>3
  <2> HIDE DEF r, q
  <2> QED
    BY <2>1, <2>2, <2>3, <1>8 DEF Since
<1>11. Cardinality(Since(roles, r) \cup {q}) = RECENT + 1
  BY <1>6, <1>9, <1>10, FS_AddElement
<1>12. Cardinality(Since(roles, r) \cup {q}) <= RECENT
  BY <1>8, <1>9, <1>10, FS_Subset
<1> QED
  BY <1>3, <1>11, <1>12

-----------------------------------------------------------------------------
\* What makes a job stays as it was scheduled.
Same(j, k) ==
  /\ k.conv = j.conv /\ k.prior = j.prior /\ k.from = j.from /\ k.to = j.to
  /\ k.pins = j.pins
Statuses == Open \cup {"COMPLETED", "FAILED"}

LEMMA SetStatus ==
  ASSUME NEW j \in JobRow, NEW s \in Statuses
  PROVE  LET k == [j EXCEPT !.status = s] IN
         /\ k \in JobRow /\ Same(j, k) /\ k.status = s /\ k.attempts = j.attempts
<1> DEFINE k == [j EXCEPT !.status = s]
<1>1. k \in JobRow
  BY DEF JobRow, Statuses
<1>2. Same(j, k) /\ k.status = s /\ k.attempts = j.attempts
  BY DEF JobRow, Same
<1> QED
  BY <1>1, <1>2

LEMMA SetDue ==
  ASSUME NEW j \in JobRow, NEW d \in BOOLEAN
  PROVE  LET k == [j EXCEPT !.due = d] IN
         /\ k \in JobRow /\ Same(j, k) /\ k.status = j.status /\ k.attempts = j.attempts
<1> DEFINE k == [j EXCEPT !.due = d]
<1>1. k \in JobRow
  BY DEF JobRow
<1>2. Same(j, k) /\ k.status = j.status /\ k.attempts = j.attempts
  BY DEF JobRow, Same
<1> QED
  BY <1>1, <1>2

LEMMA SetLapsed ==
  ASSUME NEW j \in JobRow, NEW d \in BOOLEAN
  PROVE  LET k == [j EXCEPT !.lapsed = d] IN
         /\ k \in JobRow /\ Same(j, k) /\ k.status = j.status /\ k.attempts = j.attempts
<1> DEFINE k == [j EXCEPT !.lapsed = d]
<1>1. k \in JobRow
  BY DEF JobRow
<1>2. Same(j, k) /\ k.status = j.status /\ k.attempts = j.attempts
  BY DEF JobRow, Same
<1> QED
  BY <1>1, <1>2

LEMMA SetAttempts ==
  ASSUME NEW j \in JobRow, NEW a \in Nat
  PROVE  LET k == [j EXCEPT !.attempts = a] IN
         /\ k \in JobRow /\ Same(j, k) /\ k.status = j.status /\ k.attempts = a
<1> DEFINE k == [j EXCEPT !.attempts = a]
<1>1. k \in JobRow
  BY DEF JobRow
<1>2. Same(j, k) /\ k.status = j.status /\ k.attempts = a
  BY DEF JobRow, Same
<1> QED
  BY <1>1, <1>2

LEMMA EndedFacts ==
  ASSUME NEW j \in JobRow, NEW s \in Statuses
  PROVE  /\ Ended(j, s) \in JobRow /\ Same(j, Ended(j, s))
         /\ Ended(j, s).status = s /\ Ended(j, s).attempts = j.attempts
<1> DEFINE k == [j EXCEPT !.status = s]
<1>1. k \in JobRow /\ Same(j, k) /\ k.status = s /\ k.attempts = j.attempts
  BY SetStatus
<1>2. Ended(j, s) = [k EXCEPT !.lapsed = FALSE]
  BY DEF Ended
<1> HIDE DEF k
<1>3. /\ Ended(j, s) \in JobRow /\ Same(k, Ended(j, s))
      /\ Ended(j, s).status = k.status /\ Ended(j, s).attempts = k.attempts
  BY <1>1, <1>2, SetLapsed
<1> QED
  BY <1>1, <1>3 DEF Same

LEMMA SweptFacts ==
  ASSUME NEW j \in JobRow
  PROVE  /\ Swept(j) \in JobRow /\ Same(j, Swept(j)) /\ Swept(j).attempts = j.attempts
         /\ \/ Swept(j).status = j.status
            \/ /\ j.status = "PROCESSING"
               /\ \/ Swept(j).status = "PENDING" /\ j.attempts < MAX_ATTEMPTS
                  \/ Swept(j).status = "FAILED"
<1>1. CASE j.status # "PROCESSING" \/ ~j.lapsed
  BY <1>1 DEF Swept, Same
<1>2. CASE ~ (j.status # "PROCESSING" \/ ~j.lapsed)
  <2> DEFINE s == IF j.status = "PROCESSING" /\ j.attempts < MAX_ATTEMPTS
                  THEN "PENDING" ELSE "FAILED"
             k == [j EXCEPT !.status = s]
             h == [k EXCEPT !.due = TRUE]
  <2>1. Swept(j) = [h EXCEPT !.lapsed = FALSE]
    BY <1>2 DEF Swept
  <2>2. /\ s \in Statuses
        /\ s = "FAILED" \/ (s = "PENDING" /\ j.attempts < MAX_ATTEMPTS)
    BY DEF Statuses, Open
  <2> HIDE DEF s
  <2>3. k \in JobRow /\ Same(j, k) /\ k.status = s /\ k.attempts = j.attempts
    BY <2>2, SetStatus
  <2> HIDE DEF k
  <2>4. h \in JobRow /\ Same(k, h) /\ h.status = k.status /\ h.attempts = k.attempts
    BY <2>3, SetDue
  <2> HIDE DEF h
  <2>5. /\ Swept(j) \in JobRow /\ Same(h, Swept(j)) /\ Swept(j).status = h.status
        /\ Swept(j).attempts = h.attempts
    BY <2>1, <2>4, SetLapsed
  <2> QED
    BY <1>2, <2>2, <2>3, <2>4, <2>5 DEF Same
<1> QED
  BY <1>1, <1>2

LEMMA LeasedFacts ==
  ASSUME NEW j \in JobRow
  PROVE  /\ Leased(j) \in JobRow /\ Same(j, Leased(j))
         /\ Leased(j).status = "PROCESSING" /\ Leased(j).attempts = j.attempts + 1
<1> DEFINE k == [j EXCEPT !.status = "PROCESSING"]
           h == [k EXCEPT !.attempts = j.attempts + 1]
<1>1. k \in JobRow /\ Same(j, k) /\ k.status = "PROCESSING" /\ k.attempts = j.attempts
  BY SetStatus DEF Statuses, Open
<1>2. j.attempts + 1 \in Nat
  BY DEF JobRow
<1>3. Leased(j) = [h EXCEPT !.lapsed = FALSE]
  BY DEF Leased
<1> HIDE DEF k
<1>4. h \in JobRow /\ Same(k, h) /\ h.status = k.status /\ h.attempts = j.attempts + 1
  BY <1>1, <1>2, SetAttempts
<1> HIDE DEF h
<1>5. /\ Leased(j) \in JobRow /\ Same(h, Leased(j))
      /\ Leased(j).status = h.status /\ Leased(j).attempts = h.attempts
  BY <1>3, <1>4, SetLapsed
<1> QED
  BY <1>1, <1>4, <1>5 DEF Same

LEMMA ReturnedFacts ==
  ASSUME NEW j \in JobRow
  PROVE  /\ Returned(j) \in JobRow /\ Same(j, Returned(j)) /\ Returned(j).attempts = j.attempts
         /\ Returned(j).status =
              IF j.attempts >= MAX_ATTEMPTS THEN "FAILED" ELSE "PENDING"
<1>1. CASE j.attempts >= MAX_ATTEMPTS
  <2>1. Returned(j) = Ended(j, "FAILED") /\ "FAILED" \in Statuses
    BY <1>1 DEF Returned, Statuses
  <2> QED
    BY <1>1, <2>1, EndedFacts
<1>2. CASE ~ (j.attempts >= MAX_ATTEMPTS)
  <2> DEFINE k == [j EXCEPT !.status = "PENDING"]
             h == [k EXCEPT !.due = FALSE]
  <2>1. k \in JobRow /\ Same(j, k) /\ k.status = "PENDING" /\ k.attempts = j.attempts
    BY SetStatus DEF Statuses, Open
  <2>2. Returned(j) = [h EXCEPT !.lapsed = FALSE]
    BY <1>2 DEF Returned
  <2> HIDE DEF k
  <2>3. h \in JobRow /\ Same(k, h) /\ h.status = k.status /\ h.attempts = k.attempts
    BY <2>1, SetDue
  <2> HIDE DEF h
  <2>4. /\ Returned(j) \in JobRow /\ Same(h, Returned(j))
        /\ Returned(j).status = h.status /\ Returned(j).attempts = h.attempts
    BY <2>2, <2>3, SetLapsed
  <2> QED
    BY <1>2, <2>1, <2>3, <2>4 DEF Same
<1> QED
  BY <1>1, <1>2

LEMMA AgedFacts ==
  ASSUME NEW j \in JobRow
  PROVE  /\ Aged(j) \in JobRow /\ Same(j, Aged(j)) /\ Aged(j).status = j.status
         /\ Aged(j).attempts = j.attempts
<1>1. Aged(j) \in {j, [j EXCEPT !.lapsed = TRUE], [j EXCEPT !.due = TRUE]}
  BY DEF Aged
<1>2. TRUE \in BOOLEAN
  OBVIOUS
<1>3. CASE Aged(j) = j
  BY <1>3 DEF Same
<1>4. CASE Aged(j) = [j EXCEPT !.lapsed = TRUE]
  BY <1>2, <1>4, SetLapsed
<1>5. CASE Aged(j) = [j EXCEPT !.due = TRUE]
  BY <1>2, <1>5, SetDue
<1> QED
  BY <1>1, <1>3, <1>4, <1>5

-----------------------------------------------------------------------------
LEMMA LastOf ==
  ASSUME NEW s \in Seq(Nat)
  PROVE  Last(s) \in Nat
<1>1. CASE s = << >>
  BY <1>1 DEF Last
<1>2. CASE s # << >>
  <2>1. Len(s) \in DOMAIN s
    BY <1>2
  <2>2. s[Len(s)] \in Nat
    BY <2>1
  <2> QED
    BY <1>2, <2>2 DEF Last
<1> QED
  BY <1>1, <1>2

LEMMA TypedFacts ==
  ASSUME Typed
  PROVE  /\ DOMAIN jobs = 1..Len(jobs) /\ Len(jobs) \in Nat
         /\ \A n \in DOMAIN jobs : n \in Nat /\ n # NoJob /\ jobs[n] \in JobRow
         /\ Active \subseteq DOMAIN jobs /\ IsFiniteSet(Active)
         /\ \A c : IsFiniteSet(OfOwner(c))
         /\ \A c \in Conversations :
              /\ chat[c] \in ChatRow /\ summary[c] \in Seq(Nat)
              /\ Last(summary[c]) \in Nat /\ RecentFrom(chat[c].roles) \in Nat
<1>0. jobs \in Seq(JobRow)
  BY DEF Typed
<1>1. /\ DOMAIN jobs = 1..Len(jobs) /\ Len(jobs) \in Nat
      /\ \A n \in DOMAIN jobs : n \in Nat /\ n # NoJob /\ jobs[n] \in JobRow
  <2>1. DOMAIN jobs = 1..Len(jobs) /\ Len(jobs) \in Nat
    BY <1>0
  <2>2. \A n \in 1..Len(jobs) : n \in Nat /\ n # 0 /\ jobs[n] \in JobRow
    BY <1>0
  <2> QED
    BY <2>1, <2>2 DEF NoJob
<1>2. Active \subseteq DOMAIN jobs
  BY DEF Active
<1>3. IsFiniteSet(Active)
  <2>1. IsFiniteSet(1..Len(jobs))
    BY <1>1, FS_Interval
  <2>2. Active \in SUBSET (1..Len(jobs))
    BY <1>1, <1>2
  <2> QED
    BY <2>1, <2>2, FS_Subset
<1>4. \A c : OfOwner(c) \in SUBSET Active
  BY DEF OfOwner
<1>5. \A c : IsFiniteSet(OfOwner(c))
  BY <1>3, <1>4, FS_Subset
<1>6. ASSUME NEW c \in Conversations
      PROVE  /\ chat[c] \in ChatRow /\ summary[c] \in Seq(Nat)
             /\ Last(summary[c]) \in Nat /\ RecentFrom(chat[c].roles) \in Nat
  <2>1. chat[c] \in ChatRow /\ summary[c] \in Seq(Nat)
    BY DEF Typed
  <2>2. chat[c].roles \in Seq({"USER", "ASSISTANT"})
    BY <2>1 DEF ChatRow
  <2> QED
    BY <2>1, <2>2, LastOf, RecentFacts
<1> QED
  BY <1>1, <1>2, <1>3, <1>5, <1>6

\* A step of the jobs: no row is made anew, reopened or uncompleted.
JobsMove ==
  /\ DOMAIN jobs' = DOMAIN jobs
  /\ \A n \in DOMAIN jobs :
       /\ Same(jobs[n], jobs'[n])
       /\ jobs'[n].status \in Open => jobs[n].status \in Open
       /\ jobs[n].status = "COMPLETED" => jobs'[n].status = "COMPLETED"

\* A step of the conversations: each waits on for its job while that is open.
ChatsMove ==
  \A c \in Conversations :
    /\ chat'[c].version = chat[c].version
    /\ RecentFrom(chat'[c].roles) \in Nat
    /\ RecentFrom(chat[c].roles) <= RecentFrom(chat'[c].roles)
    /\ chat'[c].pending = IF chat[c].pending \in Active' THEN chat[c].pending ELSE NoJob

LEMMA FollowStep ==
  ASSUME Typed, Followed, JobsMove, ChatsMove, summary' = summary
  PROVE  Followed'
<1>1. Active' \subseteq Active
  BY DEF Active, JobsMove
<1>3. \A c \in Conversations : Last(summary[c]) \in Nat /\ RecentFrom(chat[c].roles) \in Nat
  BY TypedFacts
<1>4. \A n \in Active : n \in DOMAIN jobs /\ jobs[n] \in JobRow
  BY TypedFacts
<1>5. \A n \in Active' : Same(jobs[n], jobs'[n])
  BY <1>1, <1>4 DEF JobsMove
<1>6. JobsFollow'
  <2>1. ASSUME NEW c \in Conversations, NEW n \in Active', jobs'[n].conv = c
        PROVE  /\ chat'[c].pending = n /\ jobs'[n].prior = chat'[c].version
               /\ jobs'[n].from = Last(summary'[c]) + 1
               /\ jobs'[n].to < RecentFrom(chat'[c].roles)
    <3>1. /\ n \in Active /\ jobs[n] \in JobRow /\ Same(jobs[n], jobs'[n])
      BY <1>1, <1>4, <1>5
    <3>2. jobs[n].conv = c /\ jobs[n].to \in Nat
      BY <2>1, <3>1 DEF JobRow, Same
    <3>3. /\ chat[c].pending = n /\ jobs[n].prior = chat[c].version
          /\ jobs[n].from = Last(summary[c]) + 1
          /\ jobs[n].to < RecentFrom(chat[c].roles)
      BY <3>1, <3>2 DEF Followed, JobsFollow
    <3>4. /\ chat'[c].pending = n /\ chat'[c].version = chat[c].version
          /\ RecentFrom(chat'[c].roles) \in Nat
          /\ RecentFrom(chat[c].roles) <= RecentFrom(chat'[c].roles)
      BY <2>1, <3>2, <3>3 DEF ChatsMove
    <3>5. jobs[n].to < RecentFrom(chat'[c].roles)
      BY <1>3, <3>2, <3>3, <3>4
    <3> QED
      BY <3>1, <3>3, <3>4, <3>5 DEF Same
  <2>2. ASSUME NEW c \in Conversations, chat'[c].pending # NoJob
        PROVE  chat'[c].pending \in Active' /\ jobs'[chat'[c].pending].conv = c
    <3>1. chat'[c].pending = chat[c].pending /\ chat[c].pending \in Active'
      BY <2>2 DEF ChatsMove
    <3>2. jobs[chat[c].pending].conv = c
      BY <2>2, <3>1 DEF Followed, JobsFollow
    <3> QED
      BY <1>5, <3>1, <3>2 DEF Same
  <2> QED
    BY <2>1, <2>2 DEF JobsFollow
<1>7. LimitsKept'
  <2>1. IsFiniteSet(Active) /\ \A c : IsFiniteSet(OfOwner(c))
    BY TypedFacts
  <2>2. \A c \in Conversations : OfOwner(c)' \in SUBSET OfOwner(c)
    BY <1>1, <1>5 DEF OfOwner, Same
  <2>3. Cardinality(Active') <= Cardinality(Active) /\ Cardinality(Active') \in Nat
        /\ Cardinality(Active) \in Nat
    BY <1>1, <2>1, FS_Subset, FS_CardinalityType
  <2>4. \A c \in Conversations :
          /\ Cardinality(OfOwner(c)') <= Cardinality(OfOwner(c))
          /\ Cardinality(OfOwner(c)') \in Nat /\ Cardinality(OfOwner(c)) \in Nat
    BY <2>1, <2>2, FS_Subset, FS_CardinalityType
  <2>5. GLOBAL \in Nat /\ PER_OWNER \in Nat
    BY MemoryAssumption
  <2>6. Cardinality(Active') <= GLOBAL
    BY <2>3, <2>5 DEF Followed, LimitsKept
  <2>7. \A c \in Conversations : Cardinality(OfOwner(c)') <= PER_OWNER
    BY <2>4, <2>5 DEF Followed, LimitsKept
  <2> QED
    BY <2>6, <2>7 DEF LimitsKept
<1>8. Linked'
  <2>1. ASSUME NEW c \in Conversations, NEW v \in DOMAIN summary'[c]
        PROVE  \E n \in DOMAIN jobs' : jobs'[n].conv = c /\ Covers(jobs'[n], summary'[c], v)
    <3>1. PICK n \in DOMAIN jobs : jobs[n].conv = c /\ Covers(jobs[n], summary[c], v)
      BY <2>1 DEF Followed, Linked
    <3>2. n \in DOMAIN jobs' /\ Same(jobs[n], jobs'[n])
      BY <3>1 DEF JobsMove
    <3>3. jobs'[n].status = "COMPLETED"
      BY <3>1 DEF JobsMove, Covers
    <3>4. Covers(jobs'[n], summary'[c], v)
      BY <3>1, <3>2, <3>3 DEF Same, Covers
    <3> QED
      BY <3>1, <3>2, <3>4 DEF Same
  <2>2. \A c \in Conversations : chat'[c].version = Len(summary'[c])
    BY DEF Followed, Linked, ChatsMove
  <2> QED
    BY <2>1, <2>2 DEF Linked
<1>9. RecentKept'
  <2>1. ASSUME NEW c \in Conversations, summary'[c] # << >>
        PROVE  Last(summary'[c]) < RecentFrom(chat'[c].roles)
    <3>1. Last(summary[c]) < RecentFrom(chat[c].roles)
      BY <2>1 DEF Followed, RecentKept
    <3>2. /\ RecentFrom(chat'[c].roles) \in Nat
          /\ RecentFrom(chat[c].roles) <= RecentFrom(chat'[c].roles)
      BY DEF ChatsMove
    <3>3. Last(summary[c]) < RecentFrom(chat'[c].roles)
      BY <1>3, <3>1, <3>2
    <3> QED
      BY <3>3
  <2> QED
    BY <2>1 DEF RecentKept
<1> QED
  BY <1>6, <1>7, <1>8, <1>9 DEF Followed

LEMMA PlansStep ==
  ASSUME Typed, PlansFollow, ChatsMove, summary' = summary,
         \A c \in Conversations : plan'[c] \subseteq plan[c]
  PROVE  PlansFollow'
<1>1. ASSUME NEW c \in Conversations, NEW p \in plan'[c]
      PROVE  /\ p.version <= chat'[c].version
             /\ p.version = chat'[c].version => p.from = Last(summary'[c]) + 1
             /\ p.to < RecentFrom(chat'[c].roles)
  <2>1. p \in plan[c]
    BY <1>1
  <2>2. p \in PlanRow
    BY <2>1 DEF Typed
  <2>3. /\ p.version <= chat[c].version
        /\ p.version = chat[c].version => p.from = Last(summary[c]) + 1
        /\ p.to < RecentFrom(chat[c].roles)
    BY <2>1 DEF PlansFollow
  <2>4. p.to \in Nat
    BY <2>2 DEF PlanRow
  <2>5. /\ RecentFrom(chat[c].roles) \in Nat /\ RecentFrom(chat'[c].roles) \in Nat
        /\ RecentFrom(chat[c].roles) <= RecentFrom(chat'[c].roles)
        /\ chat'[c].version = chat[c].version
    BY TypedFacts DEF ChatsMove
  <2>6. p.to < RecentFrom(chat'[c].roles)
    BY <2>3, <2>4, <2>5
  <2> QED
    BY <2>3, <2>5, <2>6
<1> QED
  BY <1>1 DEF PlansFollow

-----------------------------------------------------------------------------
\* The jobs stay and each conversation keeps its version and its job, and loses no
\* message: turns, pins, reads, crashes and lost requests.
Quiet ==
  /\ jobs' = jobs /\ summary' = summary
  /\ \A c \in Conversations :
       /\ chat'[c].version = chat[c].version /\ chat'[c].pending = chat[c].pending
       /\ chat'[c].roles \in {chat[c].roles, Append(chat[c].roles, "USER"),
                              Append(chat[c].roles, "ASSISTANT")}

LEMMA QuietMoves ==
  ASSUME Typed, JobsFollow, Quiet
  PROVE  JobsMove /\ ChatsMove /\ summary' = summary
<1>1. JobsMove
  BY DEF Quiet, JobsMove, Same
<1>2. ASSUME NEW c \in Conversations
      PROVE  /\ chat'[c].version = chat[c].version
             /\ RecentFrom(chat'[c].roles) \in Nat
             /\ RecentFrom(chat[c].roles) <= RecentFrom(chat'[c].roles)
             /\ chat'[c].pending = IF chat[c].pending \in Active' THEN chat[c].pending ELSE NoJob
  <2>1. chat[c].roles \in Seq({"USER", "ASSISTANT"}) /\ RecentFrom(chat[c].roles) \in Nat
    BY TypedFacts DEF ChatRow
  <2>2. /\ chat'[c].version = chat[c].version /\ chat'[c].pending = chat[c].pending
        /\ chat'[c].roles \in {chat[c].roles, Append(chat[c].roles, "USER"),
                               Append(chat[c].roles, "ASSISTANT")}
    BY DEF Quiet
  <2>3. Active' = Active
    BY DEF Quiet, Active
  <2>4. /\ RecentFrom(chat'[c].roles) \in Nat
        /\ RecentFrom(chat[c].roles) <= RecentFrom(chat'[c].roles)
    <3>1. CASE chat'[c].roles = chat[c].roles
      BY <2>1, <3>1
    <3>2. CASE chat'[c].roles = Append(chat[c].roles, "USER")
      <4>1. /\ Append(chat[c].roles, "USER") \in Seq({"USER", "ASSISTANT"})
            /\ RecentFrom(chat[c].roles) <= RecentFrom(Append(chat[c].roles, "USER"))
        BY <2>1, RecentGrows
      <4> QED
        BY <3>2, <4>1, RecentFacts
    <3>3. CASE chat'[c].roles = Append(chat[c].roles, "ASSISTANT")
      <4>1. /\ Append(chat[c].roles, "ASSISTANT") \in Seq({"USER", "ASSISTANT"})
            /\ RecentFrom(chat[c].roles) <= RecentFrom(Append(chat[c].roles, "ASSISTANT"))
        BY <2>1, RecentGrows
      <4> QED
        BY <3>3, <4>1, RecentFacts
    <3> QED
      BY <2>2, <3>1, <3>2, <3>3
  <2>5. chat[c].pending = IF chat[c].pending \in Active' THEN chat[c].pending ELSE NoJob
    BY <2>3 DEF JobsFollow
  <2> QED
    BY <2>2, <2>4, <2>5
<1>3. ChatsMove
  BY <1>2 DEF ChatsMove
<1> QED
  BY <1>1, <1>3 DEF Quiet

\* What each turn writes.
LEMMA AskFacts ==
  ASSUME Typed, NEW c \in Conversations, Ask(c)
  PROVE  Quiet /\ chat' \in [Conversations -> ChatRow] /\ plan' = plan
<1>1. /\ chat' = [chat EXCEPT ![c].roles = Append(@, "USER"), ![c].turn = "asked"]
      /\ UNCHANGED <<summary, pins, jobs, plan, worker>>
  BY DEF Ask
<1>2. chat \in [Conversations -> ChatRow]
  BY DEF Typed
<1>3. Append(chat[c].roles, "USER") \in Seq({"USER", "ASSISTANT"})
  BY <1>2 DEF ChatRow
<1>4. chat' \in [Conversations -> ChatRow]
  BY <1>1, <1>2, <1>3 DEF ChatRow
<1>5. \A d \in Conversations :
        /\ chat'[d].version = chat[d].version /\ chat'[d].pending = chat[d].pending
        /\ chat'[d].roles = IF d = c THEN Append(chat[d].roles, "USER") ELSE chat[d].roles
  BY <1>1, <1>2 DEF ChatRow
<1> QED
  BY <1>1, <1>4, <1>5 DEF Quiet

LEMMA AnswerFacts ==
  ASSUME Typed, NEW c \in Conversations, Answer(c)
  PROVE  Quiet /\ chat' \in [Conversations -> ChatRow] /\ plan' = plan
<1>1. /\ chat' = [chat EXCEPT ![c].roles = Append(@, "ASSISTANT"),
                              ![c].turn = "answered", ![c].calls = 1]
      /\ UNCHANGED <<summary, pins, jobs, plan, worker>>
  BY DEF Answer
<1>2. chat \in [Conversations -> ChatRow]
  BY DEF Typed
<1>3. Append(chat[c].roles, "ASSISTANT") \in Seq({"USER", "ASSISTANT"})
  BY <1>2 DEF ChatRow
<1>4. chat' \in [Conversations -> ChatRow]
  <2> DEFINE r == [chat[c] EXCEPT !.roles = Append(@, "ASSISTANT"),
                                  !.turn = "answered", !.calls = 1]
  <2>1. r \in ChatRow
    BY <1>2, <1>3 DEF ChatRow
  <2>2. chat' = [chat EXCEPT ![c] = r]
    BY <1>1, <1>2
  <2> HIDE DEF r
  <2> QED
    BY <1>2, <2>1, <2>2
<1>5. \A d \in Conversations :
        /\ chat'[d].version = chat[d].version /\ chat'[d].pending = chat[d].pending
        /\ chat'[d].roles = IF d = c THEN Append(chat[d].roles, "ASSISTANT")
                            ELSE chat[d].roles
  BY <1>1, <1>2 DEF ChatRow
<1> QED
  BY <1>1, <1>4, <1>5 DEF Quiet

LEMMA FailTurnFacts ==
  ASSUME Typed, NEW c \in Conversations, FailTurn(c)
  PROVE  Quiet /\ chat' \in [Conversations -> ChatRow] /\ plan' = plan
<1>1. /\ chat' = [chat EXCEPT ![c].turn = "failed"]
      /\ UNCHANGED <<summary, pins, jobs, plan, worker>>
  BY DEF FailTurn
<1>2. chat \in [Conversations -> ChatRow]
  BY DEF Typed
<1>3. chat' \in [Conversations -> ChatRow]
  BY <1>1, <1>2 DEF ChatRow
<1>4. \A d \in Conversations :
        /\ chat'[d].version = chat[d].version /\ chat'[d].pending = chat[d].pending
        /\ chat'[d].roles = chat[d].roles
  BY <1>1, <1>2 DEF ChatRow
<1> QED
  BY <1>1, <1>3, <1>4 DEF Quiet

\* A request's calls are spent.
LEMMA SpentFacts ==
  ASSUME Typed, NEW c \in Conversations, chat' = [chat EXCEPT ![c].calls = 0],
         UNCHANGED <<jobs, summary>>
  PROVE  Quiet /\ chat' \in [Conversations -> ChatRow]
<1>1. chat \in [Conversations -> ChatRow]
  BY DEF Typed
<1>2. chat' \in [Conversations -> ChatRow]
  BY <1>1 DEF ChatRow
<1>3. \A d \in Conversations :
        /\ chat'[d].version = chat[d].version /\ chat'[d].pending = chat[d].pending
        /\ chat'[d].roles = chat[d].roles
  BY <1>1 DEF ChatRow
<1> QED
  BY <1>2, <1>3 DEF Quiet

-----------------------------------------------------------------------------
\* What the workers do to the jobs.
Released(c) == [chat[c] EXCEPT !.pending = NoJob]

\* A claim or a report frees the conversations whose job it ended.
Freed(ended) ==
  chat' = [c \in Conversations |-> IF chat[c].pending \in ended THEN Released(c) ELSE chat[c]]

LEMMA FreedFacts ==
  ASSUME Typed, JobsFollow, NEW ended, Freed(ended), JobsMove,
         \A n \in Active : n \in Active' <=> n \notin ended,
         NoJob \notin ended
  PROVE  ChatsMove /\ chat' \in [Conversations -> ChatRow]
<1>1. \A c \in Conversations : chat[c] \in ChatRow /\ RecentFrom(chat[c].roles) \in Nat
  BY TypedFacts
<1>2. \A c \in Conversations :
        /\ Released(c) \in ChatRow /\ Released(c).roles = chat[c].roles
        /\ Released(c).version = chat[c].version /\ Released(c).pending = NoJob
  BY <1>1 DEF ChatRow, Released, NoJob
<1>3. Active' \subseteq Active
  BY DEF Active, JobsMove
<1>4. ASSUME NEW c \in Conversations
      PROVE  /\ chat'[c] \in ChatRow /\ chat'[c].roles = chat[c].roles
             /\ chat'[c].version = chat[c].version
             /\ chat'[c].pending = IF chat[c].pending \in Active' THEN chat[c].pending ELSE NoJob
  <2>1. chat'[c] = IF chat[c].pending \in ended THEN Released(c) ELSE chat[c]
    BY DEF Freed
  <2>2. CASE chat[c].pending = NoJob
    <3>1. chat'[c] = chat[c]
      BY <2>1, <2>2
    <3> QED
      BY <1>1, <2>2, <3>1
  <2>3. CASE chat[c].pending # NoJob
    <3>1. chat[c].pending \in Active
      BY <2>3 DEF JobsFollow
    <3>2. chat[c].pending \in Active' <=> chat[c].pending \notin ended
      BY <3>1
    <3>3. CASE chat[c].pending \in ended
      BY <1>2, <2>1, <3>2, <3>3
    <3>4. CASE chat[c].pending \notin ended
      BY <1>1, <2>1, <3>2, <3>4
    <3> QED
      BY <3>3, <3>4
  <2> QED
    BY <2>2, <2>3
<1>5. ChatsMove
  <2>1. \A c \in Conversations : RecentFrom(chat'[c].roles) \in Nat
          /\ RecentFrom(chat[c].roles) <= RecentFrom(chat'[c].roles)
    BY <1>1, <1>4
  <2> QED
    BY <1>4, <2>1 DEF ChatsMove
<1>6. chat' \in [Conversations -> ChatRow]
  <2>1. chat' = [c \in Conversations |-> chat'[c]]
    BY DEF Freed
  <2> QED
    BY <1>4, <2>1
<1> QED
  BY <1>5, <1>6

\* The rows of a claim before it chooses one.
SweptJobs == [n \in DOMAIN jobs |-> Swept(jobs[n])]
Gone == {n \in DOMAIN jobs : jobs[n].status # SweptJobs[n].status
                               /\ SweptJobs[n].status = "FAILED"}

LEMMA SweptJobsFacts ==
  ASSUME Typed, TokensSound
  PROVE  /\ DOMAIN SweptJobs = DOMAIN jobs
         /\ \A n \in DOMAIN jobs :
              /\ SweptJobs[n] \in JobRow /\ Same(jobs[n], SweptJobs[n])
              /\ SweptJobs[n].attempts = jobs[n].attempts
              /\ SweptJobs[n].status \in Open => jobs[n].status \in Open
              /\ jobs[n].status = "COMPLETED" => SweptJobs[n].status = "COMPLETED"
              /\ SweptJobs[n].status = "PENDING" => jobs[n].attempts < MAX_ATTEMPTS
              /\ jobs[n].status \in Open =>
                   (SweptJobs[n].status \in Open <=> n \notin Gone)
<1>1. DOMAIN SweptJobs = DOMAIN jobs
  BY DEF SweptJobs
<1>2. ASSUME NEW n \in DOMAIN jobs
      PROVE  /\ SweptJobs[n] \in JobRow /\ Same(jobs[n], SweptJobs[n])
             /\ SweptJobs[n].attempts = jobs[n].attempts
             /\ SweptJobs[n].status \in Open => jobs[n].status \in Open
             /\ jobs[n].status = "COMPLETED" => SweptJobs[n].status = "COMPLETED"
             /\ SweptJobs[n].status = "PENDING" => jobs[n].attempts < MAX_ATTEMPTS
             /\ jobs[n].status \in Open =>
                  (SweptJobs[n].status \in Open <=> n \notin Gone)
  <2>1. jobs[n] \in JobRow
    BY TypedFacts
  <2>2. SweptJobs[n] = Swept(jobs[n])
    BY DEF SweptJobs
  <2>3. /\ SweptJobs[n] \in JobRow /\ Same(jobs[n], SweptJobs[n])
        /\ SweptJobs[n].attempts = jobs[n].attempts
        /\ \/ SweptJobs[n].status = jobs[n].status
           \/ /\ jobs[n].status = "PROCESSING"
              /\ \/ SweptJobs[n].status = "PENDING" /\ jobs[n].attempts < MAX_ATTEMPTS
                 \/ SweptJobs[n].status = "FAILED"
    BY <2>1, <2>2, SweptFacts
  <2>4. jobs[n].status = "PENDING" => jobs[n].attempts < MAX_ATTEMPTS
    BY DEF TokensSound
  <2>5. n \in Gone <=> /\ jobs[n].status # SweptJobs[n].status
                       /\ SweptJobs[n].status = "FAILED"
    BY DEF Gone
  <2> HIDE DEF SweptJobs
  <2>6. SweptJobs[n].status = "PENDING" => jobs[n].attempts < MAX_ATTEMPTS
    BY <2>3, <2>4
  <2>7. CASE SweptJobs[n].status = jobs[n].status
    BY <2>3, <2>5, <2>6, <2>7
  <2>8. CASE SweptJobs[n].status # jobs[n].status
    <3>1. jobs[n].status = "PROCESSING" /\ SweptJobs[n].status \in {"PENDING", "FAILED"}
      BY <2>3, <2>8
    <3> QED
      BY <2>3, <2>5, <2>6, <3>1 DEF Open
  <2> QED
    BY <2>7, <2>8
<1> QED
  BY <1>1, <1>2

LEMMA RowsTyped ==
  ASSUME NEW rows \in Seq(JobRow), NEW new, DOMAIN new = DOMAIN rows,
         new = [n \in DOMAIN rows |-> new[n]], \A n \in DOMAIN rows : new[n] \in JobRow
  PROVE  new \in Seq(JobRow)
<1>1. DOMAIN rows = 1..Len(rows) /\ Len(rows) \in Nat
  OBVIOUS
<1>2. new \in [1..Len(rows) -> JobRow]
  BY <1>1
<1> QED
  BY <1>1, <1>2

\* A claim either leaves the swept rows or leases one that is due.
LEMMA ClaimChoice ==
  ASSUME NEW w \in Workers, ClaimCompaction(w)
  PROVE  /\ Freed(Gone) /\ worker[w] = Idle /\ UNCHANGED <<summary, pins, plan>>
         /\ \/ jobs' = SweptJobs /\ worker' = worker
            \/ \E n \in DOMAIN jobs :
                 /\ SweptJobs[n].status = "PENDING"
                 /\ jobs' = [SweptJobs EXCEPT ![n] = Leased(@)]
                 /\ worker' = [worker EXCEPT ![w].job = n,
                                             ![w].token = SweptJobs[n].attempts + 1]
<1>1. /\ worker[w] = Idle /\ UNCHANGED <<summary, pins, plan>>
      /\ chat' = [c \in Conversations |->
           IF chat[c].pending \in Gone THEN [chat[c] EXCEPT !.pending = NoJob] ELSE chat[c]]
      /\ \E n \in Oldest(SweptJobs) \cup (IF Oldest(SweptJobs) = {} THEN {NoJob} ELSE {}) :
           /\ jobs' = IF n = NoJob THEN SweptJobs ELSE [SweptJobs EXCEPT ![n] = Leased(@)]
           /\ worker' = IF n = NoJob THEN worker
                        ELSE [worker EXCEPT ![w].job = n,
                                            ![w].token = SweptJobs[n].attempts + 1]
  BY DEF ClaimCompaction, Gone, SweptJobs
<1>2. Freed(Gone)
  BY <1>1 DEF Freed, Released
<1>3. \A n \in Oldest(SweptJobs) : n \in DOMAIN jobs /\ SweptJobs[n].status = "PENDING"
  <2>1. DOMAIN SweptJobs = DOMAIN jobs
    BY DEF SweptJobs
  <2> QED
    BY <2>1 DEF Oldest
<1> QED
  BY <1>1, <1>2, <1>3

\* The rows after a claim.
LEMMA ClaimJobs ==
  ASSUME Typed, TokensSound, NEW w \in Workers, ClaimCompaction(w)
  PROVE  /\ jobs' \in Seq(JobRow) /\ JobsMove
         /\ \A n \in Active : n \in Active' <=> n \notin Gone
         /\ \A n \in DOMAIN jobs :
              /\ jobs'[n].attempts >= jobs[n].attempts
              /\ jobs'[n].attempts <= MAX_ATTEMPTS
              /\ jobs'[n].status = "PENDING" => jobs'[n].attempts < MAX_ATTEMPTS
<1>0. /\ jobs \in Seq(JobRow) /\ MAX_ATTEMPTS \in Nat
      /\ \A n \in DOMAIN jobs : jobs[n].attempts <= MAX_ATTEMPTS
  BY LimitsAssumption DEF Typed, TokensSound
<1>1. SUFFICES
        /\ DOMAIN jobs' = DOMAIN jobs /\ jobs' = [n \in DOMAIN jobs |-> jobs'[n]]
        /\ \A n \in DOMAIN jobs :
             /\ jobs'[n] \in JobRow /\ Same(jobs[n], jobs'[n])
             /\ jobs'[n].status \in Open <=> SweptJobs[n].status \in Open
             /\ SweptJobs[n].status = "COMPLETED" => jobs'[n].status = "COMPLETED"
             /\ jobs'[n].attempts >= jobs[n].attempts
             /\ jobs'[n].attempts <= MAX_ATTEMPTS
             /\ jobs'[n].status = "PENDING" => jobs'[n].attempts < MAX_ATTEMPTS
  <2>1. jobs' \in Seq(JobRow)
    BY <1>0, <1>1, RowsTyped
  <2>2. JobsMove
    BY <1>1, SweptJobsFacts DEF JobsMove
  <2>3. ASSUME NEW n \in Active
        PROVE  n \in Active' <=> n \notin Gone
    <3>1. n \in DOMAIN jobs /\ jobs[n].status \in Open
      BY DEF Active
    <3>2. n \in Active' <=> jobs'[n].status \in Open
      BY <1>1, <3>1 DEF Active
    <3> QED
      BY <1>1, <3>1, <3>2, SweptJobsFacts
  <2> QED
    BY <1>1, <2>1, <2>2, <2>3
<1>2. CASE jobs' = SweptJobs
  <2>1. SweptJobs = [n \in DOMAIN jobs |-> SweptJobs[n]]
    BY DEF SweptJobs
  <2>2. \A n \in DOMAIN jobs : SweptJobs[n].attempts >= jobs[n].attempts
    BY SweptJobsFacts DEF JobRow
  <2> HIDE DEF SweptJobs
  <2> QED
    BY <1>0, <1>2, <2>1, <2>2, SweptJobsFacts
<1>3. CASE \E n \in DOMAIN jobs : /\ SweptJobs[n].status = "PENDING"
                                  /\ jobs' = [SweptJobs EXCEPT ![n] = Leased(@)]
  <2>1. PICK m \in DOMAIN jobs : /\ SweptJobs[m].status = "PENDING"
                                 /\ jobs' = [SweptJobs EXCEPT ![m] = Leased(@)]
    BY <1>3
  <2>2. DOMAIN SweptJobs = DOMAIN jobs
    BY SweptJobsFacts
  <2>3. \A n \in DOMAIN jobs :
          jobs'[n] = IF n = m THEN Leased(SweptJobs[m]) ELSE SweptJobs[n]
    BY <2>1, <2>2
  <2>4. DOMAIN jobs' = DOMAIN jobs /\ jobs' = [n \in DOMAIN jobs |-> jobs'[n]]
    BY <2>1, <2>2
  <2>5. /\ Leased(SweptJobs[m]) \in JobRow /\ Same(SweptJobs[m], Leased(SweptJobs[m]))
        /\ Leased(SweptJobs[m]).status = "PROCESSING"
        /\ Leased(SweptJobs[m]).attempts = SweptJobs[m].attempts + 1
    BY SweptJobsFacts, LeasedFacts
  <2>6. /\ SweptJobs[m].attempts = jobs[m].attempts /\ jobs[m].attempts < MAX_ATTEMPTS
        /\ jobs[m].attempts \in Nat
    BY <2>1, SweptJobsFacts DEF JobRow
  <2>7. /\ jobs'[m] \in JobRow /\ Same(jobs[m], jobs'[m])
        /\ jobs'[m].status = "PROCESSING"
        /\ jobs'[m].attempts >= jobs[m].attempts /\ jobs'[m].attempts <= MAX_ATTEMPTS
    <3>1. Same(jobs[m], SweptJobs[m])
      BY SweptJobsFacts
    <3> QED
      BY <1>0, <2>3, <2>5, <2>6, <3>1 DEF Same
  <2>8. ASSUME NEW n \in DOMAIN jobs, n # m
        PROVE  /\ jobs'[n] \in JobRow /\ Same(jobs[n], jobs'[n])
               /\ jobs'[n].status = SweptJobs[n].status
               /\ jobs'[n].attempts >= jobs[n].attempts
               /\ jobs'[n].attempts <= MAX_ATTEMPTS
               /\ jobs'[n].status = "PENDING" => jobs'[n].attempts < MAX_ATTEMPTS
    <3>1. jobs'[n] = SweptJobs[n] /\ jobs[n].attempts <= MAX_ATTEMPTS
      BY <1>0, <2>3, <2>8
    <3>2. jobs[n].attempts \in Nat
      BY TypedFacts DEF JobRow
    <3> QED
      BY <3>1, <3>2, SweptJobsFacts
  <2> QED
    BY <2>1, <2>4, <2>7, <2>8 DEF Open
<1> QED
  BY <1>2, <1>3, ClaimChoice

\* Who holds what after a claim.
LEMMA ClaimWorkers ==
  ASSUME Typed, TokensSound, NEW w \in Workers, ClaimCompaction(w)
  PROVE  worker' \in [Workers -> WorkerRow] /\ TokensSound'
<1>1. /\ worker \in [Workers -> WorkerRow] /\ worker[w] = Idle
      /\ DOMAIN jobs' = DOMAIN jobs
      /\ \A n \in DOMAIN jobs :
           /\ jobs'[n].attempts >= jobs[n].attempts
           /\ jobs'[n].attempts <= MAX_ATTEMPTS
           /\ jobs'[n].status = "PENDING" => jobs'[n].attempts < MAX_ATTEMPTS
           /\ jobs[n].attempts \in Nat /\ jobs'[n].attempts \in Nat
  <2>1. jobs' \in Seq(JobRow) /\ DOMAIN jobs' = DOMAIN jobs
    BY ClaimJobs DEF JobsMove
  <2>2. \A n \in DOMAIN jobs : jobs[n] \in JobRow /\ jobs'[n] \in JobRow
    BY <2>1, TypedFacts
  <2> QED
    BY <2>1, <2>2, ClaimJobs, ClaimChoice DEF Typed, JobRow
<1>2. ASSUME NEW v \in Workers
      PROVE  worker[v].job # NoJob => /\ worker[v].job \in DOMAIN jobs
                                      /\ worker[v].token <= jobs'[worker[v].job].attempts
  <2>1. SUFFICES ASSUME worker[v].job # NoJob
                 PROVE  /\ worker[v].job \in DOMAIN jobs
                        /\ worker[v].token <= jobs'[worker[v].job].attempts
    OBVIOUS
  <2> DEFINE n == worker[v].job
  <2>2. n \in DOMAIN jobs /\ worker[v].token <= jobs[n].attempts
    BY <2>1 DEF TokensSound
  <2>3. jobs'[n].attempts >= jobs[n].attempts /\ jobs[n].attempts \in Nat
        /\ jobs'[n].attempts \in Nat
    BY <1>1, <2>2
  <2>4. worker[v].token \in Nat
    BY <1>1 DEF WorkerRow
  <2> HIDE DEF n
  <2>5. worker[v].token <= jobs'[n].attempts
    BY <2>2, <2>3, <2>4
  <2> QED
    BY <2>2, <2>5 DEF n
<1>3. CASE worker' = worker
  BY <1>1, <1>2, <1>3 DEF TokensSound
<1>4. CASE \E n \in DOMAIN jobs :
             /\ SweptJobs[n].status = "PENDING"
             /\ jobs' = [SweptJobs EXCEPT ![n] = Leased(@)]
             /\ worker' = [worker EXCEPT ![w].job = n,
                                         ![w].token = SweptJobs[n].attempts + 1]
  <2>1. PICK n \in DOMAIN jobs :
             /\ jobs' = [SweptJobs EXCEPT ![n] = Leased(@)]
             /\ worker' = [worker EXCEPT ![w].job = n,
                                         ![w].token = SweptJobs[n].attempts + 1]
    BY <1>4
  <2>2. jobs'[n].attempts = SweptJobs[n].attempts + 1 /\ SweptJobs[n].attempts \in Nat
    <3>1. DOMAIN SweptJobs = DOMAIN jobs /\ SweptJobs[n] \in JobRow
      BY SweptJobsFacts
    <3>2. jobs'[n] = Leased(SweptJobs[n])
      BY <2>1, <3>1
    <3> QED
      BY <3>1, <3>2, LeasedFacts DEF JobRow
  <2>3. n \in Nat
    BY TypedFacts
  <2>4. worker' \in [Workers -> WorkerRow]
    BY <1>1, <2>1, <2>2, <2>3 DEF WorkerRow
  <2>5. /\ worker'[w].job = n /\ worker'[w].token = jobs'[n].attempts
        /\ worker'[w].report = "none"
        /\ \A v \in Workers \ {w} : worker'[v] = worker[v]
    <3>1. worker[w] \in WorkerRow /\ worker[w].report = "none"
      BY <1>1 DEF Idle
    <3> QED
      BY <1>1, <2>1, <2>2, <3>1 DEF WorkerRow
  <2>6. ASSUME NEW v \in Workers
        PROVE  /\ worker'[v].report # "none" => worker'[v].job # NoJob
               /\ worker'[v].job # NoJob =>
                    /\ worker'[v].job \in DOMAIN jobs'
                    /\ worker'[v].token <= jobs'[worker'[v].job].attempts
    <3>1. CASE v = w
      BY <1>1, <2>5, <3>1
    <3>2. CASE v # w
      <4>1. worker'[v] = worker[v]
        BY <2>5, <3>2
      <4>2. worker[v].report # "none" => worker[v].job # NoJob
        BY DEF TokensSound
      <4> QED
        BY <1>1, <1>2, <4>1, <4>2
    <3> QED
      BY <3>1, <3>2
  <2> QED
    BY <1>1, <2>4, <2>6 DEF TokensSound
<1> QED
  BY <1>3, <1>4, ClaimChoice

\* A step that moves no worker's job: attempts stay, and no row is put back that has
\* none left.
LEMMA TokensStep ==
  ASSUME Typed, TokensSound, JobsMove,
         \A n \in DOMAIN jobs :
           /\ jobs'[n].attempts = jobs[n].attempts
           /\ jobs'[n].status = "PENDING" => jobs'[n].attempts < MAX_ATTEMPTS,
         \A v \in Workers : worker'[v] = worker[v] \/ worker'[v] = Idle
  PROVE  TokensSound'
<1>1. \A n \in DOMAIN jobs' :
        /\ jobs'[n].attempts <= MAX_ATTEMPTS
        /\ jobs'[n].status = "PENDING" => jobs'[n].attempts < MAX_ATTEMPTS
  BY DEF JobsMove, TokensSound
<1>2. ASSUME NEW v \in Workers
      PROVE  /\ worker'[v].report # "none" => worker'[v].job # NoJob
             /\ worker'[v].job # NoJob =>
                  /\ worker'[v].job \in DOMAIN jobs'
                  /\ worker'[v].token <= jobs'[worker'[v].job].attempts
  <2>1. CASE worker'[v] = Idle
    BY <2>1 DEF Idle, NoJob
  <2>2. CASE worker'[v] = worker[v]
    <3>1. /\ worker[v].report # "none" => worker[v].job # NoJob
          /\ worker[v].job # NoJob =>
               /\ worker[v].job \in DOMAIN jobs
               /\ worker[v].token <= jobs[worker[v].job].attempts
      BY DEF TokensSound
    <3> QED
      BY <2>2, <3>1 DEF JobsMove
  <2> QED
    BY <2>1, <2>2
<1> QED
  BY <1>1, <1>2 DEF TokensSound

\* One row is written anew.
LEMMA OneRow ==
  ASSUME Typed, NEW n \in DOMAIN jobs, NEW row \in JobRow, Same(jobs[n], row),
         row.attempts = jobs[n].attempts,
         row.status \in Open => jobs[n].status \in Open,
         jobs[n].status = "COMPLETED" => row.status = "COMPLETED",
         jobs' = [jobs EXCEPT ![n] = row]
  PROVE  /\ jobs' \in Seq(JobRow) /\ JobsMove
         /\ \A m \in DOMAIN jobs : jobs'[m] = IF m = n THEN row ELSE jobs[m]
         /\ \A m \in DOMAIN jobs : jobs'[m].attempts = jobs[m].attempts
         /\ \A m \in Active : m \in Active' <=> (m = n => row.status \in Open)
<1>1. jobs \in Seq(JobRow) /\ \A m \in DOMAIN jobs : jobs[m] \in JobRow
  BY TypedFacts DEF Typed
<1>2. /\ DOMAIN jobs' = DOMAIN jobs /\ jobs' = [m \in DOMAIN jobs |-> jobs'[m]]
      /\ \A m \in DOMAIN jobs : jobs'[m] = IF m = n THEN row ELSE jobs[m]
  OBVIOUS
<1>3. \A m \in DOMAIN jobs : jobs'[m] \in JobRow
  BY <1>1, <1>2
<1>4. jobs' \in Seq(JobRow)
  BY <1>1, <1>2, <1>3, RowsTyped
<1>5. \A m \in DOMAIN jobs : /\ Same(jobs[m], jobs'[m])
                             /\ jobs'[m].status \in Open => jobs[m].status \in Open
                             /\ jobs[m].status = "COMPLETED" => jobs'[m].status = "COMPLETED"
                             /\ jobs'[m].attempts = jobs[m].attempts
  <2>1. ASSUME NEW m \in DOMAIN jobs, m # n
        PROVE  jobs'[m] = jobs[m] /\ Same(jobs[m], jobs'[m])
    BY <1>2, <2>1 DEF Same
  <2> QED
    BY <1>2, <2>1
<1>6. JobsMove
  BY <1>2, <1>5 DEF JobsMove
<1>7. \A m \in Active : m \in Active' <=> (m = n => row.status \in Open)
  <2>1. \A m \in Active : m \in DOMAIN jobs /\ jobs[m].status \in Open
    BY DEF Active
  <2>2. \A m \in DOMAIN jobs : m \in Active' <=> jobs'[m].status \in Open
    BY <1>2 DEF Active
  <2> QED
    BY <1>2, <2>1, <2>2
<1> QED
  BY <1>2, <1>4, <1>5, <1>6, <1>7

LEMMA AgeFacts ==
  ASSUME Typed, TokensSound, Age
  PROVE  /\ jobs' \in Seq(JobRow) /\ JobsMove /\ Active' = Active /\ TokensSound'
         /\ UNCHANGED <<chat, summary, pins, plan, worker>>
<1>1. PICK n \in DOMAIN jobs : jobs' = [jobs EXCEPT ![n] = Aged(jobs[n])]
  BY DEF Age
<1>2. UNCHANGED <<chat, summary, pins, plan, worker>>
  BY DEF Age
<1>3. /\ Aged(jobs[n]) \in JobRow /\ Same(jobs[n], Aged(jobs[n]))
      /\ Aged(jobs[n]).status = jobs[n].status /\ Aged(jobs[n]).attempts = jobs[n].attempts
  BY TypedFacts, AgedFacts
<1>4. /\ jobs' \in Seq(JobRow) /\ JobsMove
      /\ \A m \in DOMAIN jobs : jobs'[m] = IF m = n THEN Aged(jobs[n]) ELSE jobs[m]
      /\ \A m \in DOMAIN jobs : jobs'[m].attempts = jobs[m].attempts
      /\ \A m \in Active : m \in Active' <=> (m = n => Aged(jobs[n]).status \in Open)
  BY <1>1, <1>3, OneRow
<1>5. Active' = Active
  <2>1. Active' \subseteq Active
    BY <1>4 DEF JobsMove, Active
  <2>2. \A m \in Active : m \in Active'
    BY <1>3, <1>4 DEF Active
  <2> QED
    BY <2>1, <2>2
<1>6. \A m \in DOMAIN jobs : jobs'[m].status = "PENDING" => jobs'[m].attempts < MAX_ATTEMPTS
  <2>1. \A m \in DOMAIN jobs : jobs'[m].status = jobs[m].status
    BY <1>3, <1>4
  <2> QED
    BY <1>4, <2>1 DEF TokensSound
<1>7. TokensSound'
  BY <1>2, <1>4, <1>6, TokensStep
<1> QED
  BY <1>2, <1>4, <1>5, <1>7

LEMMA ReturnFacts ==
  ASSUME Typed, TokensSound, JobsFollow, NEW w \in Workers, NEW report,
         report # "none", ReturnCompaction(w, report)
  PROVE  /\ jobs' \in Seq(JobRow) /\ JobsMove /\ ChatsMove /\ TokensSound'
         /\ chat' \in [Conversations -> ChatRow] /\ worker' \in [Workers -> WorkerRow]
         /\ UNCHANGED <<summary, pins, plan>>
<1> DEFINE n == worker[w].job
           last == worker[w].token >= MAX_ATTEMPTS
           kept == Kept(jobs[n], worker[w].token)
           ended == IF last THEN {n} ELSE {}
<1>1. /\ worker[w].report = report
      /\ jobs' = IF kept THEN [jobs EXCEPT ![n] = Returned(@)] ELSE jobs
      /\ chat' = [c \in Conversations |->
           IF chat[c].pending = n /\ last THEN [chat[c] EXCEPT !.pending = NoJob] ELSE chat[c]]
      /\ worker' = [worker EXCEPT ![w] = Idle]
      /\ UNCHANGED <<summary, pins, plan>>
  BY DEF ReturnCompaction
<1>2. /\ n # NoJob /\ n \in DOMAIN jobs /\ worker[w].token <= jobs[n].attempts
      /\ jobs[n].attempts <= MAX_ATTEMPTS
      /\ jobs[n].status = "PENDING" => jobs[n].attempts < MAX_ATTEMPTS
  BY <1>1 DEF TokensSound
<1>3. /\ jobs[n] \in JobRow /\ jobs[n].attempts \in Nat /\ worker[w].token \in Nat
      /\ MAX_ATTEMPTS \in Nat
  BY <1>2, TypedFacts, LimitsAssumption DEF JobRow, Typed, WorkerRow
<1>4. Freed(ended)
  <2>1. \A c \in Conversations : chat[c].pending \in ended <=> chat[c].pending = n /\ last
    OBVIOUS
  <2> QED
    BY <1>1, <2>1 DEF Freed, Released
<1>5. worker' \in [Workers -> WorkerRow]
  <2>1. Idle \in WorkerRow
    BY DEF Idle, WorkerRow, NoJob
  <2> QED
    BY <1>1, <2>1 DEF Typed
<1>6. \A v \in Workers : worker'[v] = worker[v] \/ worker'[v] = Idle
  BY <1>1 DEF Typed
<1>7. NoJob \notin ended
  BY <1>2
<1> HIDE DEF n
<1>8. /\ jobs' \in Seq(JobRow) /\ JobsMove
      /\ \A m \in DOMAIN jobs :
           /\ jobs'[m].attempts = jobs[m].attempts
           /\ jobs'[m].status = "PENDING" => jobs'[m].attempts < MAX_ATTEMPTS
      /\ \A m \in Active : m \in Active' <=> m \notin ended
  <2>1. CASE kept
    <3>1. jobs[n].status = "PROCESSING" /\ jobs[n].attempts = worker[w].token
      BY <2>1 DEF Kept
    <3>2. /\ Returned(jobs[n]) \in JobRow /\ Same(jobs[n], Returned(jobs[n]))
          /\ Returned(jobs[n]).attempts = jobs[n].attempts
          /\ Returned(jobs[n]).status = IF last THEN "FAILED" ELSE "PENDING"
      BY <1>3, <3>1, ReturnedFacts
    <3>3. Returned(jobs[n]).status \in Open <=> ~last
      BY <3>2 DEF Open
    <3>4. jobs' = [jobs EXCEPT ![n] = Returned(jobs[n])]
      BY <1>1, <2>1
    <3> HIDE DEF last, kept
    <3>5. /\ jobs' \in Seq(JobRow) /\ JobsMove
          /\ \A m \in DOMAIN jobs : jobs'[m] = IF m = n THEN Returned(jobs[n]) ELSE jobs[m]
          /\ \A m \in DOMAIN jobs : jobs'[m].attempts = jobs[m].attempts
          /\ \A m \in Active : m \in Active' <=> (m = n => Returned(jobs[n]).status \in Open)
      BY <1>2, <1>3, <3>1, <3>2, <3>4, OneRow DEF Open
    <3>6. \A m \in Active : m \in Active' <=> m \notin ended
      BY <3>3, <3>5
    <3>7. ASSUME NEW m \in DOMAIN jobs, jobs'[m].status = "PENDING"
          PROVE  jobs'[m].attempts < MAX_ATTEMPTS
      <4>1. CASE m = n
        <5>1. Returned(jobs[n]).status = "PENDING"
          BY <3>5, <3>7, <4>1
        <5>2. ~ last
          BY <3>2, <5>1
        <5>3. jobs[n].attempts < MAX_ATTEMPTS
          BY <1>3, <3>1, <5>2 DEF last
        <5> QED
          BY <3>5, <4>1, <5>3
      <4>2. CASE m # n
        BY <3>5, <3>7, <4>2 DEF TokensSound
      <4> QED
        BY <4>1, <4>2
    <3> QED
      BY <3>5, <3>6, <3>7
  <2>2. CASE ~ kept
    <3>1. jobs' = jobs
      BY <1>1, <2>2
    <3>2. JobsMove
      BY <3>1 DEF JobsMove, Same
    <3>3. last => n \notin Active
      BY <1>2, <1>3, <2>2 DEF Active, Kept, Open
    <3>4. Active' = Active
      BY <3>1 DEF Active
    <3>5. \A m \in DOMAIN jobs :
            /\ jobs'[m].attempts = jobs[m].attempts
            /\ jobs'[m].status = "PENDING" => jobs'[m].attempts < MAX_ATTEMPTS
      BY <3>1 DEF TokensSound
    <3>6. jobs' \in Seq(JobRow)
      BY <3>1 DEF Typed
    <3> QED
      BY <3>2, <3>3, <3>4, <3>5, <3>6
  <2> QED
    BY <2>1, <2>2
<1>9. ChatsMove /\ chat' \in [Conversations -> ChatRow]
  <2> HIDE DEF ended
  <2> QED
    BY <1>4, <1>7, <1>8, FreedFacts
<1>10. TokensSound'
  BY <1>6, <1>8, TokensStep
<1> QED
  BY <1>1, <1>5, <1>8, <1>9, <1>10

-----------------------------------------------------------------------------
\* A completed compaction, whole or refused.
Whole(w) ==
  LET n == worker[w].job
      c == jobs[n].conv
  IN /\ Kept(jobs[n], worker[w].token)
     /\ chat[c].pending = n /\ chat[c].version = jobs[n].prior

\* The batch that adds the summary of job n to conversation c.
Added(n, c, k) ==
  /\ jobs' = [jobs EXCEPT ![n] = Ended(@, "COMPLETED")]
  /\ summary' = [summary EXCEPT ![c] = Append(@, jobs[n].to)]
  /\ pins' = [pins EXCEPT ![c].all = @ + k]
  /\ chat' = [chat EXCEPT ![c].version = @ + 1, ![c].pending = NoJob, ![c].calls = 1]
  /\ plan' = plan

LEMMA CompleteSplits ==
  ASSUME NEW w \in Workers, CompleteCompaction(w)
  PROVE  /\ worker[w].report = "complete" /\ worker' = [worker EXCEPT ![w] = Idle]
         /\ \/ /\ Kept(jobs[worker[w].job], worker[w].token)
               /\ chat[jobs[worker[w].job].conv].pending = worker[w].job
               /\ Added(worker[w].job, jobs[worker[w].job].conv, worker[w].pins)
            \/ UNCHANGED <<jobs, summary, pins, chat, plan>>
<1>1. CASE Whole(w)
  BY <1>1 DEF CompleteCompaction, Whole, Added
<1>2. CASE ~ Whole(w)
  BY <1>2 DEF CompleteCompaction, Whole
<1> QED
  BY <1>1, <1>2

LEMMA AddedFacts ==
  ASSUME Typed, TokensSound, NEW n \in DOMAIN jobs, jobs[n].status \in Open,
         NEW k \in Nat, Added(n, jobs[n].conv, k)
  PROVE  /\ jobs' \in Seq(JobRow) /\ JobsMove /\ Active' = Active \ {n} /\ n \in Active
         /\ jobs[n].conv \in Conversations /\ jobs'[n].status = "COMPLETED"
         /\ \A m \in DOMAIN jobs \ {n} : jobs'[m] = jobs[m]
         /\ \A m \in DOMAIN jobs :
              /\ jobs'[m].attempts = jobs[m].attempts
              /\ jobs'[m].status = "PENDING" => jobs'[m].attempts < MAX_ATTEMPTS
         /\ chat' \in [Conversations -> ChatRow]
         /\ pins' \in [Conversations -> [all : Nat, system : Nat]]
         /\ summary' \in [Conversations -> Seq(Nat)]
<1> DEFINE c == jobs[n].conv
<1>1. /\ jobs[n] \in JobRow /\ c \in Conversations /\ jobs[n].to \in Nat
  BY TypedFacts DEF JobRow
<1>2. /\ Ended(jobs[n], "COMPLETED") \in JobRow /\ Same(jobs[n], Ended(jobs[n], "COMPLETED"))
      /\ Ended(jobs[n], "COMPLETED").status = "COMPLETED"
      /\ Ended(jobs[n], "COMPLETED").attempts = jobs[n].attempts
  BY <1>1, EndedFacts DEF Statuses
<1>3. /\ jobs' \in Seq(JobRow) /\ JobsMove
      /\ \A m \in DOMAIN jobs : jobs'[m] = IF m = n THEN Ended(jobs[n], "COMPLETED") ELSE jobs[m]
      /\ \A m \in DOMAIN jobs : jobs'[m].attempts = jobs[m].attempts
      /\ \A m \in Active : m \in Active' <=> (m = n => Ended(jobs[n], "COMPLETED").status \in Open)
  <2>1. jobs' = [jobs EXCEPT ![n] = Ended(jobs[n], "COMPLETED")]
    BY DEF Added
  <2> QED
    BY <1>1, <1>2, <2>1, OneRow DEF Open
<1>4. Active' = Active \ {n} /\ n \in Active
  <2>1. "COMPLETED" \notin Open
    BY DEF Open
  <2>2. \A m \in Active : m \in Active' <=> m # n
    BY <1>2, <1>3, <2>1
  <2>3. Active' \subseteq Active
    BY <1>3 DEF JobsMove, Active
  <2>4. n \in Active
    BY DEF Active
  <2> QED
    BY <2>2, <2>3, <2>4
<1>5. \A m \in DOMAIN jobs : jobs'[m].status = "PENDING" => jobs'[m].attempts < MAX_ATTEMPTS
  <2>1. \A m \in DOMAIN jobs : jobs'[m].status = "PENDING" => jobs[m].status = "PENDING"
    BY <1>2, <1>3
  <2> QED
    BY <1>3, <2>1 DEF TokensSound
<1>6. chat' \in [Conversations -> ChatRow]
  <2>1. /\ chat' = [chat EXCEPT ![c].version = @ + 1, ![c].pending = NoJob, ![c].calls = 1]
        /\ chat \in [Conversations -> ChatRow]
    BY DEF Added, Typed
  <2> HIDE DEF c
  <2> DEFINE u == [chat[c] EXCEPT !.version = chat[c].version + 1]
             v == [u EXCEPT !.pending = NoJob]
             r == [v EXCEPT !.calls = 1]
  <2>0. chat[c] \in ChatRow /\ chat[c].version + 1 \in Nat
    BY <1>1, <2>1 DEF ChatRow
  <2>2. u \in ChatRow
    BY <2>0 DEF ChatRow
  <2> HIDE DEF u
  <2>3. v \in ChatRow
    BY <2>2 DEF ChatRow, NoJob
  <2> HIDE DEF v
  <2>4. r \in ChatRow
    BY <2>3 DEF ChatRow
  <2>5. chat' = [chat EXCEPT ![c] = r]
    BY <1>1, <2>1 DEF u, v
  <2> HIDE DEF r
  <2> QED
    BY <1>1, <2>1, <2>4, <2>5
<1>7. pins' \in [Conversations -> [all : Nat, system : Nat]]
  <2>1. /\ pins' = [pins EXCEPT ![c].all = @ + k]
        /\ pins \in [Conversations -> [all : Nat, system : Nat]]
    BY DEF Added, Typed
  <2> HIDE DEF c
  <2> QED
    BY <1>1, <2>1
<1>8. summary' \in [Conversations -> Seq(Nat)]
  <2>1. summary' = [summary EXCEPT ![c] = Append(@, jobs[n].to)]
        /\ summary \in [Conversations -> Seq(Nat)]
    BY DEF Added, Typed
  <2>2. Append(summary[c], jobs[n].to) \in Seq(Nat)
    BY <1>1, <2>1
  <2> HIDE DEF c
  <2> QED
    BY <1>1, <2>1, <2>2
<1> QED
  BY <1>1, <1>2, <1>3, <1>4, <1>5, <1>6, <1>7, <1>8

\* A summary one longer: what it holds and where it ends.
LEMMA AppendFacts ==
  ASSUME NEW s \in Seq(Nat), NEW to \in Nat
  PROVE  /\ Len(Append(s, to)) = Len(s) + 1 /\ Len(s) \in Nat
         /\ DOMAIN Append(s, to) = 1..(Len(s) + 1)
         /\ \A v \in 1..Len(s) : Append(s, to)[v] = s[v]
         /\ Append(s, to)[Len(s) + 1] = to
         /\ Append(s, to) # << >>
<1>1. /\ Append(s, to) \in Seq(Nat) /\ Len(Append(s, to)) = Len(s) + 1
      /\ Len(s) \in Nat /\ Append(s, to)[Len(s) + 1] = to
  OBVIOUS
<1>2. DOMAIN Append(s, to) = 1..(Len(s) + 1)
  BY <1>1
<1>3. \A v \in 1..Len(s) : Append(s, to)[v] = s[v]
  OBVIOUS
<1>4. Append(s, to) # << >>
  BY <1>1
<1> QED
  BY <1>1, <1>2, <1>3, <1>4

LEMMA AddedFollowed ==
  ASSUME Typed, TokensSound, Followed, PlansFollow, NEW n \in DOMAIN jobs,
         jobs[n].status \in Open, NEW k \in Nat, Added(n, jobs[n].conv, k)
  PROVE  Followed' /\ PlansFollow'
<1> DEFINE c == jobs[n].conv
           to == jobs[n].to
<1>1. /\ JobsMove /\ Active' = Active \ {n} /\ n \in Active /\ c \in Conversations
      /\ jobs'[n].status = "COMPLETED"
      /\ \A m \in DOMAIN jobs \ {n} : jobs'[m] = jobs[m]
  BY AddedFacts
<1>2. /\ jobs[n] \in JobRow /\ to \in Nat /\ n # NoJob
      /\ \A m \in Active : m \in DOMAIN jobs /\ m # NoJob
  BY TypedFacts DEF JobRow
<1>3. /\ chat[c].pending = n /\ jobs[n].prior = chat[c].version
      /\ jobs[n].from = Last(summary[c]) + 1 /\ to < RecentFrom(chat[c].roles)
  BY <1>1 DEF Followed, JobsFollow
<1>4. /\ chat'[c].version = chat[c].version + 1 /\ chat'[c].pending = NoJob
      /\ chat'[c].roles = chat[c].roles
      /\ \A d \in Conversations \ {c} : chat'[d] = chat[d]
      /\ chat[c] \in ChatRow
  <2>1. /\ chat' = [chat EXCEPT ![c].version = @ + 1, ![c].pending = NoJob, ![c].calls = 1]
        /\ chat \in [Conversations -> ChatRow]
    BY DEF Added, Typed
  <2> HIDE DEF c
  <2> QED
    BY <1>1, <2>1 DEF ChatRow
<1>5. /\ summary'[c] = Append(summary[c], to) /\ summary[c] \in Seq(Nat)
      /\ \A d \in Conversations \ {c} : summary'[d] = summary[d]
  BY <1>1 DEF Added, Typed
<1>6. /\ Len(summary'[c]) = Len(summary[c]) + 1 /\ Len(summary[c]) \in Nat
      /\ summary'[c] # << >> /\ Last(summary'[c]) = to
      /\ DOMAIN summary'[c] = 1..(Len(summary[c]) + 1)
      /\ \A v \in 1..Len(summary[c]) : summary'[c][v] = summary[c][v]
      /\ summary'[c][Len(summary[c]) + 1] = to
  <2> HIDE DEF c, to
  <2>1. /\ Len(summary'[c]) = Len(summary[c]) + 1 /\ Len(summary[c]) \in Nat
        /\ DOMAIN summary'[c] = 1..(Len(summary[c]) + 1)
        /\ \A v \in 1..Len(summary[c]) : summary'[c][v] = summary[c][v]
        /\ summary'[c][Len(summary[c]) + 1] = to
        /\ summary'[c] # << >>
    <3> DEFINE sum == summary[c]
    <3>1. sum \in Seq(Nat) /\ to \in Nat /\ summary'[c] = Append(sum, to)
      BY <1>2, <1>5
    <3> HIDE DEF sum
    <3>2. /\ Len(Append(sum, to)) = Len(sum) + 1 /\ Len(sum) \in Nat
          /\ DOMAIN Append(sum, to) = 1..(Len(sum) + 1)
          /\ \A v \in 1..Len(sum) : Append(sum, to)[v] = sum[v]
          /\ Append(sum, to)[Len(sum) + 1] = to
          /\ Append(sum, to) # << >>
      BY <3>1, AppendFacts
    <3> QED
      BY <3>1, <3>2 DEF sum
  <2> QED
    BY <2>1 DEF Last
<1>7. plan' = plan
  BY DEF Added
<1> HIDE DEF c, to
<1>8. JobsFollow'
  <2>1. ASSUME NEW d \in Conversations, NEW m \in Active', jobs'[m].conv = d
        PROVE  /\ chat'[d].pending = m /\ jobs'[m].prior = chat'[d].version
               /\ jobs'[m].from = Last(summary'[d]) + 1
               /\ jobs'[m].to < RecentFrom(chat'[d].roles)
    <3>1. m \in Active /\ m # n /\ jobs'[m] = jobs[m]
      BY <1>1, <1>2
    <3>2. /\ chat[d].pending = m /\ jobs[m].prior = chat[d].version
          /\ jobs[m].from = Last(summary[d]) + 1 /\ jobs[m].to < RecentFrom(chat[d].roles)
      BY <2>1, <3>1 DEF Followed, JobsFollow
    <3>3. d # c
      BY <1>3, <3>1, <3>2
    <3> QED
      BY <1>4, <1>5, <3>1, <3>2, <3>3
  <2>2. ASSUME NEW d \in Conversations, chat'[d].pending # NoJob
        PROVE  chat'[d].pending \in Active' /\ jobs'[chat'[d].pending].conv = d
    <3>1. d # c /\ chat'[d] = chat[d]
      BY <1>4, <2>2
    <3>2. chat[d].pending \in Active /\ jobs[chat[d].pending].conv = d
      BY <2>2, <3>1 DEF Followed, JobsFollow
    <3>3. chat[d].pending # n
      BY <3>1, <3>2 DEF c
    <3> QED
      BY <1>1, <1>2, <3>1, <3>2, <3>3
  <2> QED
    BY <2>1, <2>2 DEF JobsFollow
<1>9. LimitsKept'
  <2>1. IsFiniteSet(Active) /\ \A d : IsFiniteSet(OfOwner(d))
    BY TypedFacts
  <2>2. \A d \in Conversations : OfOwner(d)' \in SUBSET OfOwner(d)
    BY <1>1, <1>2 DEF OfOwner
  <2>3. Active' \in SUBSET Active
    BY <1>1
  <2>4. Cardinality(Active') <= Cardinality(Active) /\ Cardinality(Active') \in Nat
        /\ Cardinality(Active) \in Nat
    BY <2>1, <2>3, FS_Subset, FS_CardinalityType
  <2>5. \A d \in Conversations :
          /\ Cardinality(OfOwner(d)') <= Cardinality(OfOwner(d))
          /\ Cardinality(OfOwner(d)') \in Nat /\ Cardinality(OfOwner(d)) \in Nat
    BY <2>1, <2>2, FS_Subset, FS_CardinalityType
  <2>6. GLOBAL \in Nat /\ PER_OWNER \in Nat
    BY MemoryAssumption
  <2>7. Cardinality(Active') <= GLOBAL
    BY <2>4, <2>6 DEF Followed, LimitsKept
  <2>8. \A d \in Conversations : Cardinality(OfOwner(d)') <= PER_OWNER
    BY <2>5, <2>6 DEF Followed, LimitsKept
  <2> QED
    BY <2>7, <2>8 DEF LimitsKept
<1>10. Linked'
  <2>1. \A m \in DOMAIN jobs : /\ Same(jobs[m], jobs'[m])
                               /\ jobs[m].status = "COMPLETED" => jobs'[m].status = "COMPLETED"
    BY <1>1 DEF JobsMove
  <2>2. ASSUME NEW d \in Conversations, NEW v \in DOMAIN summary[d], NEW s, s[v] = summary[d][v],
               v # 1 => s[v - 1] = summary[d][v - 1]
        PROVE  \E m \in DOMAIN jobs' : jobs'[m].conv = d /\ Covers(jobs'[m], s, v)
    <3>1. PICK m \in DOMAIN jobs : jobs[m].conv = d /\ Covers(jobs[m], summary[d], v)
      BY <2>2 DEF Followed, Linked
    <3>2. m \in DOMAIN jobs' /\ jobs'[m].conv = d
      BY <1>1, <2>1, <3>1 DEF JobsMove, Same
    <3>3. Covers(jobs'[m], s, v)
      BY <2>1, <2>2, <3>1 DEF Covers, Same
    <3> QED
      BY <3>2, <3>3
  <2>3. ASSUME NEW d \in Conversations, NEW v \in DOMAIN summary'[d]
        PROVE  \E m \in DOMAIN jobs' : jobs'[m].conv = d /\ Covers(jobs'[m], summary'[d], v)
    <3>1. CASE d # c
      <4>1. summary'[d] = summary[d] /\ v \in DOMAIN summary[d]
        BY <1>5, <2>3, <3>1
      <4> QED
        BY <2>2, <4>1
    <3>2. CASE d = c /\ v \in 1..Len(summary[c])
      <4>1. v \in DOMAIN summary[c]
        BY <1>5, <3>2
      <4>2. v # 1 => v - 1 \in 1..Len(summary[c])
        BY <1>6, <3>2
      <4> QED
        BY <1>6, <2>2, <3>2, <4>1, <4>2
    <3>3. CASE d = c /\ v = Len(summary[c]) + 1
      <4>1. n \in DOMAIN jobs' /\ jobs'[n].conv = c /\ jobs'[n].to = to
            /\ jobs'[n].from = Last(summary[c]) + 1
        BY <1>1, <1>3, <2>1 DEF JobsMove, Same, c, to
      <4>2. Last(summary[c]) = IF v = 1 THEN 0 ELSE summary'[c][v - 1]
        <5>1. summary[c] = << >> <=> Len(summary[c]) = 0
          BY <1>5
        <5>2. CASE Len(summary[c]) = 0
          BY <3>3, <5>1, <5>2 DEF Last
        <5>3. CASE Len(summary[c]) # 0
          <6>1. v # 1 /\ v - 1 = Len(summary[c]) /\ v - 1 \in 1..Len(summary[c])
            BY <1>6, <3>3, <5>3
          <6> QED
            BY <1>6, <5>1, <5>3, <6>1 DEF Last
        <5> QED
          BY <5>2, <5>3
      <4>3. Covers(jobs'[n], summary'[c], v)
        BY <1>1, <1>6, <3>3, <4>1, <4>2 DEF Covers
      <4> QED
        BY <3>3, <4>1, <4>3
    <3>4. d # c \/ (d = c /\ (v \in 1..Len(summary[c]) \/ v = Len(summary[c]) + 1))
      BY <1>6, <2>3
    <3> QED
      BY <3>1, <3>2, <3>3, <3>4
  <2>4. \A d \in Conversations : chat'[d].version = Len(summary'[d])
    <3>1. \A d \in Conversations : chat[d].version = Len(summary[d])
      BY DEF Followed, Linked
    <3> QED
      BY <1>1, <1>4, <1>5, <1>6, <3>1
  <2> QED
    BY <2>3, <2>4 DEF Linked
<1>11. RecentKept'
  <2>1. ASSUME NEW d \in Conversations, summary'[d] # << >>
        PROVE  Last(summary'[d]) < RecentFrom(chat'[d].roles)
    <3>1. CASE d = c
      BY <1>3, <1>4, <1>6, <3>1
    <3>2. CASE d # c
      <4>1. summary'[d] = summary[d] /\ chat'[d] = chat[d]
        BY <1>4, <1>5, <3>2
      <4> QED
        BY <2>1, <4>1 DEF Followed, RecentKept
    <3> QED
      BY <3>1, <3>2
  <2> QED
    BY <2>1 DEF RecentKept
<1>12. PlansFollow'
  <2>1. ASSUME NEW d \in Conversations, NEW p \in plan'[d]
        PROVE  /\ p.version <= chat'[d].version
               /\ p.version = chat'[d].version => p.from = Last(summary'[d]) + 1
               /\ p.to < RecentFrom(chat'[d].roles)
    <3>1. p \in plan[d] /\ p \in PlanRow
      BY <1>7, <2>1 DEF Typed
    <3>2. /\ p.version <= chat[d].version
          /\ p.version = chat[d].version => p.from = Last(summary[d]) + 1
          /\ p.to < RecentFrom(chat[d].roles)
      BY <3>1 DEF PlansFollow
    <3>3. CASE d = c
      <4>1. p.version \in Nat /\ chat[c].version \in Nat
        BY <1>4, <3>1 DEF PlanRow, ChatRow
      <4> QED
        BY <1>4, <3>2, <3>3, <4>1
    <3>4. CASE d # c
      BY <1>4, <1>5, <3>2, <3>4
    <3> QED
      BY <3>3, <3>4
  <2> QED
    BY <2>1 DEF PlansFollow
<1> QED
  BY <1>8, <1>9, <1>10, <1>11, <1>12 DEF Followed

-----------------------------------------------------------------------------
\* A scheduled compaction: refused, without room, or a job of its own.
NewRow(c, p) ==
  [conv |-> c, prior |-> p.version, from |-> p.from, to |-> p.to, pins |-> p.pins,
   status |-> Queued.status, attempts |-> Queued.attempts, due |-> Queued.due,
   lapsed |-> Queued.lapsed]
Scheduled(c, p) ==
  /\ jobs' = Append(jobs, NewRow(c, p))
  /\ chat' = [chat EXCEPT ![c].request = @ + 1, ![c].pending = Len(jobs) + 1]

LEMMA ScheduleSplits ==
  ASSUME NEW c \in Conversations, ScheduleCompaction(c)
  PROVE  \E p \in plan[c] :
           /\ plan' = [plan EXCEPT ![c] = @ \ {p}] /\ UNCHANGED <<summary, pins, worker>>
           /\ \/ jobs' = jobs /\ chat' = chat
              \/ /\ jobs' = jobs /\ chat[c].pending = NoJob
                 /\ chat' = [chat EXCEPT ![c].request = @ + 1, ![c].pending = NoJob]
              \/ /\ chat[c].version = p.version /\ chat[c].pending = NoJob
                 /\ Cardinality(Active) < GLOBAL /\ Cardinality(OfOwner(c)) < PER_OWNER
                 /\ Scheduled(c, p)
<1>1. PICK p \in plan[c] :
        LET current == /\ chat[c].version = p.version /\ chat[c].request = p.request
                       /\ chat[c].pending = NoJob
            room == /\ Cardinality(Active) < GLOBAL
                    /\ Cardinality(OfOwner(c)) < PER_OWNER
        IN /\ plan' = [plan EXCEPT ![c] = @ \ {p}]
           /\ chat' = IF ~current THEN chat
                      ELSE [chat EXCEPT ![c].request = @ + 1,
                                        ![c].pending = IF room THEN Len(jobs) + 1 ELSE NoJob]
           /\ jobs' = IF current /\ room THEN Append(jobs, NewRow(c, p)) ELSE jobs
           /\ UNCHANGED <<summary, pins, worker>>
  BY DEF ScheduleCompaction, OfOwner, NewRow
<1> DEFINE current == /\ chat[c].version = p.version /\ chat[c].request = p.request
                      /\ chat[c].pending = NoJob
           room == Cardinality(Active) < GLOBAL /\ Cardinality(OfOwner(c)) < PER_OWNER
<1>2. CASE ~ current
  BY <1>1, <1>2
<1>3. CASE current /\ ~ room
  BY <1>1, <1>3
<1>4. CASE current /\ room
  BY <1>1, <1>4 DEF Scheduled
<1> QED
  BY <1>2, <1>3, <1>4

LEMMA ScheduledFacts ==
  ASSUME Typed, TokensSound, NEW c \in Conversations, NEW p \in plan[c], Scheduled(c, p)
  PROVE  LET k == Len(jobs) + 1 IN
         /\ jobs' \in Seq(JobRow) /\ DOMAIN jobs' = DOMAIN jobs \cup {k}
         /\ k \notin DOMAIN jobs /\ k \in Nat /\ k # NoJob
         /\ \A n \in DOMAIN jobs : jobs'[n] = jobs[n]
         /\ jobs'[k] = NewRow(c, p) /\ NewRow(c, p) \in JobRow
         /\ NewRow(c, p).attempts = 0 /\ NewRow(c, p).status \in Open
         /\ Active' = Active \cup {k} /\ k \notin Active
         /\ chat' \in [Conversations -> ChatRow]
         /\ chat'[c].version = chat[c].version /\ chat'[c].pending = k
         /\ chat'[c].roles = chat[c].roles
         /\ \A d \in Conversations \ {c} : chat'[d] = chat[d]
<1> DEFINE k == Len(jobs) + 1
           row == NewRow(c, p)
<1>1. /\ jobs \in Seq(JobRow) /\ chat \in [Conversations -> ChatRow] /\ p \in PlanRow
  BY DEF Typed
<1>2. row \in JobRow
  BY <1>1 DEF PlanRow, JobRow, NewRow, Queued, Open
<1>3. row.attempts = 0 /\ row.status \in Open
  BY DEF NewRow, Queued, Open
<1> HIDE DEF row
<1>4. jobs' = Append(jobs, row)
  BY DEF Scheduled, row
<1>5. /\ DOMAIN jobs = 1..Len(jobs) /\ Len(jobs) \in Nat
      /\ jobs' \in Seq(JobRow) /\ DOMAIN jobs' = 1..(Len(jobs) + 1)
      /\ \A n \in 1..Len(jobs) : jobs'[n] = jobs[n]
      /\ jobs'[Len(jobs) + 1] = row
  BY <1>1, <1>2, <1>4
<1>6. /\ DOMAIN jobs' = DOMAIN jobs \cup {k} /\ k \notin DOMAIN jobs /\ k \in Nat /\ k # NoJob
  BY <1>5 DEF NoJob
<1>7. Active' = Active \cup {k} /\ k \notin Active
  BY <1>3, <1>5, <1>6 DEF Active
<1>8. k \in Nat
  BY <1>5
<1> HIDE DEF k
<1>9. chat' = [chat EXCEPT ![c].request = @ + 1, ![c].pending = k]
  BY DEF Scheduled, k
<1> DEFINE u == [chat[c] EXCEPT !.request = chat[c].request + 1]
           r == [u EXCEPT !.pending = k]
<1>10. chat[c] \in ChatRow /\ chat[c].request + 1 \in Nat
  BY <1>1 DEF ChatRow
<1>11. u \in ChatRow /\ u.version = chat[c].version /\ u.roles = chat[c].roles
  BY <1>10 DEF ChatRow
<1>12. chat' = [chat EXCEPT ![c] = r]
  BY <1>1, <1>9
<1> HIDE DEF u
<1>13. r \in ChatRow /\ r.version = u.version /\ r.roles = u.roles /\ r.pending = k
  BY <1>8, <1>11 DEF ChatRow
<1> HIDE DEF r
<1>14. /\ chat' \in [Conversations -> ChatRow] /\ chat'[c] = r
       /\ \A d \in Conversations \ {c} : chat'[d] = chat[d]
  BY <1>1, <1>12, <1>13
<1>15. \A n \in DOMAIN jobs : jobs'[n] = jobs[n]
  BY <1>5
<1>16. jobs'[k] = row
  BY <1>5 DEF k
<1> QED
  BY <1>2, <1>3, <1>5, <1>6, <1>7, <1>11, <1>13, <1>14, <1>15, <1>16 DEF k, row

LEMMA ScheduledFollowed ==
  ASSUME Typed, TokensSound, Followed, PlansFollow, NEW c \in Conversations,
         NEW p \in plan[c], chat[c].version = p.version, chat[c].pending = NoJob,
         Cardinality(Active) < GLOBAL, Cardinality(OfOwner(c)) < PER_OWNER,
         Scheduled(c, p), summary' = summary,
         \A d \in Conversations : plan'[d] \subseteq plan[d]
  PROVE  Followed' /\ PlansFollow'
<1> DEFINE k == Len(jobs) + 1
           row == NewRow(c, p)
<1>1. /\ jobs' \in Seq(JobRow) /\ DOMAIN jobs' = DOMAIN jobs \cup {k}
      /\ k \notin DOMAIN jobs /\ k \in Nat /\ k # NoJob
      /\ \A n \in DOMAIN jobs : jobs'[n] = jobs[n]
      /\ jobs'[k] = row /\ Active' = Active \cup {k} /\ k \notin Active
      /\ chat'[c].version = chat[c].version /\ chat'[c].pending = k
      /\ chat'[c].roles = chat[c].roles
      /\ \A d \in Conversations \ {c} : chat'[d] = chat[d]
  BY ScheduledFacts
<1>2. row.conv = c /\ row.prior = p.version /\ row.from = p.from /\ row.to = p.to
  BY DEF NewRow
<1>3. /\ p.from = Last(summary[c]) + 1 /\ p.to < RecentFrom(chat[c].roles)
  BY DEF PlansFollow
<1>4. \A n \in Active : n \in DOMAIN jobs /\ n # NoJob /\ jobs'[n] = jobs[n]
  BY <1>1, TypedFacts
<1>5. \A n \in Active : jobs[n].conv # c
  BY <1>4 DEF Followed, JobsFollow
<1> HIDE DEF k, row
<1>6. JobsFollow'
  <2>1. ASSUME NEW d \in Conversations, NEW n \in Active', jobs'[n].conv = d
        PROVE  /\ chat'[d].pending = n /\ jobs'[n].prior = chat'[d].version
               /\ jobs'[n].from = Last(summary'[d]) + 1
               /\ jobs'[n].to < RecentFrom(chat'[d].roles)
    <3>1. CASE n = k
      <4>1. d = c
        BY <1>1, <1>2, <2>1, <3>1
      <4> QED
        BY <1>1, <1>2, <1>3, <3>1, <4>1
    <3>2. CASE n # k
      <4>1. n \in Active /\ jobs'[n] = jobs[n]
        BY <1>1, <1>4, <3>2
      <4>2. d # c
        BY <1>5, <2>1, <4>1
      <4>3. /\ chat[d].pending = n /\ jobs[n].prior = chat[d].version
            /\ jobs[n].from = Last(summary[d]) + 1 /\ jobs[n].to < RecentFrom(chat[d].roles)
        BY <2>1, <4>1 DEF Followed, JobsFollow
      <4> QED
        BY <1>1, <4>1, <4>2, <4>3
    <3> QED
      BY <3>1, <3>2
  <2>2. ASSUME NEW d \in Conversations, chat'[d].pending # NoJob
        PROVE  chat'[d].pending \in Active' /\ jobs'[chat'[d].pending].conv = d
    <3>1. CASE d = c
      BY <1>1, <1>2, <3>1
    <3>2. CASE d # c
      <4>1. chat[d].pending \in Active /\ jobs[chat[d].pending].conv = d
        BY <1>1, <2>2, <3>2 DEF Followed, JobsFollow
      <4> QED
        BY <1>1, <1>4, <3>2, <4>1
    <3> QED
      BY <3>1, <3>2
  <2> QED
    BY <2>1, <2>2 DEF JobsFollow
<1>7. LimitsKept'
  <2>1. IsFiniteSet(Active) /\ \A d : IsFiniteSet(OfOwner(d))
    BY TypedFacts
  <2>2. /\ Cardinality(Active) \in Nat /\ GLOBAL \in Nat /\ PER_OWNER \in Nat
        /\ \A d : Cardinality(OfOwner(d)) \in Nat
    BY <2>1, FS_CardinalityType, MemoryAssumption
  <2>3. Cardinality(Active') <= GLOBAL
    <3>1. Cardinality(Active') = Cardinality(Active) + 1
      BY <1>1, <2>1, FS_AddElement
    <3> QED
      BY <2>2, <3>1
  <2>4. ASSUME NEW d \in Conversations
        PROVE  Cardinality(OfOwner(d)') <= PER_OWNER
    <3>1. CASE Owner[c] = Owner[d]
      <4>1. OfOwner(d)' = OfOwner(c) \cup {k}
        BY <1>1, <1>2, <1>4, <3>1 DEF OfOwner
      <4>2. k \notin OfOwner(c)
        BY <1>1 DEF OfOwner
      <4>3. Cardinality(OfOwner(c) \cup {k}) = Cardinality(OfOwner(c)) + 1
        BY <2>1, <4>2, FS_AddElement
      <4> QED
        BY <2>2, <4>1, <4>3
    <3>2. CASE Owner[c] # Owner[d]
      <4>1. OfOwner(d)' = OfOwner(d)
        BY <1>1, <1>2, <1>4, <3>2 DEF OfOwner
      <4> QED
        BY <4>1 DEF Followed, LimitsKept
    <3> QED
      BY <3>1, <3>2
  <2> QED
    BY <2>3, <2>4 DEF LimitsKept
<1>8. Linked'
  <2>1. ASSUME NEW d \in Conversations, NEW v \in DOMAIN summary'[d]
        PROVE  \E n \in DOMAIN jobs' : jobs'[n].conv = d /\ Covers(jobs'[n], summary'[d], v)
    <3>1. PICK n \in DOMAIN jobs : jobs[n].conv = d /\ Covers(jobs[n], summary[d], v)
      BY <2>1 DEF Followed, Linked
    <3> QED
      BY <1>1, <3>1
  <2>2. \A d \in Conversations : chat'[d].version = Len(summary'[d])
    BY <1>1 DEF Followed, Linked
  <2> QED
    BY <2>1, <2>2 DEF Linked
<1>9. \A d \in Conversations : chat'[d].roles = chat[d].roles /\ chat'[d].version = chat[d].version
  BY <1>1
<1>10. RecentKept'
  BY <1>9 DEF Followed, RecentKept
<1>11. PlansFollow'
  <2>1. ASSUME NEW d \in Conversations, NEW q \in plan'[d]
        PROVE  /\ q.version <= chat'[d].version
               /\ q.version = chat'[d].version => q.from = Last(summary'[d]) + 1
               /\ q.to < RecentFrom(chat'[d].roles)
    <3>1. q \in plan[d]
      BY <2>1
    <3> QED
      BY <1>9, <3>1 DEF PlansFollow
  <2> QED
    BY <2>1 DEF PlansFollow
<1> QED
  BY <1>6, <1>7, <1>8, <1>10, <1>11 DEF Followed

\* What a request reads is true of the conversation it read.
LEMMA PlanFacts ==
  ASSUME Typed, Followed, PlansFollow, NEW c \in Conversations, PlanCompaction(c)
  PROVE  /\ Quiet /\ chat' \in [Conversations -> ChatRow] /\ PlansFollow'
         /\ plan' \in [Conversations -> SUBSET PlanRow]
         /\ UNCHANGED <<pins, worker>>
<1> DEFINE first == Last(summary[c]) + 1
           past == RecentFrom(chat[c].roles)
<1>1. CurrentSummary(c) = Last(summary[c])
  BY DEF CurrentSummary, Last
<1>2. /\ chat' = [chat EXCEPT ![c].calls = 0] /\ UNCHANGED <<summary, pins, jobs, worker>>
      /\ \/ plan' = plan
         \/ \E to \in first..(past - 1) :
              plan' = [plan EXCEPT ![c] = @ \cup {[version |-> chat[c].version,
                    request |-> chat[c].request, from |-> first, to |-> to,
                    pins |-> pins[c].all]}]
  BY <1>1 DEF PlanCompaction
<1>3. Quiet /\ chat' \in [Conversations -> ChatRow]
  BY <1>2, SpentFacts
<1>4. /\ plan \in [Conversations -> SUBSET PlanRow] /\ chat \in [Conversations -> ChatRow]
      /\ pins[c].all \in Nat /\ first \in Nat /\ past \in Nat
      /\ chat[c].version \in Nat /\ chat[c].request \in Nat
  <2>1. /\ plan \in [Conversations -> SUBSET PlanRow] /\ chat \in [Conversations -> ChatRow]
        /\ pins \in [Conversations -> [all : Nat, system : Nat]]
    BY DEF Typed
  <2>2. Last(summary[c]) \in Nat /\ past \in Nat
    BY TypedFacts
  <2>3. chat[c].version \in Nat /\ chat[c].request \in Nat
    BY <2>1 DEF ChatRow
  <2> QED
    BY <2>1, <2>2, <2>3
<1>5. \A d \in Conversations : chat'[d].version = chat[d].version /\ chat'[d].roles = chat[d].roles
  BY <1>2, <1>4 DEF ChatRow
<1>6. CASE plan' = plan
  <2>1. PlansFollow'
    BY <1>2, <1>5, <1>6 DEF PlansFollow
  <2> QED
    BY <1>2, <1>3, <1>4, <1>6, <2>1
<1>7. ASSUME NEW to \in first..(past - 1),
             plan' = [plan EXCEPT ![c] = @ \cup {[version |-> chat[c].version,
                    request |-> chat[c].request, from |-> first, to |-> to,
                    pins |-> pins[c].all]}]
      PROVE  PlansFollow' /\ plan' \in [Conversations -> SUBSET PlanRow]
  <2> DEFINE new == [version |-> chat[c].version, request |-> chat[c].request,
                     from |-> first, to |-> to, pins |-> pins[c].all]
  <2>1. to \in Nat /\ to < past
    BY <1>4
  <2>2. new \in PlanRow
    BY <1>4, <2>1 DEF PlanRow
  <2>3. /\ new.version = chat[c].version /\ new.from = first /\ new.to < past
    BY <2>1
  <2>4. plan' = [plan EXCEPT ![c] = @ \cup {new}]
    BY <1>7
  <2> HIDE DEF new
  <2>5. plan' \in [Conversations -> SUBSET PlanRow]
    BY <1>4, <2>2, <2>4
  <2>6. ASSUME NEW d \in Conversations, NEW q \in plan'[d]
        PROVE  /\ q.version <= chat'[d].version
               /\ q.version = chat'[d].version => q.from = Last(summary'[d]) + 1
               /\ q.to < RecentFrom(chat'[d].roles)
    <3>1. q \in plan[d] \/ (d = c /\ q = new)
      BY <1>4, <2>4, <2>6
    <3>2. CASE q \in plan[d]
      BY <1>2, <1>5, <3>2 DEF PlansFollow
    <3>3. CASE d = c /\ q = new
      BY <1>2, <1>4, <1>5, <2>3, <3>3
    <3> QED
      BY <3>1, <3>2, <3>3
  <2>7. PlansFollow'
    BY <2>6 DEF PlansFollow
  <2> QED
    BY <2>5, <2>7
<1> QED
  BY <1>2, <1>3, <1>6, <1>7

-----------------------------------------------------------------------------
\* The workers.
LEMMA ReadFacts ==
  ASSUME Typed, TokensSound, NEW w \in Workers, ReadCompaction(w)
  PROVE  /\ worker' \in [Workers -> WorkerRow] /\ TokensSound'
         /\ UNCHANGED <<chat, summary, pins, jobs, plan>>
<1>1. PICK report \in {"complete", "fail", "defer"}, new \in 0..GENERATED :
        worker' = [worker EXCEPT ![w] =
          IF Held(jobs[worker[w].job], worker[w].token)
          THEN [worker[w] EXCEPT !.report = report, !.pins = new] ELSE Idle]
  BY DEF ReadCompaction
<1>2. /\ worker[w].job # NoJob /\ UNCHANGED <<chat, summary, pins, jobs, plan>>
      /\ worker \in [Workers -> WorkerRow]
  BY DEF ReadCompaction, Typed
<1> DEFINE u == [worker[w] EXCEPT !.report = report]
           r == [u EXCEPT !.pins = new]
<1>3. /\ u \in WorkerRow /\ u.job = worker[w].job /\ u.token = worker[w].token
      /\ new \in Nat
  <2>1. new \in Nat
    BY MemoryAssumption
  <2>2. worker[w] \in WorkerRow
    BY <1>2
  <2> QED
    BY <2>1, <2>2 DEF WorkerRow
<1> HIDE DEF u
<1>4. r \in WorkerRow /\ r.job = u.job /\ r.token = u.token
  BY <1>3 DEF WorkerRow
<1>5. Idle \in WorkerRow
  BY DEF Idle, WorkerRow, NoJob
<1>6. worker'[w] = r \/ worker'[w] = Idle
  BY <1>1, <1>2 DEF u
<1> HIDE DEF r
<1>7. worker' \in [Workers -> WorkerRow] /\ \A v \in Workers \ {w} : worker'[v] = worker[v]
  <2>1. worker' = [worker EXCEPT ![w] = worker'[w]]
    BY <1>1, <1>2
  <2> QED
    BY <1>2, <1>4, <1>5, <1>6, <2>1
<1>8. ASSUME NEW v \in Workers
      PROVE  /\ worker'[v].report # "none" => worker'[v].job # NoJob
             /\ worker'[v].job # NoJob =>
                  /\ worker'[v].job \in DOMAIN jobs'
                  /\ worker'[v].token <= jobs'[worker'[v].job].attempts
  <2>1. /\ worker[v].report # "none" => worker[v].job # NoJob
        /\ worker[v].job # NoJob =>
             /\ worker[v].job \in DOMAIN jobs
             /\ worker[v].token <= jobs[worker[v].job].attempts
    BY DEF TokensSound
  <2>2. CASE v = w /\ worker'[w] = r
    BY <1>2, <1>3, <1>4, <2>1, <2>2
  <2>3. CASE worker'[v] = Idle
    BY <2>3 DEF Idle, NoJob
  <2>4. CASE v # w
    BY <1>2, <1>7, <2>1, <2>4
  <2> QED
    BY <1>6, <2>2, <2>3, <2>4
<1> QED
  BY <1>2, <1>7, <1>8 DEF TokensSound

\* A worker lets its job go.
LEMMA IdleFacts ==
  ASSUME Typed, NEW w \in Workers, worker' = [worker EXCEPT ![w] = Idle]
  PROVE  /\ worker' \in [Workers -> WorkerRow]
         /\ \A v \in Workers : worker'[v] = worker[v] \/ worker'[v] = Idle
<1>1. Idle \in WorkerRow
  BY DEF Idle, WorkerRow, NoJob
<1> QED
  BY <1>1 DEF Typed

-----------------------------------------------------------------------------
(* The invariant. *)

LEMMA InitSound ==
  ASSUME Init
  PROVE  Sound
<1>1. Typed
  <2>1. chat \in [Conversations -> ChatRow]
    BY DEF Init, ChatRow, NoJob
  <2>2. worker \in [Workers -> WorkerRow]
    BY DEF Init, WorkerRow, Idle, NoJob
  <2>3. /\ summary \in [Conversations -> Seq(Nat)] /\ jobs \in Seq(JobRow)
        /\ pins \in [Conversations -> [all : Nat, system : Nat]]
        /\ plan \in [Conversations -> SUBSET PlanRow]
    BY DEF Init
  <2> QED
    BY <2>1, <2>2, <2>3 DEF Typed
<1>2. Active = {} /\ DOMAIN jobs = {}
  BY DEF Init, Active
<1>3. TokensSound
  BY <1>2 DEF Init, TokensSound, Idle
<1>4. PlansFollow
  BY DEF Init, PlansFollow
<1>5. JobsFollow
  BY <1>2 DEF Init, JobsFollow
<1>6. LimitsKept
  <2>1. \A c \in Conversations : OfOwner(c) = {}
    BY <1>2 DEF OfOwner
  <2> QED
    BY <1>2, <2>1, FS_EmptySet, MemoryAssumption DEF LimitsKept
<1>7. Linked
  <2>1. \A c \in Conversations : chat[c].version = 0 /\ summary[c] = << >>
    BY DEF Init
  <2> QED
    BY <2>1 DEF Linked
<1>8. RecentKept
  BY DEF Init, RecentKept
<1> QED
  BY <1>1, <1>3, <1>4, <1>5, <1>6, <1>7, <1>8 DEF Sound, Followed

\* Turns, pins, reads and losses.
LEMMA QuietSound ==
  ASSUME Sound, Quiet, chat' \in [Conversations -> ChatRow], worker' = worker,
         \A c \in Conversations : plan'[c] \subseteq plan[c],
         plan' \in [Conversations -> SUBSET PlanRow],
         pins' \in [Conversations -> [all : Nat, system : Nat]]
  PROVE  Sound'
<1>1. Typed /\ TokensSound /\ PlansFollow /\ Followed /\ JobsFollow
  BY DEF Sound, Followed
<1>2. JobsMove /\ ChatsMove /\ summary' = summary /\ jobs' = jobs
  BY <1>1, QuietMoves DEF Quiet
<1>3. Followed' /\ PlansFollow'
  BY <1>1, <1>2, FollowStep, PlansStep
<1>4. TokensSound'
  BY <1>1, <1>2 DEF TokensSound
<1>5. Typed'
  BY <1>1, <1>2 DEF Typed
<1> QED
  BY <1>3, <1>4, <1>5 DEF Sound

LEMMA ConversationStep ==
  ASSUME Sound, NEW c \in Conversations,
         Ask(c) \/ Answer(c) \/ FailTurn(c) \/ PinState(c) \/ PlanCompaction(c)
           \/ ScheduleCompaction(c) \/ LoseRequest(c)
  PROVE  Sound'
<1>0. Typed /\ TokensSound /\ PlansFollow /\ Followed
  BY DEF Sound
<1>1. CASE Ask(c)
  BY <1>0, <1>1, AskFacts, QuietSound DEF Ask, Typed
<1>2. CASE Answer(c)
  BY <1>0, <1>2, AnswerFacts, QuietSound DEF Answer, Typed
<1>3. CASE FailTurn(c)
  BY <1>0, <1>3, FailTurnFacts, QuietSound DEF FailTurn, Typed
<1>4. CASE PinState(c)
  <2>1. /\ pins' = [pins EXCEPT ![c].all = @ + 1, ![c].system = @ + 1]
        /\ UNCHANGED <<chat, summary, jobs, plan, worker>>
    BY <1>4 DEF PinState
  <2>2. pins' \in [Conversations -> [all : Nat, system : Nat]]
    <3>1. pins \in [Conversations -> [all : Nat, system : Nat]]
      BY <1>0 DEF Typed
    <3> DEFINE u == [pins[c] EXCEPT !.all = pins[c].all + 1]
               r == [u EXCEPT !.system = u.system + 1]
    <3>2. pins[c] \in [all : Nat, system : Nat] /\ pins[c].all + 1 \in Nat
      BY <3>1
    <3>3. u \in [all : Nat, system : Nat] /\ u.system = pins[c].system
      BY <3>2
    <3>4. pins' = [pins EXCEPT ![c] = r]
      BY <2>1, <3>1, <3>3
    <3> HIDE DEF u
    <3>5. r \in [all : Nat, system : Nat]
      BY <3>3
    <3> HIDE DEF r
    <3> QED
      BY <3>1, <3>4, <3>5
  <2>3. Quiet
    BY <2>1 DEF Quiet
  <2> QED
    BY <1>0, <2>1, <2>2, <2>3, QuietSound DEF Typed
<1>5. CASE PlanCompaction(c)
  <2>1. /\ Quiet /\ chat' \in [Conversations -> ChatRow] /\ PlansFollow'
        /\ plan' \in [Conversations -> SUBSET PlanRow] /\ UNCHANGED <<pins, worker>>
    BY <1>0, <1>5, PlanFacts
  <2>2. JobsMove /\ ChatsMove /\ summary' = summary /\ jobs' = jobs
    BY <1>0, <2>1, QuietMoves DEF Quiet, Followed
  <2>3. Followed'
    BY <1>0, <2>2, FollowStep
  <2>4. TokensSound'
    BY <1>0, <2>1, <2>2 DEF TokensSound
  <2>5. Typed'
    BY <1>0, <2>1, <2>2 DEF Typed
  <2> QED
    BY <2>1, <2>3, <2>4, <2>5 DEF Sound
<1>6. CASE LoseRequest(c)
  <2>1. /\ plan' = [plan EXCEPT ![c] = {}] /\ chat' = [chat EXCEPT ![c].calls = 0]
        /\ UNCHANGED <<summary, pins, jobs, worker>>
    BY <1>6 DEF LoseRequest
  <2>2. Quiet /\ chat' \in [Conversations -> ChatRow]
    BY <1>0, <2>1, SpentFacts
  <2>3. /\ plan' \in [Conversations -> SUBSET PlanRow]
        /\ \A d \in Conversations : plan'[d] \subseteq plan[d]
    BY <1>0, <2>1 DEF Typed
  <2> QED
    BY <1>0, <2>1, <2>2, <2>3, QuietSound DEF Typed
<1>7. CASE ScheduleCompaction(c)
  <2>1. PICK p \in plan[c] :
           /\ plan' = [plan EXCEPT ![c] = @ \ {p}] /\ UNCHANGED <<summary, pins, worker>>
           /\ \/ jobs' = jobs /\ chat' = chat
              \/ /\ jobs' = jobs /\ chat[c].pending = NoJob
                 /\ chat' = [chat EXCEPT ![c].request = @ + 1, ![c].pending = NoJob]
              \/ /\ chat[c].version = p.version /\ chat[c].pending = NoJob
                 /\ Cardinality(Active) < GLOBAL /\ Cardinality(OfOwner(c)) < PER_OWNER
                 /\ Scheduled(c, p)
    BY <1>7, ScheduleSplits
  <2>2. /\ plan' \in [Conversations -> SUBSET PlanRow]
        /\ \A d \in Conversations : plan'[d] \subseteq plan[d]
    BY <1>0, <2>1 DEF Typed
  <2>3. CASE jobs' = jobs /\ chat' = chat
    <3>1. Quiet
      BY <2>1, <2>3 DEF Quiet
    <3> QED
      BY <1>0, <2>1, <2>2, <2>3, <3>1, QuietSound DEF Typed
  <2>4. CASE /\ jobs' = jobs /\ chat[c].pending = NoJob
             /\ chat' = [chat EXCEPT ![c].request = @ + 1, ![c].pending = NoJob]
    <3>1. chat \in [Conversations -> ChatRow]
      BY <1>0 DEF Typed
    <3>2. chat' \in [Conversations -> ChatRow]
      <4> DEFINE u == [chat[c] EXCEPT !.request = chat[c].request + 1]
                 r == [u EXCEPT !.pending = NoJob]
      <4>1. chat[c] \in ChatRow /\ chat[c].request + 1 \in Nat
        BY <3>1 DEF ChatRow
      <4>2. u \in ChatRow
        BY <4>1 DEF ChatRow
      <4>3. chat' = [chat EXCEPT ![c] = r]
        BY <2>4, <3>1
      <4> HIDE DEF u
      <4>4. r \in ChatRow
        BY <4>2 DEF ChatRow, NoJob
      <4> HIDE DEF r
      <4> QED
        BY <3>1, <4>3, <4>4
    <3>3. \A d \in Conversations :
            /\ chat'[d].version = chat[d].version /\ chat'[d].pending = chat[d].pending
            /\ chat'[d].roles = chat[d].roles
      BY <2>4, <3>1 DEF ChatRow
    <3>4. Quiet
      BY <2>1, <2>4, <3>3 DEF Quiet
    <3> QED
      BY <1>0, <2>1, <2>2, <3>2, <3>4, QuietSound DEF Typed
  <2>5. CASE /\ chat[c].version = p.version /\ chat[c].pending = NoJob
             /\ Cardinality(Active) < GLOBAL /\ Cardinality(OfOwner(c)) < PER_OWNER
             /\ Scheduled(c, p)
    <3>1. Followed' /\ PlansFollow'
      BY <1>0, <2>1, <2>2, <2>5, ScheduledFollowed
    <3>2. /\ jobs' \in Seq(JobRow) /\ DOMAIN jobs' = DOMAIN jobs \cup {Len(jobs) + 1}
          /\ \A n \in DOMAIN jobs : jobs'[n] = jobs[n]
          /\ jobs'[Len(jobs) + 1] = NewRow(c, p) /\ NewRow(c, p).attempts = 0
          /\ chat' \in [Conversations -> ChatRow]
      BY <1>0, <2>5, ScheduledFacts
    <3>3. Typed'
      BY <1>0, <2>1, <2>2, <3>2 DEF Typed
    <3>4. TokensSound'
      <4>1. MAX_ATTEMPTS \in Nat /\ 0 < MAX_ATTEMPTS
        BY LimitsAssumption
      <4>2. ASSUME NEW n \in DOMAIN jobs'
            PROVE  /\ jobs'[n].attempts <= MAX_ATTEMPTS
                   /\ jobs'[n].status = "PENDING" => jobs'[n].attempts < MAX_ATTEMPTS
        <5>1. CASE n \in DOMAIN jobs
          BY <1>0, <3>2, <5>1 DEF TokensSound
        <5>2. CASE n = Len(jobs) + 1
          BY <3>2, <4>1, <5>2
        <5> QED
          BY <3>2, <4>2, <5>1, <5>2
      <4>3. ASSUME NEW v \in Workers
            PROVE  /\ worker'[v].report # "none" => worker'[v].job # NoJob
                   /\ worker'[v].job # NoJob =>
                        /\ worker'[v].job \in DOMAIN jobs'
                        /\ worker'[v].token <= jobs'[worker'[v].job].attempts
        BY <1>0, <2>1, <3>2 DEF TokensSound
      <4> QED
        BY <4>2, <4>3 DEF TokensSound
    <3> QED
      BY <3>1, <3>3, <3>4 DEF Sound
  <2> QED
    BY <2>1, <2>3, <2>4, <2>5
<1> QED
  BY <1>1, <1>2, <1>3, <1>4, <1>5, <1>6, <1>7

LEMMA WorkerStep ==
  ASSUME Sound, NEW w \in Workers,
         ClaimCompaction(w) \/ ReadCompaction(w) \/ CompleteCompaction(w)
           \/ FailCompaction(w) \/ DeferCompaction(w) \/ CrashWorker(w)
  PROVE  Sound'
<1>0. Typed /\ TokensSound /\ PlansFollow /\ Followed /\ JobsFollow
  BY DEF Sound, Followed
<1>1. CASE ClaimCompaction(w)
  <2>1. /\ Freed(Gone) /\ UNCHANGED <<summary, pins, plan>>
    BY <1>1, ClaimChoice
  <2>2. /\ jobs' \in Seq(JobRow) /\ JobsMove
        /\ \A n \in Active : n \in Active' <=> n \notin Gone
    BY <1>0, <1>1, ClaimJobs
  <2>3. NoJob \notin Gone
    BY <1>0, TypedFacts DEF Gone
  <2>4. ChatsMove /\ chat' \in [Conversations -> ChatRow]
    <3> HIDE DEF Gone
    <3> QED
      BY <1>0, <2>1, <2>2, <2>3, FreedFacts
  <2>5. worker' \in [Workers -> WorkerRow] /\ TokensSound'
    BY <1>0, <1>1, ClaimWorkers
  <2>6. Followed' /\ PlansFollow'
    BY <1>0, <2>1, <2>2, <2>4, FollowStep, PlansStep
  <2>7. Typed'
    BY <1>0, <2>1, <2>2, <2>4, <2>5 DEF Typed
  <2> QED
    BY <2>5, <2>6, <2>7 DEF Sound
<1>2. CASE ReadCompaction(w)
  <2>1. /\ worker' \in [Workers -> WorkerRow] /\ TokensSound'
        /\ UNCHANGED <<chat, summary, pins, jobs, plan>>
    BY <1>0, <1>2, ReadFacts
  <2>2. Quiet
    BY <2>1 DEF Quiet
  <2>3. JobsMove /\ ChatsMove
    BY <1>0, <2>2, QuietMoves
  <2>4. Followed' /\ PlansFollow'
    BY <1>0, <2>1, <2>3, FollowStep, PlansStep
  <2>5. Typed'
    BY <1>0, <2>1 DEF Typed
  <2> QED
    BY <2>1, <2>4, <2>5 DEF Sound
<1>3. CASE CompleteCompaction(w)
  <2> DEFINE n == worker[w].job
  <2>1. /\ worker[w].report = "complete" /\ worker' = [worker EXCEPT ![w] = Idle]
        /\ \/ /\ Kept(jobs[n], worker[w].token)
              /\ chat[jobs[n].conv].pending = n
              /\ Added(n, jobs[n].conv, worker[w].pins)
           \/ UNCHANGED <<jobs, summary, pins, chat, plan>>
    BY <1>3, CompleteSplits
  <2>2. /\ worker' \in [Workers -> WorkerRow]
        /\ \A v \in Workers : worker'[v] = worker[v] \/ worker'[v] = Idle
    BY <1>0, <2>1, IdleFacts
  <2>3. CASE UNCHANGED <<jobs, summary, pins, chat, plan>>
    <3>1. Quiet
      BY <2>3 DEF Quiet
    <3>2. JobsMove /\ ChatsMove
      BY <1>0, <3>1, QuietMoves
    <3>3. Followed' /\ PlansFollow'
      BY <1>0, <2>3, <3>2, FollowStep, PlansStep
    <3>4. TokensSound'
      <4>1. \A m \in DOMAIN jobs :
              /\ jobs'[m].attempts = jobs[m].attempts
              /\ jobs'[m].status = "PENDING" => jobs'[m].attempts < MAX_ATTEMPTS
        BY <1>0, <2>3 DEF TokensSound
      <4> QED
        BY <1>0, <2>2, <3>2, <4>1, TokensStep
    <3>5. Typed'
      BY <1>0, <2>2, <2>3 DEF Typed
    <3> QED
      BY <3>3, <3>4, <3>5 DEF Sound
  <2>4. CASE /\ Kept(jobs[n], worker[w].token) /\ chat[jobs[n].conv].pending = n
             /\ Added(n, jobs[n].conv, worker[w].pins)
    <3>1. n \in DOMAIN jobs
      BY <1>0, <2>1 DEF TokensSound
    <3>2. jobs[n].status \in Open
      BY <2>4 DEF Kept, Open
    <3>3. worker[w].pins \in Nat
      BY <1>0 DEF Typed, WorkerRow
    <3> HIDE DEF n
    <3>4. Followed' /\ PlansFollow'
      BY <1>0, <2>4, <3>1, <3>2, <3>3, AddedFollowed
    <3>5. /\ jobs' \in Seq(JobRow) /\ JobsMove
          /\ \A m \in DOMAIN jobs :
               /\ jobs'[m].attempts = jobs[m].attempts
               /\ jobs'[m].status = "PENDING" => jobs'[m].attempts < MAX_ATTEMPTS
          /\ chat' \in [Conversations -> ChatRow]
          /\ pins' \in [Conversations -> [all : Nat, system : Nat]]
          /\ summary' \in [Conversations -> Seq(Nat)]
      BY <1>0, <2>4, <3>1, <3>2, <3>3, AddedFacts
    <3>6. TokensSound'
      BY <1>0, <2>2, <3>5, TokensStep
    <3>7. Typed'
      BY <1>0, <2>2, <2>4, <3>5 DEF Typed, Added
    <3> QED
      BY <3>4, <3>6, <3>7 DEF Sound
  <2> QED
    BY <2>1, <2>3, <2>4
<1>4. ASSUME NEW report, report # "none", ReturnCompaction(w, report)
      PROVE  Sound'
  <2>1. /\ jobs' \in Seq(JobRow) /\ JobsMove /\ ChatsMove /\ TokensSound'
        /\ chat' \in [Conversations -> ChatRow] /\ worker' \in [Workers -> WorkerRow]
        /\ UNCHANGED <<summary, pins, plan>>
    BY <1>0, <1>4, ReturnFacts
  <2>2. Followed' /\ PlansFollow'
    BY <1>0, <2>1, FollowStep, PlansStep
  <2>3. Typed'
    BY <1>0, <2>1 DEF Typed
  <2> QED
    BY <2>1, <2>2, <2>3 DEF Sound
<1>5. CASE CrashWorker(w)
  <2>1. worker' = [worker EXCEPT ![w] = Idle] /\ UNCHANGED <<chat, summary, pins, jobs, plan>>
    BY <1>5 DEF CrashWorker
  <2>2. /\ worker' \in [Workers -> WorkerRow]
        /\ \A v \in Workers : worker'[v] = worker[v] \/ worker'[v] = Idle
    BY <1>0, <2>1, IdleFacts
  <2>3. Quiet
    BY <2>1 DEF Quiet
  <2>4. JobsMove /\ ChatsMove
    BY <1>0, <2>3, QuietMoves
  <2>5. Followed' /\ PlansFollow'
    BY <1>0, <2>1, <2>4, FollowStep, PlansStep
  <2>6. TokensSound'
    <3>1. \A m \in DOMAIN jobs :
            /\ jobs'[m].attempts = jobs[m].attempts
            /\ jobs'[m].status = "PENDING" => jobs'[m].attempts < MAX_ATTEMPTS
      BY <1>0, <2>1 DEF TokensSound
    <3> QED
      BY <1>0, <2>2, <2>4, <3>1, TokensStep
  <2>7. Typed'
    BY <1>0, <2>1, <2>2 DEF Typed
  <2> QED
    BY <2>5, <2>6, <2>7 DEF Sound
<1>6. CASE FailCompaction(w)
  BY <1>4, <1>6 DEF FailCompaction
<1>7. CASE DeferCompaction(w)
  BY <1>4, <1>7 DEF DeferCompaction
<1> QED
  BY <1>1, <1>2, <1>3, <1>5, <1>6, <1>7

LEMMA NextSound ==
  ASSUME Sound, [Next]_vars
  PROVE  Sound'
<1>1. CASE \E c \in Conversations :
             Ask(c) \/ Answer(c) \/ FailTurn(c) \/ PinState(c) \/ PlanCompaction(c)
               \/ ScheduleCompaction(c) \/ LoseRequest(c)
  BY <1>1, ConversationStep
<1>2. CASE \E w \in Workers :
             ClaimCompaction(w) \/ ReadCompaction(w) \/ CompleteCompaction(w)
               \/ FailCompaction(w) \/ DeferCompaction(w) \/ CrashWorker(w)
  BY <1>2, WorkerStep
<1>3. CASE Age
  <2>0. Typed /\ TokensSound /\ PlansFollow /\ Followed /\ JobsFollow
    BY DEF Sound, Followed
  <2>1. /\ jobs' \in Seq(JobRow) /\ JobsMove /\ Active' = Active /\ TokensSound'
        /\ UNCHANGED <<chat, summary, pins, plan, worker>>
    BY <1>3, <2>0, AgeFacts
  <2>2. ChatsMove
    <3>1. \A c \in Conversations : RecentFrom(chat[c].roles) \in Nat
      BY <2>0, TypedFacts
    <3>2. \A c \in Conversations :
            chat[c].pending = IF chat[c].pending \in Active' THEN chat[c].pending ELSE NoJob
      BY <2>0, <2>1 DEF JobsFollow
    <3> QED
      BY <2>1, <3>1, <3>2 DEF ChatsMove
  <2>3. Followed' /\ PlansFollow'
    BY <2>0, <2>1, <2>2, FollowStep, PlansStep
  <2>4. Typed'
    BY <2>0, <2>1 DEF Typed
  <2> QED
    BY <2>1, <2>3, <2>4 DEF Sound
<1>4. CASE UNCHANGED vars
  <2>0. Typed /\ TokensSound /\ PlansFollow /\ Followed /\ JobsFollow
    BY DEF Sound, Followed
  <2>1. UNCHANGED <<chat, summary, pins, jobs, plan, worker>>
    BY <1>4 DEF vars
  <2>2. Quiet
    BY <2>1 DEF Quiet
  <2> QED
    BY <2>0, <2>1, <2>2, QuietSound DEF Typed
<1> QED
  BY <1>1, <1>2, <1>3, <1>4 DEF Next

LEMMA SoundExact ==
  ASSUME Sound
  PROVE  SummariesExact
<1>0. Typed /\ JobsFollow /\ LimitsKept /\ Linked /\ RecentKept
  BY DEF Sound, Followed
<1>1. \A c : CurrentSummary(c) = Last(summary[c])
  BY DEF CurrentSummary, Last
<1>2. Chained
  <2>1. ASSUME NEW c \in Conversations, NEW v \in DOMAIN summary[c]
        PROVE  \E n \in DOMAIN jobs :
                 /\ jobs[n].conv = c /\ jobs[n].status = "COMPLETED"
                 /\ jobs[n].to = summary[c][v]
                 /\ jobs[n].from = (IF v = 1 THEN 0 ELSE summary[c][v - 1]) + 1
    <3>1. PICK n \in DOMAIN jobs : jobs[n].conv = c /\ Covers(jobs[n], summary[c], v)
      BY <1>0 DEF Linked
    <3> QED
      BY <3>1 DEF Covers
  <2>2. \A c \in Conversations : chat[c].version = Len(summary[c])
    BY <1>0 DEF Linked
  <2> QED
    BY <2>1, <2>2 DEF Chained
<1>3. Waiting
  <2>1. \A n \in Active : n # NoJob /\ jobs[n].conv \in Conversations
    BY <1>0, TypedFacts DEF JobRow
  <2>2. ASSUME NEW c \in Conversations
        PROVE  {n \in Active : jobs[n].conv = c} =
                 IF chat[c].pending = NoJob THEN {} ELSE {chat[c].pending}
    <3>1. \A n \in Active : jobs[n].conv = c => n = chat[c].pending
      BY <1>0 DEF JobsFollow
    <3>2. CASE chat[c].pending = NoJob
      BY <2>1, <3>1, <3>2
    <3>3. CASE chat[c].pending # NoJob
      <4>1. chat[c].pending \in Active /\ jobs[chat[c].pending].conv = c
        BY <1>0, <3>3 DEF JobsFollow
      <4> QED
        BY <3>1, <3>3, <4>1
    <3> QED
      BY <3>2, <3>3
  <2>3. \A n \in Active : jobs[n].prior = chat[jobs[n].conv].version
    BY <1>0, <2>1 DEF JobsFollow
  <2>4. /\ Cardinality(Active) <= GLOBAL
        /\ \A c \in Conversations :
             Cardinality({n \in Active : Owner[jobs[n].conv] = Owner[c]}) <= PER_OWNER
    BY <1>0 DEF LimitsKept, OfOwner
  <2> QED
    BY <2>2, <2>3, <2>4 DEF Waiting
<1>4. RecentVerbatim
  BY <1>0, <1>1 DEF RecentKept, RecentVerbatim
<1> QED
  BY <1>2, <1>3, <1>4 DEF SummariesExact

\* The invariant holds of every state the conversations, their requests and the
\* workers can reach.
THEOREM SoundAlways == Spec => []Sound
<1>1. Init => Sound
  BY InitSound
<1>2. Sound /\ [Next]_vars => Sound'
  BY NextSound
<1> QED
  BY <1>1, <1>2, PTL DEF Spec

(*****************************************************************************)
(* Whatever workers, requests and schedules run at once, lapse, crash or     *)
(* report late: each summary of a conversation goes on where the one before  *)
(* it ended and covers what a completed job was made for, the recent turns   *)
(* stay word for word, and a conversation waits for exactly its open job,    *)
(* within both limits (assistant-memory.ts: scheduleCompaction, claim,       *)
(* complete, fail and defer of compaction jobs).                             *)
(*****************************************************************************)
THEOREM SummariesAreExact == Spec => []SummariesExact
<1>1. Sound => SummariesExact
  BY SoundExact
<1> QED
  BY <1>1, SoundAlways, PTL

-----------------------------------------------------------------------------
(* The memory index says of itself what is true, and a question's conversation *)
(* agrees with its row.  Both rest on the same facts about a row of LeasedJobs: *)
(* whatever happens to it but an end, its status stays in the life of an        *)
(* unfinished row, and a row that has ended is not touched again.               *)

Ends == {"COMPLETED", "ANSWERED", "FAILED", "EXPIRED"}
QueueStatuses == Open \cup Ends

\* A set of rows of LeasedJobs: the four columns of a row's life can be set one by
\* one, and the others, of which F are some, stay.
Kin(j, k, F) == \A f \in F : k[f] = j[f]
RowSet(R, F) ==
  \A j \in R :
    /\ j.status \in QueueStatuses /\ j.attempts \in Nat
    /\ \A s \in QueueStatuses : LET k == [j EXCEPT !.status = s] IN
         k \in R /\ Kin(j, k, F) /\ k.status = s /\ k.attempts = j.attempts
    /\ \A a \in Nat : LET k == [j EXCEPT !.attempts = a] IN
         k \in R /\ Kin(j, k, F) /\ k.status = j.status
    /\ \A b \in BOOLEAN : LET k == [j EXCEPT !.due = b] IN
         k \in R /\ Kin(j, k, F) /\ k.status = j.status /\ k.attempts = j.attempts
    /\ \A b \in BOOLEAN : LET k == [j EXCEPT !.lapsed = b] IN
         k \in R /\ Kin(j, k, F) /\ k.status = j.status /\ k.attempts = j.attempts

LEMMA EndedRow ==
  ASSUME NEW R, NEW F, RowSet(R, F), NEW j \in R, NEW s \in QueueStatuses
  PROVE  Ended(j, s) \in R /\ Kin(j, Ended(j, s), F) /\ Ended(j, s).status = s
<1> DEFINE k == [j EXCEPT !.status = s]
<1>1. k \in R /\ Kin(j, k, F) /\ k.status = s
  BY DEF RowSet
<1>2. Ended(j, s) = [k EXCEPT !.lapsed = FALSE]
  BY DEF Ended
<1> HIDE DEF k
<1>3. Ended(j, s) \in R /\ Kin(k, Ended(j, s), F) /\ Ended(j, s).status = k.status
  BY <1>1, <1>2 DEF RowSet
<1> QED
  BY <1>1, <1>3 DEF Kin

\* The status, then the delay, then the lease.
Reset(j, s, b) == [j EXCEPT !.status = s, !.due = b, !.lapsed = FALSE]

LEMMA ResetRow ==
  ASSUME NEW R, NEW F, RowSet(R, F), NEW j \in R, NEW s \in QueueStatuses, NEW b \in BOOLEAN
  PROVE  Reset(j, s, b) \in R /\ Kin(j, Reset(j, s, b), F) /\ Reset(j, s, b).status = s
<1> DEFINE r == Reset(j, s, b)
           k == [j EXCEPT !.status = s]
           h == [k EXCEPT !.due = b]
<1>1. k \in R /\ Kin(j, k, F) /\ k.status = s
  BY DEF RowSet
<1>2. r = [h EXCEPT !.lapsed = FALSE]
  BY DEF Reset
<1> HIDE DEF k, r
<1>3. h \in R /\ Kin(k, h, F) /\ h.status = k.status
  BY <1>1 DEF RowSet
<1> HIDE DEF h
<1>4. r \in R /\ Kin(h, r, F) /\ r.status = h.status
  BY <1>2, <1>3 DEF RowSet
<1> QED
  BY <1>1, <1>3, <1>4 DEF Kin, r

\* The sweep of a claim returns or fails a row whose lease is over.
LEMMA SweptRow ==
  ASSUME NEW R, NEW F, RowSet(R, F), NEW j \in R
  PROVE  /\ Swept(j) \in R /\ Kin(j, Swept(j), F)
         /\ \/ Swept(j).status = j.status
            \/ j.status = "PROCESSING" /\ Swept(j).status \in {"PENDING", "FAILED"}
<1>1. CASE j.status # "PROCESSING" \/ ~j.lapsed
  BY <1>1 DEF Swept, Kin
<1>2. CASE ~ (j.status # "PROCESSING" \/ ~j.lapsed)
  <2> DEFINE s == IF j.status = "PROCESSING" /\ j.attempts < MAX_ATTEMPTS
                  THEN "PENDING" ELSE "FAILED"
  <2>1. Swept(j) = Reset(j, s, TRUE)
    BY <1>2 DEF Swept, Reset
  <2>2. s \in {"PENDING", "FAILED"} /\ s \in QueueStatuses /\ TRUE \in BOOLEAN
    BY DEF QueueStatuses, Open, Ends
  <2> HIDE DEF s
  <2>3. Swept(j) \in R /\ Kin(j, Swept(j), F) /\ Swept(j).status = s
    <3>1. /\ Reset(j, s, TRUE) \in R /\ Kin(j, Reset(j, s, TRUE), F)
          /\ Reset(j, s, TRUE).status = s
      BY ONLY <2>2, ResetRow, RowSet(R, F), j \in R, Zenon
    <3> QED
      BY <2>1, <3>1
  <2> QED
    BY <1>2, <2>2, <2>3
<1> QED
  BY <1>1, <1>2

LEMMA LeasedRow ==
  ASSUME NEW R, NEW F, RowSet(R, F), NEW j \in R
  PROVE  Leased(j) \in R /\ Kin(j, Leased(j), F) /\ Leased(j).status = "PROCESSING"
<1> DEFINE k == [j EXCEPT !.status = "PROCESSING"]
           h == [k EXCEPT !.attempts = j.attempts + 1]
<1>1. /\ k \in R /\ Kin(j, k, F) /\ k.status = "PROCESSING"
      /\ j.attempts + 1 \in Nat
  BY DEF RowSet, QueueStatuses, Open
<1>2. Leased(j) = [h EXCEPT !.lapsed = FALSE]
  BY DEF Leased
<1> HIDE DEF k
<1>3. h \in R /\ Kin(k, h, F) /\ h.status = k.status
  BY <1>1 DEF RowSet
<1> HIDE DEF h
<1>4. Leased(j) \in R /\ Kin(h, Leased(j), F) /\ Leased(j).status = h.status
  BY <1>2, <1>3 DEF RowSet
<1> QED
  BY <1>1, <1>3, <1>4 DEF Kin

LEMMA ReturnedRow ==
  ASSUME NEW R, NEW F, RowSet(R, F), NEW j \in R
  PROVE  /\ Returned(j) \in R /\ Kin(j, Returned(j), F)
         /\ Returned(j).status \in {"PENDING", "FAILED"}
<1>0. "FAILED" \in QueueStatuses /\ "PENDING" \in QueueStatuses /\ FALSE \in BOOLEAN
  BY DEF QueueStatuses, Ends, Open
<1>1. CASE j.attempts >= MAX_ATTEMPTS
  <2>1. Returned(j) = Ended(j, "FAILED")
    BY <1>1 DEF Returned
  <2> QED
    BY <1>0, <2>1, EndedRow
<1>2. CASE ~ (j.attempts >= MAX_ATTEMPTS)
  <2>1. Returned(j) = Reset(j, "PENDING", FALSE)
    BY <1>2 DEF Returned, Reset
  <2> QED
    <3>1. /\ Reset(j, "PENDING", FALSE) \in R /\ Kin(j, Reset(j, "PENDING", FALSE), F)
          /\ Reset(j, "PENDING", FALSE).status = "PENDING"
      BY ONLY <1>0, ResetRow, RowSet(R, F), j \in R, Zenon
    <3> QED
      BY <2>1, <3>1
<1> QED
  BY <1>1, <1>2

LEMMA AgedRow ==
  ASSUME NEW R, NEW F, RowSet(R, F), NEW j \in R
  PROVE  Aged(j) \in R /\ Kin(j, Aged(j), F) /\ Aged(j).status = j.status
<1>1. Aged(j) \in {j, [j EXCEPT !.lapsed = TRUE], [j EXCEPT !.due = TRUE]}
  BY DEF Aged
<1>2. /\ [j EXCEPT !.lapsed = TRUE] \in R /\ Kin(j, [j EXCEPT !.lapsed = TRUE], F)
      /\ [j EXCEPT !.lapsed = TRUE].status = j.status
      /\ [j EXCEPT !.due = TRUE] \in R /\ Kin(j, [j EXCEPT !.due = TRUE], F)
      /\ [j EXCEPT !.due = TRUE].status = j.status
  BY DEF RowSet
<1>3. CASE Aged(j) = j
  BY <1>3 DEF Kin
<1> QED
  BY <1>1, <1>2, <1>3
-----------------------------------------------------------------------------
(* A row goes on: its other columns stay, and an end is never left, nor is *)
(* a row completed or answered.                                            *)

Later(j, k, F) ==
  /\ Kin(j, k, F)
  /\ \/ k.status = j.status
     \/ j.status \in Open /\ k.status \in Open \cup {"FAILED", "EXPIRED"}

Onward(old, new, R, F) ==
  /\ new \in Seq(R) /\ DOMAIN new = DOMAIN old
  /\ \A n \in DOMAIN old : Later(old[n], new[n], F)

LEMMA LaterLater ==
  ASSUME NEW F, NEW j, NEW k, NEW l, Later(j, k, F), Later(k, l, F)
  PROVE  Later(j, l, F)
BY DEF Later, Kin, Open

LEMMA LaterRow ==
  ASSUME NEW R, NEW F, RowSet(R, F), NEW j \in R
  PROVE  /\ Later(j, j, F) /\ Later(j, Swept(j), F) /\ Later(j, Aged(j), F)
         /\ j.status = "PENDING" => Later(j, Leased(j), F)
         /\ j.status = "PROCESSING" => Later(j, Returned(j), F)
         /\ \A s \in {"FAILED", "EXPIRED"} : j.status \in Open => Later(j, Ended(j, s), F)
<1>1. Later(j, j, F)
  BY DEF Later, Kin
<1>2. Later(j, Swept(j), F)
  BY SweptRow DEF Later, Open
<1>3. Later(j, Aged(j), F)
  BY AgedRow DEF Later
<1>4. j.status = "PENDING" => Later(j, Leased(j), F)
  BY LeasedRow DEF Later, Open
<1>5. j.status = "PROCESSING" => Later(j, Returned(j), F)
  BY ReturnedRow DEF Later, Open
<1>6. ASSUME NEW s \in {"FAILED", "EXPIRED"}, j.status \in Open
      PROVE  Later(j, Ended(j, s), F)
  <2>1. s \in QueueStatuses
    BY DEF QueueStatuses, Ends
  <2> QED
    BY <1>6, <2>1, EndedRow DEF Later
<1> QED
  BY <1>1, <1>2, <1>3, <1>4, <1>5, <1>6

LEMMA QueueTyped ==
  ASSUME NEW R, NEW old \in Seq(R), NEW new, new = [n \in DOMAIN old |-> new[n]],
         \A n \in DOMAIN old : new[n] \in R
  PROVE  new \in Seq(R) /\ DOMAIN new = DOMAIN old /\ Len(new) = Len(old)
<1>1. DOMAIN old = 1..Len(old) /\ Len(old) \in Nat
  OBVIOUS
<1>2. new \in [1..Len(old) -> R]
  BY <1>1
<1> QED
  BY <1>1, <1>2

LEMMA OneOnward ==
  ASSUME NEW R, NEW F, RowSet(R, F), NEW old \in Seq(R), NEW n \in DOMAIN old,
         NEW r \in R, Later(old[n], r, F), NEW new, new = [old EXCEPT ![n] = r]
  PROVE  Onward(old, new, R, F)
<1>1. new \in Seq(R) /\ DOMAIN new = DOMAIN old
  OBVIOUS
<1>2. ASSUME NEW m \in DOMAIN old
      PROVE  Later(old[m], new[m], F)
  <2>1. CASE m = n
    BY <2>1
  <2>2. CASE m # n
    <3>1. old[m] \in R /\ new[m] = old[m]
      BY <2>2
    <3> QED
      BY <3>1, LaterRow
  <2> QED
    BY <2>1, <2>2
<1> QED
  BY <1>1, <1>2 DEF Onward

\* A claim: every row swept, and one of them leased.
LEMMA ClaimOnward ==
  ASSUME NEW R, NEW F, RowSet(R, F), NEW old \in Seq(R), NEW swept,
         swept = [n \in DOMAIN old |-> swept[n]],
         \A n \in DOMAIN old : swept[n] \in R /\ Later(old[n], swept[n], F),
         NEW new,
         \/ new = swept
         \/ \E n \in DOMAIN old : /\ swept[n].status = "PENDING"
                                  /\ new = [swept EXCEPT ![n] = Leased(@)]
  PROVE  Onward(old, new, R, F)
<1>1. swept \in Seq(R) /\ DOMAIN swept = DOMAIN old
  BY QueueTyped
<1>2. Onward(old, swept, R, F)
  BY <1>1 DEF Onward
<1>3. ASSUME NEW n \in DOMAIN old, swept[n].status = "PENDING",
             new = [swept EXCEPT ![n] = Leased(@)]
      PROVE  Onward(old, new, R, F)
  <2>1. swept[n] \in R /\ Leased(swept[n]) \in R /\ Later(swept[n], Leased(swept[n]), F)
    BY <1>3, LeasedRow, LaterRow
  <2>2. Onward(swept, new, R, F)
    <3> DEFINE r == Leased(swept[n])
    <3>1. r \in R /\ Later(swept[n], r, F) /\ new = [swept EXCEPT ![n] = r]
      BY <1>3, <2>1
    <3> HIDE DEF r
    <3> QED
      BY <1>1, <3>1, OneOnward
  <2> QED
    BY <1>1, <1>2, <2>2, LaterLater DEF Onward
<1> QED
  BY <1>2, <1>3
-----------------------------------------------------------------------------
(* The memory index. *)

IndexRow == [status : QueueStatuses, attempts : Nat, due : BOOLEAN, lapsed : BOOLEAN]

LEMMA JobRowSet == RowSet(IndexRow, {})
<1> SUFFICES ASSUME NEW j \in IndexRow
             PROVE  /\ j.status \in QueueStatuses /\ j.attempts \in Nat
                    /\ \A s \in QueueStatuses : LET k == [j EXCEPT !.status = s] IN
                         k \in IndexRow /\ k.status = s /\ k.attempts = j.attempts
                    /\ \A a \in Nat : LET k == [j EXCEPT !.attempts = a] IN
                         k \in IndexRow /\ k.status = j.status
                    /\ \A b \in BOOLEAN : LET k == [j EXCEPT !.due = b] IN
                         k \in IndexRow /\ k.status = j.status /\ k.attempts = j.attempts
                    /\ \A b \in BOOLEAN : LET k == [j EXCEPT !.lapsed = b] IN
                         k \in IndexRow /\ k.status = j.status /\ k.attempts = j.attempts
  BY DEF RowSet, Kin
<1> QED
  BY DEF IndexRow

IndexReports == {"none", "complete", "fail", "stored"}
IndexerRow == [job : Nat, token : Nat, report : IndexReports]

IndexersSound ==
  /\ indexer \in [Indexers -> IndexerRow]
  /\ \A w \in Indexers :
       /\ indexer[w].report # "none" => indexer[w].job # 0
       /\ indexer[w].job # 0 => indexer[w].job \in DOMAIN indexJobs
       /\ indexer[w].report = "stored" => indexer[w].job \in vectors

IndexTyped ==
  /\ messages \in Seq([conv : Chats, at : Nat]) /\ indexTime \in Nat
  /\ indexJobs \in Seq(IndexRow) /\ DOMAIN indexJobs = DOMAIN messages
  /\ entries \subseteq DOMAIN indexJobs

\* A job is over exactly if its entry is there, and an entry has its vector: a
\* worker that is about to complete a job has stored the vector before.
EntriesExact ==
  \A n \in DOMAIN indexJobs : n \in entries <=> indexJobs[n].status = "COMPLETED"
EntriesBacked == entries \subseteq vectors

IndexInv == IndexTyped /\ IndexersSound /\ EntriesExact /\ EntriesBacked

LEMMA IndexStarts == IndexInit => IndexInv
<1> SUFFICES ASSUME IndexInit PROVE IndexInv
  OBVIOUS
<1>1. IndexIdle \in IndexerRow /\ IndexIdle.job = 0 /\ IndexIdle.report = "none"
  BY DEF IndexIdle, IndexerRow, IndexReports
<1>2. IndexersSound
  BY <1>1 DEF IndexInit, IndexersSound
<1>3. IndexTyped /\ EntriesExact /\ EntriesBacked
  BY DEF IndexInit, IndexTyped, EntriesExact, EntriesBacked
<1> QED
  BY <1>2, <1>3 DEF IndexInv

\* One worker moves on; rows and vectors are only added.
LEMMA IndexerMoves ==
  ASSUME IndexInv, NEW w \in Indexers, NEW r \in IndexerRow,
         indexer' = [indexer EXCEPT ![w] = r],
         DOMAIN indexJobs \subseteq DOMAIN indexJobs', vectors \subseteq vectors',
         r.report # "none" => r.job # 0,
         r.job # 0 => r.job \in DOMAIN indexJobs',
         r.report = "stored" => r.job \in vectors'
  PROVE  IndexersSound'
<1>1. indexer' \in [Indexers -> IndexerRow]
  BY DEF IndexInv, IndexersSound
<1>2. ASSUME NEW v \in Indexers
      PROVE  /\ indexer'[v].report # "none" => indexer'[v].job # 0
             /\ indexer'[v].job # 0 => indexer'[v].job \in DOMAIN indexJobs'
             /\ indexer'[v].report = "stored" => indexer'[v].job \in vectors'
  <2>1. CASE v = w
    <3>1. indexer'[v] = r
      BY <2>1 DEF IndexInv, IndexersSound
    <3> QED
      BY <3>1
  <2>2. CASE v # w
    <3>1. indexer'[v] = indexer[v]
      BY <2>2 DEF IndexInv, IndexersSound
    <3> QED
      BY <3>1 DEF IndexInv, IndexersSound
  <2> QED
    BY <2>1, <2>2
<1> QED
  BY <1>1, <1>2 DEF IndexersSound

LEMMA IndexersRest ==
  ASSUME IndexInv, indexer' = indexer,
         DOMAIN indexJobs \subseteq DOMAIN indexJobs', vectors \subseteq vectors'
  PROVE  IndexersSound'
BY DEF IndexInv, IndexersSound

\* The rows go on, and nothing is stored or completed.
LEMMA RowsGoOn ==
  ASSUME IndexInv, Onward(indexJobs, indexJobs', IndexRow, {}), IndexersSound',
         UNCHANGED <<messages, entries>>, vectors \subseteq vectors', indexTime' \in Nat
  PROVE  IndexInv'
<1>1. IndexTyped'
  BY DEF IndexInv, IndexTyped, Onward
<1>2. ASSUME NEW n \in DOMAIN indexJobs'
      PROVE  n \in entries' <=> indexJobs'[n].status = "COMPLETED"
  <2>1. n \in DOMAIN indexJobs /\ Later(indexJobs[n], indexJobs'[n], {})
    BY DEF Onward
  <2>2. indexJobs[n].status = "COMPLETED" <=> indexJobs'[n].status = "COMPLETED"
    BY <2>1 DEF Later, Open
  <2> QED
    BY <2>1, <2>2 DEF IndexInv, EntriesExact
<1>3. EntriesBacked'
  BY DEF IndexInv, EntriesBacked
<1> QED
  BY <1>1, <1>2, <1>3 DEF IndexInv, EntriesExact

\* Rows that do not change go on.
LEMMA RowsStay ==
  ASSUME NEW R, NEW F, RowSet(R, F), NEW old \in Seq(R)
  PROVE  Onward(old, old, R, F)
<1>1. \A n \in DOMAIN old : old[n] \in R
  OBVIOUS
<1> QED
  BY <1>1, LaterRow DEF Onward

\* A worker is typed whatever it takes up or reports.
LEMMA IndexerRows ==
  /\ IndexIdle \in IndexerRow /\ IndexIdle.job = 0 /\ IndexIdle.report = "none"
  /\ \A r \in IndexerRow : \A p \in IndexReports : LET k == [r EXCEPT !.report = p] IN
       k \in IndexerRow /\ k.report = p /\ k.job = r.job
  /\ \A r \in IndexerRow : \A n \in Nat, t \in Nat :
       LET k == [r EXCEPT !.job = n, !.token = t] IN
         k \in IndexerRow /\ k.report = r.report /\ k.job = n
<1>1. IndexIdle \in IndexerRow /\ IndexIdle.job = 0 /\ IndexIdle.report = "none"
  BY DEF IndexIdle, IndexerRow, IndexReports
<1>2. ASSUME NEW r \in IndexerRow, NEW p \in IndexReports
      PROVE  LET k == [r EXCEPT !.report = p] IN
               k \in IndexerRow /\ k.report = p /\ k.job = r.job
  BY DEF IndexerRow
<1>3. ASSUME NEW r \in IndexerRow, NEW n \in Nat, NEW t \in Nat
      PROVE  LET k == [r EXCEPT !.job = n, !.token = t] IN
               k \in IndexerRow /\ k.report = r.report /\ k.job = n
  BY DEF IndexerRow
<1> QED
  BY <1>1, <1>2, <1>3
-----------------------------------------------------------------------------
LEMMA StoreMessageKeeps ==
  ASSUME IndexInv, NEW c \in Chats, StoreMessage(c)
  PROVE  IndexInv'
<1>1. PICK at \in {indexTime, indexTime - 1} \cap Nat :
        messages' = Append(messages, [conv |-> c, at |-> at])
  BY DEF StoreMessage
<1>2. /\ indexJobs' = Append(indexJobs, Queued)
      /\ UNCHANGED <<entries, vectors, indexer, indexTime>>
  BY DEF StoreMessage
<1>3. Queued \in IndexRow /\ Queued.status = "PENDING"
  BY DEF Queued, IndexRow, QueueStatuses, Open
<1>4. [conv |-> c, at |-> at] \in [conv : Chats, at : Nat]
  OBVIOUS
<1>5. /\ messages \in Seq([conv : Chats, at : Nat]) /\ indexTime \in Nat
      /\ indexJobs \in Seq(IndexRow) /\ DOMAIN indexJobs = DOMAIN messages
      /\ entries \subseteq DOMAIN indexJobs
  BY DEF IndexInv, IndexTyped
<1>6. Len(indexJobs) = Len(messages)
  BY <1>5
<1>7. /\ messages' \in Seq([conv : Chats, at : Nat])
      /\ DOMAIN messages' = 1..(Len(messages) + 1)
  BY <1>1, <1>4, <1>5
<1>8. /\ indexJobs' \in Seq(IndexRow) /\ DOMAIN indexJobs' = 1..(Len(indexJobs) + 1)
      /\ \A n \in 1..Len(indexJobs) : indexJobs'[n] = indexJobs[n]
      /\ indexJobs'[Len(indexJobs) + 1] = Queued
      /\ DOMAIN indexJobs = 1..Len(indexJobs) /\ Len(indexJobs) \in Nat
  BY <1>2, <1>3, <1>5
<1>9. IndexersSound'
  <2>1. DOMAIN indexJobs \subseteq DOMAIN indexJobs'
    BY <1>8
  <2> QED
    BY <1>2, <2>1, IndexersRest
<1>10. IndexTyped'
  BY <1>2, <1>5, <1>6, <1>7, <1>8 DEF IndexTyped
<1>11. EntriesExact'
  <2>1. ASSUME NEW n \in DOMAIN indexJobs'
        PROVE  n \in entries <=> indexJobs'[n].status = "COMPLETED"
    <3>1. CASE n = Len(indexJobs) + 1
      BY <1>3, <1>5, <1>8, <3>1
    <3>2. CASE n # Len(indexJobs) + 1
      <4>1. n \in DOMAIN indexJobs /\ indexJobs'[n] = indexJobs[n]
        BY <1>8, <3>2
      <4> QED
        BY <4>1 DEF IndexInv, EntriesExact
    <3> QED
      BY <3>1, <3>2
  <2> QED
    BY <1>2, <2>1 DEF EntriesExact
<1>12. EntriesBacked'
  BY <1>2 DEF IndexInv, EntriesBacked
<1> QED
  BY <1>9, <1>10, <1>11, <1>12 DEF IndexInv

SweptIndex == [n \in DOMAIN indexJobs |-> Swept(indexJobs[n])]

LEMMA ClaimIndexKeeps ==
  ASSUME IndexInv, NEW w \in Indexers, ClaimIndex(w)
  PROVE  IndexInv'
<1>1. /\ indexer[w] = IndexIdle
      /\ \E n \in Oldest(SweptIndex) \cup (IF Oldest(SweptIndex) = {} THEN {0} ELSE {}) :
           /\ indexJobs' = IF n = 0 THEN SweptIndex
                           ELSE [SweptIndex EXCEPT ![n] = Leased(@)]
           /\ indexer' = IF n = 0 THEN indexer
                         ELSE [indexer EXCEPT ![w].job = n,
                                              ![w].token = SweptIndex[n].attempts + 1]
      /\ UNCHANGED <<messages, entries, vectors, indexTime>>
  BY DEF ClaimIndex, SweptIndex
<1>2. /\ indexJobs \in Seq(IndexRow) /\ indexTime \in Nat
      /\ indexer \in [Indexers -> IndexerRow]
      /\ DOMAIN indexJobs = 1..Len(indexJobs) /\ Len(indexJobs) \in Nat
  BY DEF IndexInv, IndexTyped, IndexersSound
<1>3. /\ SweptIndex = [n \in DOMAIN indexJobs |-> SweptIndex[n]]
      /\ \A n \in DOMAIN indexJobs :
           SweptIndex[n] \in IndexRow /\ Later(indexJobs[n], SweptIndex[n], {})
  <2>1. ASSUME NEW n \in DOMAIN indexJobs
        PROVE  SweptIndex[n] \in IndexRow /\ Later(indexJobs[n], SweptIndex[n], {})
    <3>1. indexJobs[n] \in IndexRow /\ SweptIndex[n] = Swept(indexJobs[n])
      BY <1>2 DEF SweptIndex
    <3> QED
      BY <3>1, SweptRow, LaterRow, JobRowSet
  <2> QED
    BY <2>1 DEF SweptIndex
<1>4. \A n \in Oldest(SweptIndex) : /\ n \in DOMAIN indexJobs /\ n # 0
                                    /\ SweptIndex[n].status = "PENDING"
  BY <1>2, <1>3 DEF Oldest
<1>5. PICK n \in Oldest(SweptIndex) \cup (IF Oldest(SweptIndex) = {} THEN {0} ELSE {}) :
           /\ indexJobs' = IF n = 0 THEN SweptIndex
                           ELSE [SweptIndex EXCEPT ![n] = Leased(@)]
           /\ indexer' = IF n = 0 THEN indexer
                         ELSE [indexer EXCEPT ![w].job = n,
                                              ![w].token = SweptIndex[n].attempts + 1]
  BY <1>1
<1>6. \/ n = 0
      \/ n \in DOMAIN indexJobs /\ n # 0 /\ SweptIndex[n].status = "PENDING"
  BY <1>4
<1>7. Onward(indexJobs, indexJobs', IndexRow, {})
  <2>1. \/ indexJobs' = SweptIndex
        \/ \E m \in DOMAIN indexJobs : /\ SweptIndex[m].status = "PENDING"
                                       /\ indexJobs' = [SweptIndex EXCEPT ![m] = Leased(@)]
    BY <1>5, <1>6
  <2> DEFINE swept == SweptIndex
             new == indexJobs'
  <2>2. /\ swept = [m \in DOMAIN indexJobs |-> swept[m]]
        /\ \A m \in DOMAIN indexJobs : swept[m] \in IndexRow /\ Later(indexJobs[m], swept[m], {})
        /\ \/ new = swept
           \/ \E m \in DOMAIN indexJobs : /\ swept[m].status = "PENDING"
                                          /\ new = [swept EXCEPT ![m] = Leased(@)]
    BY <1>3, <2>1
  <2> HIDE DEF swept, new
  <2>3. Onward(indexJobs, new, IndexRow, {})
    BY <1>2, <2>2, ClaimOnward, JobRowSet
  <2> QED
    BY <2>3 DEF new
<1>8. DOMAIN indexJobs' = DOMAIN indexJobs
  BY <1>7 DEF Onward
<1>9. IndexersSound'
  <2>1. CASE n = 0
    BY <1>1, <1>5, <1>8, <2>1, IndexersRest
  <2>2. CASE n # 0
    <3> DEFINE t == SweptIndex[n].attempts + 1
               r == [indexer[w] EXCEPT !.job = n, !.token = t]
    <3>1. n \in DOMAIN indexJobs /\ n \in Nat
      BY <1>2, <1>6, <2>2
    <3>2. t \in Nat
      BY <1>3, <3>1 DEF IndexRow
    <3>3. indexer' = [indexer EXCEPT ![w] = r]
      BY <1>5, <2>2
    <3>4. indexer[w] \in IndexerRow /\ indexer[w].report = "none"
      BY <1>1, IndexerRows
    <3> HIDE DEF t
    <3>5. r \in IndexerRow /\ r.report = "none" /\ r.job = n
      BY <3>1, <3>2, <3>4 DEF IndexerRow
    <3> HIDE DEF r
    <3> QED
      BY <1>1, <1>8, <2>2, <3>1, <3>3, <3>5, IndexerMoves
  <2> QED
    BY <2>1, <2>2
<1> QED
  BY <1>1, <1>2, <1>7, <1>9, RowsGoOn
-----------------------------------------------------------------------------
\* A step of one worker that leaves the rows and the entries alone.
LEMMA IndexerOnly ==
  ASSUME IndexInv, NEW w \in Indexers, NEW r \in IndexerRow,
         indexer' = [indexer EXCEPT ![w] = r],
         UNCHANGED <<messages, indexJobs, entries, indexTime>>, vectors \subseteq vectors',
         r.report # "none" => r.job # 0,
         r.job # 0 => r.job \in DOMAIN indexJobs,
         r.report = "stored" => r.job \in vectors'
  PROVE  IndexInv'
<1>1. IndexersSound'
  BY IndexerMoves
<1>2. /\ IndexTyped' /\ EntriesExact' /\ EntriesBacked'
  BY DEF IndexInv, IndexTyped, EntriesExact, EntriesBacked
<1> QED
  BY <1>1, <1>2 DEF IndexInv

LEMMA ReadIndexKeeps ==
  ASSUME IndexInv, NEW w \in Indexers, ReadIndex(w)
  PROVE  IndexInv'
<1>1. /\ indexer[w].job # 0 /\ indexer[w] \in IndexerRow
      /\ indexer[w].job \in DOMAIN indexJobs
  BY DEF ReadIndex, IndexInv, IndexersSound
<1>2. PICK p \in {"complete", "fail"} :
        indexer' = [indexer EXCEPT ![w] =
          IF Held(indexJobs[indexer[w].job], indexer[w].token)
          THEN [indexer[w] EXCEPT !.report = p] ELSE IndexIdle]
  BY DEF ReadIndex
<1>3. UNCHANGED <<messages, indexJobs, entries, vectors, indexTime>>
  BY DEF ReadIndex
<1>4. CASE Held(indexJobs[indexer[w].job], indexer[w].token)
  <2> DEFINE r == [indexer[w] EXCEPT !.report = p]
  <2>1. p \in IndexReports
    BY DEF IndexReports
  <2>2. r \in IndexerRow /\ r.report = p /\ r.job = indexer[w].job
    BY <1>1, <2>1, IndexerRows
  <2>3. indexer' = [indexer EXCEPT ![w] = r]
    BY <1>2, <1>4
  <2> HIDE DEF r
  <2> QED
    BY <1>1, <1>3, <2>2, <2>3, IndexerOnly
<1>5. CASE ~ Held(indexJobs[indexer[w].job], indexer[w].token)
  <2>1. indexer' = [indexer EXCEPT ![w] = IndexIdle]
    BY <1>2, <1>5
  <2> QED
    BY <1>3, <2>1, IndexerRows, IndexerOnly
<1> QED
  BY <1>4, <1>5

LEMMA UpsertKeeps ==
  ASSUME IndexInv, NEW w \in Indexers, Upsert(w)
  PROVE  IndexInv'
<1> DEFINE r == [indexer[w] EXCEPT !.report = "stored"]
<1>1. /\ indexer[w] \in IndexerRow /\ indexer[w].report = "complete"
      /\ indexer[w].job # 0 /\ indexer[w].job \in DOMAIN indexJobs
  BY DEF Upsert, IndexInv, IndexersSound
<1>2. r \in IndexerRow /\ r.report = "stored" /\ r.job = indexer[w].job
  BY <1>1, IndexerRows DEF IndexReports
<1>3. /\ indexer' = [indexer EXCEPT ![w] = r]
      /\ vectors' = vectors \cup {indexer[w].job}
      /\ UNCHANGED <<messages, indexJobs, entries, indexTime>>
  BY DEF Upsert
<1> HIDE DEF r
<1>4. vectors \subseteq vectors' /\ r.job \in vectors'
  BY <1>2, <1>3
<1> QED
  BY <1>1, <1>2, <1>3, <1>4, IndexerOnly

LEMMA CompleteIndexKeeps ==
  ASSUME IndexInv, NEW w \in Indexers, CompleteIndex(w)
  PROVE  IndexInv'
<1> DEFINE n == indexer[w].job
<1>1. /\ indexer[w].report = "stored" /\ indexer' = [indexer EXCEPT ![w] = IndexIdle]
      /\ UNCHANGED <<messages, vectors, indexTime>>
      /\ IF Kept(indexJobs[n], indexer[w].token)
         THEN /\ indexJobs' = [indexJobs EXCEPT ![n] = Ended(indexJobs[n], "COMPLETED")]
              /\ entries' = entries \cup {n}
         ELSE UNCHANGED <<indexJobs, entries>>
  BY DEF CompleteIndex
<1>2. n \in DOMAIN indexJobs /\ n \in vectors
  BY <1>1 DEF IndexInv, IndexersSound
<1> HIDE DEF n
<1>3. CASE ~ Kept(indexJobs[n], indexer[w].token)
  BY <1>1, <1>3, IndexerRows, IndexerOnly
<1>4. CASE Kept(indexJobs[n], indexer[w].token)
  <2> DEFINE r == Ended(indexJobs[n], "COMPLETED")
  <2>1. indexJobs \in Seq(IndexRow) /\ indexJobs[n] \in IndexRow
    BY <1>2 DEF IndexInv, IndexTyped
  <2>2. r \in IndexRow /\ r.status = "COMPLETED"
    BY <2>1, JobRowSet, EndedRow DEF QueueStatuses, Ends
  <2>3. indexJobs' = [indexJobs EXCEPT ![n] = r] /\ entries' = entries \cup {n}
    BY <1>1, <1>4
  <2> HIDE DEF r
  <2>4. /\ indexJobs' \in Seq(IndexRow) /\ DOMAIN indexJobs' = DOMAIN indexJobs
        /\ indexJobs'[n] = r
        /\ \A m \in DOMAIN indexJobs \ {n} : indexJobs'[m] = indexJobs[m]
    BY <1>2, <2>1, <2>2, <2>3
  <2>5. IndexersSound'
    BY <1>1, <2>4, IndexerRows, IndexerMoves
  <2>6. IndexTyped'
    BY <1>1, <1>2, <2>3, <2>4 DEF IndexInv, IndexTyped
  <2>7. EntriesExact'
    BY <2>2, <2>3, <2>4 DEF IndexInv, EntriesExact
  <2>8. EntriesBacked'
    BY <1>1, <1>2, <2>3 DEF IndexInv, EntriesBacked
  <2> QED
    BY <2>5, <2>6, <2>7, <2>8 DEF IndexInv
<1> QED
  BY <1>3, <1>4

LEMMA FailIndexKeeps ==
  ASSUME IndexInv, NEW w \in Indexers, FailIndex(w)
  PROVE  IndexInv'
<1> DEFINE n == indexer[w].job
<1>1. /\ indexer[w].report = "fail" /\ indexer' = [indexer EXCEPT ![w] = IndexIdle]
      /\ indexJobs' = IF Kept(indexJobs[n], indexer[w].token)
                      THEN [indexJobs EXCEPT ![n] = Returned(indexJobs[n])] ELSE indexJobs
      /\ UNCHANGED <<messages, entries, vectors, indexTime>>
  BY DEF FailIndex
<1>2. n \in DOMAIN indexJobs /\ indexJobs \in Seq(IndexRow) /\ indexTime \in Nat
  BY <1>1 DEF IndexInv, IndexersSound, IndexTyped
<1> HIDE DEF n
<1>3. Onward(indexJobs, indexJobs', IndexRow, {})
  <2>1. CASE ~ Kept(indexJobs[n], indexer[w].token)
    <3>1. indexJobs' = indexJobs
      BY <1>1, <2>1
    <3> QED
      BY <1>2, <3>1, JobRowSet, RowsStay
  <2>2. CASE Kept(indexJobs[n], indexer[w].token)
    <3> DEFINE r == Returned(indexJobs[n])
    <3>1. indexJobs[n] \in IndexRow /\ indexJobs[n].status = "PROCESSING"
      BY <1>2, <2>2 DEF Kept
    <3>2. r \in IndexRow /\ Later(indexJobs[n], r, {})
      BY <3>1, JobRowSet, ReturnedRow, LaterRow
    <3>3. indexJobs' = [indexJobs EXCEPT ![n] = r]
      BY <1>1, <2>2
    <3> HIDE DEF r
    <3> QED
      BY <1>2, <3>2, <3>3, JobRowSet, OneOnward
  <2> QED
    BY <2>1, <2>2
<1>4. IndexersSound'
  <2>1. DOMAIN indexJobs' = DOMAIN indexJobs
    BY <1>3 DEF Onward
  <2> QED
    BY <1>1, <2>1, IndexerRows, IndexerMoves
<1> QED
  BY <1>1, <1>2, <1>3, <1>4, RowsGoOn

LEMMA IndexAgeKeeps ==
  ASSUME IndexInv, IndexAge
  PROVE  IndexInv'
<1>1. UNCHANGED <<messages, entries, vectors, indexer>>
  BY DEF IndexAge
<1>2. indexJobs \in Seq(IndexRow) /\ indexTime \in Nat
  BY DEF IndexInv, IndexTyped
<1>3. Onward(indexJobs, indexJobs', IndexRow, {}) /\ indexTime' \in Nat
  <2>1. CASE indexTime' = indexTime + 1 /\ UNCHANGED indexJobs
    BY <1>2, <2>1, JobRowSet, RowsStay
  <2>2. CASE UNCHANGED indexTime /\ \E n \in DOMAIN indexJobs :
                                      indexJobs' = [indexJobs EXCEPT ![n] = Aged(indexJobs[n])]
    <3>1. PICK n \in DOMAIN indexJobs :
            indexJobs' = [indexJobs EXCEPT ![n] = Aged(indexJobs[n])]
      BY <2>2
    <3> DEFINE r == Aged(indexJobs[n])
    <3>2. indexJobs[n] \in IndexRow
      BY <1>2
    <3>3. r \in IndexRow /\ Later(indexJobs[n], r, {})
      BY <3>2, JobRowSet, AgedRow, LaterRow
    <3>4. indexJobs' = [indexJobs EXCEPT ![n] = r]
      BY <3>1
    <3> HIDE DEF r
    <3> QED
      BY <1>2, <2>2, <3>3, <3>4, JobRowSet, OneOnward
  <2> QED
    BY <2>1, <2>2 DEF IndexAge
<1>4. IndexersSound'
  <2>1. DOMAIN indexJobs' = DOMAIN indexJobs
    BY <1>3 DEF Onward
  <2> QED
    BY <1>1, <2>1, IndexersRest
<1> QED
  BY <1>1, <1>3, <1>4, RowsGoOn

LEMMA IndexStep ==
  ASSUME IndexInv, [IndexNext]_indexVars
  PROVE  IndexInv'
<1>1. CASE UNCHANGED indexVars
  BY <1>1 DEF indexVars, IndexInv, IndexTyped, IndexersSound, EntriesExact, EntriesBacked
<1>2. ASSUME NEW c \in Chats, StoreMessage(c)
      PROVE  IndexInv'
  BY <1>2, StoreMessageKeeps
<1>3. ASSUME NEW w \in Indexers, ClaimIndex(w)
      PROVE  IndexInv'
  BY <1>3, ClaimIndexKeeps
<1>4. ASSUME NEW w \in Indexers, ReadIndex(w)
      PROVE  IndexInv'
  BY <1>4, ReadIndexKeeps
<1>5. ASSUME NEW w \in Indexers, Upsert(w)
      PROVE  IndexInv'
  BY <1>5, UpsertKeeps
<1>6. ASSUME NEW w \in Indexers, CompleteIndex(w)
      PROVE  IndexInv'
  BY <1>6, CompleteIndexKeeps
<1>7. ASSUME NEW w \in Indexers, FailIndex(w)
      PROVE  IndexInv'
  BY <1>7, FailIndexKeeps
<1>8. ASSUME NEW w \in Indexers, IndexerCrash(w)
      PROVE  IndexInv'
  BY <1>8, IndexerRows, IndexerOnly DEF IndexerCrash
<1>9. CASE IndexAge
  BY <1>9, IndexAgeKeeps
<1> QED
  BY <1>1, <1>2, <1>3, <1>4, <1>5, <1>6, <1>7, <1>8, <1>9 DEF IndexNext

\* The memory index never says more of itself than is there: a recall that
\* calls itself complete had the entry and the vector of every older message
\* (assistant-memory-index.ts, the batch that ends a job and the recall query).
THEOREM RecallIsHonest == IndexSpec => []RecallHonest
<1>1. IndexInv => RecallHonest
  <2> SUFFICES ASSUME IndexInv PROVE RecallHonest
    OBVIOUS
  <2>1. \A n \in DOMAIN indexJobs : n \in entries <=> indexJobs[n].status = "COMPLETED"
    BY DEF IndexInv, EntriesExact
  <2>2. ASSUME NEW c \in Chats, NEW at \in 0..MaxIndexTime
        PROVE  LET r == Recall(c, at) IN
                 /\ r.complete => \A n \in DOMAIN messages :
                      messages[n].conv # c /\ messages[n].at < at => n \in entries \cap vectors
                 /\ \A n \in r.items : messages[n].at < at /\ n \in vectors
    <3>1. entries \subseteq vectors
      BY DEF IndexInv, EntriesBacked
    <3>2. ASSUME Recall(c, at).complete, NEW n \in DOMAIN messages,
                 messages[n].conv # c /\ messages[n].at < at
          PROVE  n \in entries \cap vectors
      <4>1. n \in Older(c, at)
        BY <3>2 DEF Older
      <4>2. {m \in Older(c, at) \cap entries : indexJobs[m].status = "COMPLETED"} = Older(c, at)
        BY <3>2 DEF Recall
      <4>3. n \in entries
        BY <4>1, <4>2
      <4> QED
        BY <3>1, <4>3
    <3>3. ASSUME NEW n \in Recall(c, at).items
          PROVE  messages[n].at < at /\ n \in vectors
      <4>1. n \in Older(c, at) /\ n \in entries
        BY <3>3 DEF Recall
      <4> QED
        BY <3>1, <4>1 DEF Older
    <3> QED
      BY <3>2, <3>3
  <2> QED
    BY <2>1, <2>2 DEF RecallHonest
<1> QED
  BY <1>1, IndexStarts, IndexStep, PTL DEF IndexSpec
-----------------------------------------------------------------------------
(* The questions. *)

QuestionRow ==
  [owner : Owners, key : Keys, hash : Nat \X Texts, recent : BOOLEAN, stale : BOOLEAN,
   status : QueueStatuses, attempts : Nat, due : BOOLEAN, lapsed : BOOLEAN]

\* The columns a question keeps as its row goes on.
Given == {"owner", "key", "hash", "recent"}

LEMMA QuestionRowSet == RowSet(QuestionRow, Given)
<1> SUFFICES ASSUME NEW j \in QuestionRow
             PROVE  /\ j.status \in QueueStatuses /\ j.attempts \in Nat
                    /\ \A s \in QueueStatuses : LET k == [j EXCEPT !.status = s] IN
                         /\ k \in QuestionRow /\ Kin(j, k, Given)
                         /\ k.status = s /\ k.attempts = j.attempts
                    /\ \A a \in Nat : LET k == [j EXCEPT !.attempts = a] IN
                         k \in QuestionRow /\ Kin(j, k, Given) /\ k.status = j.status
                    /\ \A b \in BOOLEAN : LET k == [j EXCEPT !.due = b] IN
                         /\ k \in QuestionRow /\ Kin(j, k, Given)
                         /\ k.status = j.status /\ k.attempts = j.attempts
                    /\ \A b \in BOOLEAN : LET k == [j EXCEPT !.lapsed = b] IN
                         /\ k \in QuestionRow /\ Kin(j, k, Given)
                         /\ k.status = j.status /\ k.attempts = j.attempts
  BY DEF RowSet
<1>1. j.status \in QueueStatuses /\ j.attempts \in Nat
  BY DEF QuestionRow
<1>2. ASSUME NEW s \in QueueStatuses
      PROVE  LET k == [j EXCEPT !.status = s] IN
               /\ k \in QuestionRow /\ Kin(j, k, Given)
               /\ k.status = s /\ k.attempts = j.attempts
  BY DEF QuestionRow, Kin, Given
<1>3. ASSUME NEW a \in Nat
      PROVE  LET k == [j EXCEPT !.attempts = a] IN
               k \in QuestionRow /\ Kin(j, k, Given) /\ k.status = j.status
  BY DEF QuestionRow, Kin, Given
<1>4. ASSUME NEW b \in BOOLEAN
      PROVE  LET k == [j EXCEPT !.due = b] IN
               /\ k \in QuestionRow /\ Kin(j, k, Given)
               /\ k.status = j.status /\ k.attempts = j.attempts
  BY DEF QuestionRow, Kin, Given
<1>5. ASSUME NEW b \in BOOLEAN
      PROVE  LET k == [j EXCEPT !.lapsed = b] IN
               /\ k \in QuestionRow /\ Kin(j, k, Given)
               /\ k.status = j.status /\ k.attempts = j.attempts
  BY DEF QuestionRow, Kin, Given
<1> QED
  BY <1>1, <1>2, <1>3, <1>4, <1>5

Reports == {"none", "complete", "fail", "defer"}
AnswererRow == [row : Nat, token : Nat, report : Reports]

QuestionsTyped ==
  /\ questions \in Seq(QuestionRow) /\ day \in Nat
  /\ stored \in Seq([user : Nat, assistant : Nat]) /\ DOMAIN stored = DOMAIN questions
AnswerersSound ==
  /\ answerer \in [Answerers -> AnswererRow]
  /\ \A w \in Answerers :
       /\ answerer[w].report # "none" => answerer[w].row # 0
       /\ answerer[w].row # 0 => answerer[w].row \in DOMAIN questions

\* A lease or a token says nothing that QuestionsExact needs: a report that is
\* kept finds its row unanswered, because an answer ends it.
QuestionInv == QuestionsTyped /\ AnswerersSound /\ QuestionsExact

\* What a row may become when no question is stored or answered.
GoesOn(q, r) ==
  /\ r.owner = q.owner /\ r.key = q.key /\ r.hash = q.hash
  /\ r.recent => q.recent
  /\ r.status \in Open => q.status \in Open
  /\ r.status = "ANSWERED" <=> q.status = "ANSWERED"

LEMMA LaterGoesOn ==
  ASSUME NEW q, NEW r, Later(q, r, Given)
  PROVE  GoesOn(q, r)
<1>1. /\ r.owner = q.owner /\ r.key = q.key /\ r.hash = q.hash /\ r.recent = q.recent
  BY DEF Later, Kin, Given
<1>2. /\ r.status \in Open => q.status \in Open
      /\ r.status = "ANSWERED" <=> q.status = "ANSWERED"
  BY DEF Later, Open
<1> QED
  BY <1>1, <1>2 DEF GoesOn

LEMMA Fewer ==
  ASSUME NEW S, NEW T, IsFiniteSet(T), S \subseteq T, NEW k \in Nat, Cardinality(T) <= k
  PROVE  Cardinality(S) <= k
<1>1. IsFiniteSet(S) /\ Cardinality(S) <= Cardinality(T)
  BY FS_Subset
<1>2. Cardinality(S) \in Nat /\ Cardinality(T) \in Nat
  BY <1>1, FS_CardinalityType
<1> QED
  BY <1>1, <1>2

LEMMA OneMore ==
  ASSUME NEW S, NEW T, IsFiniteSet(T), NEW x, S \subseteq T \cup {x}, NEW k \in Nat,
         Cardinality(T) < k
  PROVE  Cardinality(S) <= k
<1>1. /\ IsFiniteSet(T \cup {x})
      /\ Cardinality(T \cup {x}) = Cardinality(T) \/ Cardinality(T \cup {x}) = Cardinality(T) + 1
  BY FS_AddElement
<1>2. Cardinality(T) \in Nat
  BY FS_CardinalityType
<1>3. Cardinality(T \cup {x}) <= k
  BY <1>1, <1>2
<1> QED
  BY <1>1, <1>3, Fewer

LEMMA QuestionsFinite ==
  ASSUME QuestionsTyped
  PROVE  /\ IsFiniteSet(OpenQuestions)
         /\ \A o : IsFiniteSet(OpenOf(o)) /\ IsFiniteSet(RecentQuestions(o))
<1>1. DOMAIN questions = 1..Len(questions) /\ Len(questions) \in Nat
  BY DEF QuestionsTyped
<1>2. IsFiniteSet(DOMAIN questions)
  BY <1>1, FS_Interval
<1>3. /\ OpenQuestions \subseteq DOMAIN questions
      /\ \A o : /\ OpenOf(o) \subseteq DOMAIN questions
                /\ RecentQuestions(o) \subseteq DOMAIN questions
  BY DEF OpenQuestions, OpenOf, RecentQuestions
<1> QED
  BY <1>2, <1>3, FS_Subset
-----------------------------------------------------------------------------

LEMMA QuestionsStart == QuestionInit => QuestionInv
<1> SUFFICES ASSUME QuestionInit PROVE QuestionInv
  OBVIOUS
<1>1. AnswererIdle \in AnswererRow /\ AnswererIdle.row = 0 /\ AnswererIdle.report = "none"
  BY DEF AnswererIdle, AnswererRow, Reports
<1>2. questions = << >> /\ stored = << >> /\ DOMAIN questions = {}
  BY DEF QuestionInit
<1>3. AnswerersSound
  BY <1>1 DEF QuestionInit, AnswerersSound
<1>4. QuestionsTyped
  BY DEF QuestionInit, QuestionsTyped
<1>5. OpenQuestions = {} /\ \A o \in Owners : OpenOf(o) = {} /\ RecentQuestions(o) = {}
  <2>1. OpenQuestions = {}
    BY <1>2 DEF OpenQuestions
  <2>2. ASSUME NEW o \in Owners
        PROVE  OpenOf(o) = {}
    BY <2>1 DEF OpenOf
  <2>3. ASSUME NEW o \in Owners
        PROVE  RecentQuestions(o) = {}
    BY <1>2 DEF RecentQuestions
  <2> QED
    BY <2>1, <2>2, <2>3
<1>6. Cardinality({}) = 0
  BY FS_EmptySet
<1>7. QuestionsExact
  <2>1. Cardinality(OpenQuestions) <= QUESTIONS_GLOBAL
    BY <1>5, <1>6, QuestionAssumption
  <2>2. ASSUME NEW o \in Owners
        PROVE  /\ Cardinality(OpenOf(o)) <= QUESTIONS_PER_OWNER
               /\ Cardinality(RecentQuestions(o)) <= RATE
    BY <1>5, <1>6, QuestionAssumption
  <2> QED
    BY <1>2, <2>1, <2>2 DEF QuestionsExact
<1> QED
  BY <1>3, <1>4, <1>7 DEF QuestionInv

\* Rows that go on, with their conversations as they are.
LEMMA GoingOnExact ==
  ASSUME QuestionInv, UNCHANGED stored,
         questions' \in Seq(QuestionRow), DOMAIN questions' = DOMAIN questions,
         \A n \in DOMAIN questions : GoesOn(questions[n], questions'[n])
  PROVE  QuestionsExact'
<1>1. QuestionsExact /\ QuestionsTyped
  BY DEF QuestionInv
<1>2. \A n, m \in DOMAIN questions' : n # m /\ questions'[n].owner = questions'[m].owner =>
        questions'[n].key # questions'[m].key /\ questions'[n].hash # questions'[m].hash
  BY <1>1 DEF QuestionsExact, GoesOn
<1>3. \A n \in DOMAIN questions' :
        stored'[n] = [user |-> 1,
                      assistant |-> IF questions'[n].status = "ANSWERED" THEN 1 ELSE 0]
  BY <1>1 DEF QuestionsExact, GoesOn
<1>4. /\ OpenQuestions' \subseteq OpenQuestions
      /\ \A o \in Owners : /\ OpenOf(o)' \subseteq OpenOf(o)
                           /\ RecentQuestions(o)' \subseteq RecentQuestions(o)
  BY DEF OpenQuestions, OpenOf, RecentQuestions, GoesOn
<1>5. Cardinality(OpenQuestions') <= QUESTIONS_GLOBAL
  BY <1>1, <1>4, QuestionsFinite, Fewer, QuestionAssumption DEF QuestionsExact
<1>6. ASSUME NEW o \in Owners
      PROVE  /\ Cardinality(OpenOf(o)') <= QUESTIONS_PER_OWNER
             /\ Cardinality(RecentQuestions(o)') <= RATE
  <2>1. /\ Cardinality(OpenOf(o)) <= QUESTIONS_PER_OWNER
        /\ Cardinality(RecentQuestions(o)) <= RATE
    BY <1>1 DEF QuestionsExact
  <2>2. IsFiniteSet(OpenOf(o)) /\ IsFiniteSet(RecentQuestions(o))
    BY <1>1, QuestionsFinite
  <2>3. QUESTIONS_PER_OWNER \in Nat /\ RATE \in Nat
    BY QuestionAssumption
  <2> QED
    BY <1>4, <2>1, <2>2, <2>3, Fewer
<1> QED
  BY <1>2, <1>3, <1>5, <1>6 DEF QuestionsExact

\* One worker moves on; rows are only added.
LEMMA AnswererMoves ==
  ASSUME QuestionInv, NEW w \in Answerers, NEW r \in AnswererRow,
         answerer' = [answerer EXCEPT ![w] = r],
         DOMAIN questions \subseteq DOMAIN questions',
         r.report # "none" => r.row # 0,
         r.row # 0 => r.row \in DOMAIN questions'
  PROVE  AnswerersSound'
<1>1. answerer' \in [Answerers -> AnswererRow]
  BY DEF QuestionInv, AnswerersSound
<1>2. ASSUME NEW v \in Answerers
      PROVE  /\ answerer'[v].report # "none" => answerer'[v].row # 0
             /\ answerer'[v].row # 0 => answerer'[v].row \in DOMAIN questions'
  <2>1. CASE v = w
    <3>1. answerer'[v] = r
      BY <2>1 DEF QuestionInv, AnswerersSound
    <3> QED
      BY <3>1
  <2>2. CASE v # w
    <3>1. answerer'[v] = answerer[v]
      BY <2>2 DEF QuestionInv, AnswerersSound
    <3> QED
      BY <3>1 DEF QuestionInv, AnswerersSound
  <2> QED
    BY <2>1, <2>2
<1> QED
  BY <1>1, <1>2 DEF AnswerersSound

LEMMA AnswerersRest ==
  ASSUME QuestionInv, answerer' = answerer, DOMAIN questions \subseteq DOMAIN questions'
  PROVE  AnswerersSound'
BY DEF QuestionInv, AnswerersSound

LEMMA AnswererRows ==
  /\ AnswererIdle \in AnswererRow /\ AnswererIdle.row = 0 /\ AnswererIdle.report = "none"
  /\ \A r \in AnswererRow : \A p \in Reports : LET k == [r EXCEPT !.report = p] IN
       k \in AnswererRow /\ k.report = p /\ k.row = r.row
  /\ \A r \in AnswererRow : \A n \in Nat, t \in Nat :
       LET k == [r EXCEPT !.row = n, !.token = t] IN
         k \in AnswererRow /\ k.report = r.report /\ k.row = n
<1>1. AnswererIdle \in AnswererRow /\ AnswererIdle.row = 0 /\ AnswererIdle.report = "none"
  BY DEF AnswererIdle, AnswererRow, Reports
<1>2. ASSUME NEW r \in AnswererRow, NEW p \in Reports
      PROVE  LET k == [r EXCEPT !.report = p] IN
               k \in AnswererRow /\ k.report = p /\ k.row = r.row
  BY DEF AnswererRow
<1>3. ASSUME NEW r \in AnswererRow, NEW n \in Nat, NEW t \in Nat
      PROVE  LET k == [r EXCEPT !.row = n, !.token = t] IN
               k \in AnswererRow /\ k.report = r.report /\ k.row = n
  BY DEF AnswererRow
<1> QED
  BY <1>1, <1>2, <1>3

\* Steps that store and answer nothing.
LEMMA QuestionsGoOn ==
  ASSUME QuestionInv, UNCHANGED stored, day' \in Nat, AnswerersSound',
         Onward(questions, questions', QuestionRow, Given)
  PROVE  QuestionInv'
<1>1. /\ questions' \in Seq(QuestionRow) /\ DOMAIN questions' = DOMAIN questions
      /\ \A n \in DOMAIN questions : GoesOn(questions[n], questions'[n])
  BY LaterGoesOn DEF Onward
<1>2. QuestionsExact'
  BY <1>1, GoingOnExact
<1>3. QuestionsTyped'
  BY <1>1 DEF QuestionInv, QuestionsTyped
<1> QED
  BY <1>2, <1>3 DEF QuestionInv
-----------------------------------------------------------------------------

\* The row of a question that is admitted.
Asked(o, key, text) ==
  [owner |-> o, key |-> key, hash |-> <<day, text>>, recent |-> TRUE, stale |-> FALSE,
   status |-> Queued.status, attempts |-> Queued.attempts, due |-> Queued.due,
   lapsed |-> Queued.lapsed]

\* Nothing changes.
LEMMA QuestionsIdle ==
  ASSUME QuestionInv, UNCHANGED questionVars
  PROVE  QuestionInv'
<1>1. questions' = questions /\ stored' = stored /\ answerer' = answerer /\ day' = day
  BY DEF questionVars
<1>2. QuestionsTyped'
  BY <1>1 DEF QuestionInv, QuestionsTyped
<1>3. AnswerersSound'
  BY <1>1 DEF QuestionInv, AnswerersSound
<1>4. OpenQuestions' = OpenQuestions
  BY <1>1 DEF OpenQuestions
<1>5. \A o \in Owners : OpenOf(o)' = OpenOf(o)
  BY <1>1, <1>4 DEF OpenOf
<1>6. \A o \in Owners : RecentQuestions(o)' = RecentQuestions(o)
  BY <1>1 DEF RecentQuestions
<1>7. QuestionsExact'
  BY <1>1, <1>4, <1>5, <1>6 DEF QuestionInv, QuestionsExact
<1> QED
  BY <1>2, <1>3, <1>7 DEF QuestionInv

LEMMA CreateQuestionKeeps ==
  ASSUME QuestionInv, NEW o \in Owners, NEW key \in Keys, NEW text \in Texts,
         CreateQuestion(o, key, text)
  PROVE  QuestionInv'
<1> DEFINE new == Asked(o, key, text)
           top == Len(questions) + 1
<1>1. /\ QuestionsTyped /\ QuestionsExact /\ AnswerersSound
      /\ questions \in Seq(QuestionRow) /\ day \in Nat
      /\ stored \in Seq([user : Nat, assistant : Nat]) /\ DOMAIN stored = DOMAIN questions
  BY DEF QuestionInv, QuestionsTyped
<1>2. UNCHANGED <<answerer, day>>
  BY DEF CreateQuestion
<1>3. CASE UNCHANGED <<questions, stored>>
  BY <1>2, <1>3, QuestionsIdle DEF questionVars
<1>4. CASE /\ Cardinality(OpenOf(o)) < QUESTIONS_PER_OWNER
           /\ Cardinality(OpenQuestions) < QUESTIONS_GLOBAL
           /\ Cardinality(RecentQuestions(o)) < RATE
           /\ {n \in DOMAIN questions : SameQuestion(n, o, key, text)} = {}
           /\ questions' = Append(questions, new)
           /\ stored' = Append(stored, [user |-> 1, assistant |-> 0])
  <2>1. /\ new \in QuestionRow
        /\ new.owner = o /\ new.key = key /\ new.hash = <<day, text>>
        /\ new.status = "PENDING"
    BY <1>1 DEF Asked, Queued, QuestionRow, QueueStatuses, Open
  <2> HIDE DEF new
  <2>2. /\ questions' \in Seq(QuestionRow) /\ DOMAIN questions' = 1..top
        /\ \A n \in DOMAIN questions : questions'[n] = questions[n]
        /\ questions'[top] = new /\ DOMAIN questions = 1..Len(questions)
        /\ Len(questions) \in Nat
    BY <1>1, <1>4, <2>1
  <2>3. Len(stored) = Len(questions)
    BY <1>1
  <2>4. /\ stored' \in Seq([user : Nat, assistant : Nat]) /\ DOMAIN stored' = 1..top
        /\ \A n \in DOMAIN stored : stored'[n] = stored[n]
        /\ stored'[top] = [user |-> 1, assistant |-> 0]
    BY <1>1, <1>4, <2>3
  <2> HIDE DEF top
  <2>5. DOMAIN questions' = DOMAIN questions \cup {top} /\ top \notin DOMAIN questions
    BY <2>2 DEF top
  <2>6. AnswerersSound'
    BY <1>2, <2>5, AnswerersRest
  <2>7. QuestionsTyped'
    BY <1>1, <1>2, <2>2, <2>4 DEF QuestionsTyped
  <2>8. ASSUME NEW n \in DOMAIN questions, questions[n].owner = o
        PROVE  questions[n].key # key /\ questions[n].hash # <<day, text>>
    BY <1>4, <2>8 DEF SameQuestion
  <2>9. \A n, m \in DOMAIN questions' : n # m /\ questions'[n].owner = questions'[m].owner =>
          questions'[n].key # questions'[m].key /\ questions'[n].hash # questions'[m].hash
    <3> SUFFICES ASSUME NEW n \in DOMAIN questions', NEW m \in DOMAIN questions', n # m,
                        questions'[n].owner = questions'[m].owner
                 PROVE  /\ questions'[n].key # questions'[m].key
                        /\ questions'[n].hash # questions'[m].hash
      OBVIOUS
    <3>1. CASE n = top
      <4>1. m \in DOMAIN questions /\ questions'[m] = questions[m] /\ questions'[n] = new
        BY <2>2, <2>5, <3>1
      <4> QED
        BY <2>1, <2>8, <4>1
    <3>2. CASE m = top
      <4>1. n \in DOMAIN questions /\ questions'[n] = questions[n] /\ questions'[m] = new
        BY <2>2, <2>5, <3>2
      <4> QED
        BY <2>1, <2>8, <4>1
    <3>3. CASE n # top /\ m # top
      <4>1. /\ n \in DOMAIN questions /\ questions'[n] = questions[n]
            /\ m \in DOMAIN questions /\ questions'[m] = questions[m]
        BY <2>2, <2>5, <3>3
      <4> QED
        BY <1>1, <4>1 DEF QuestionsExact
    <3> QED
      BY <3>1, <3>2, <3>3
  <2>10. ASSUME NEW n \in DOMAIN questions'
         PROVE  stored'[n] = [user |-> 1,
                  assistant |-> IF questions'[n].status = "ANSWERED" THEN 1 ELSE 0]
    <3>1. CASE n = top
      BY <2>1, <2>2, <2>4, <3>1
    <3>2. CASE n # top
      <4>1. n \in DOMAIN questions /\ questions'[n] = questions[n] /\ stored'[n] = stored[n]
        BY <1>1, <2>2, <2>4, <2>5, <3>2
      <4> QED
        BY <1>1, <4>1 DEF QuestionsExact
    <3> QED
      BY <3>1, <3>2
  <2>11. /\ OpenQuestions' \subseteq OpenQuestions \cup {top}
         /\ OpenOf(o)' \subseteq OpenOf(o) \cup {top}
         /\ RecentQuestions(o)' \subseteq RecentQuestions(o) \cup {top}
    BY <2>2, <2>5 DEF OpenQuestions, OpenOf, RecentQuestions
  <2>12. ASSUME NEW p \in Owners, p # o
         PROVE  /\ OpenOf(p)' \subseteq OpenOf(p)
                /\ RecentQuestions(p)' \subseteq RecentQuestions(p)
    BY <2>1, <2>2, <2>5, <2>12 DEF OpenQuestions, OpenOf, RecentQuestions
  <2>13. /\ IsFiniteSet(OpenQuestions)
         /\ \A p : IsFiniteSet(OpenOf(p)) /\ IsFiniteSet(RecentQuestions(p))
    BY <1>1, QuestionsFinite
  <2>14. Cardinality(OpenQuestions') <= QUESTIONS_GLOBAL
    BY <1>4, <2>11, <2>13, OneMore, QuestionAssumption
  <2>15. ASSUME NEW p \in Owners
         PROVE  /\ Cardinality(OpenOf(p)') <= QUESTIONS_PER_OWNER
                /\ Cardinality(RecentQuestions(p)') <= RATE
    <3>0. QUESTIONS_PER_OWNER \in Nat /\ RATE \in Nat
      BY QuestionAssumption
    <3>1. CASE p = o
      <4>1. Cardinality(OpenOf(o)') <= QUESTIONS_PER_OWNER
        BY <1>4, <2>11, <2>13, <3>0, OneMore
      <4>2. Cardinality(RecentQuestions(o)') <= RATE
        BY <1>4, <2>11, <2>13, <3>0, OneMore
      <4> QED
        BY <3>1, <4>1, <4>2
    <3>2. CASE p # o
      <4>1. /\ Cardinality(OpenOf(p)) <= QUESTIONS_PER_OWNER
            /\ Cardinality(RecentQuestions(p)) <= RATE
        BY <1>1 DEF QuestionsExact
      <4>2. IsFiniteSet(OpenOf(p)) /\ IsFiniteSet(RecentQuestions(p))
        BY <2>13
      <4> QED
        BY <2>12, <3>0, <3>2, <4>1, <4>2, Fewer
    <3> QED
      BY <3>1, <3>2
  <2> QED
    BY <2>6, <2>7, <2>9, <2>10, <2>14, <2>15 DEF QuestionInv, QuestionsExact
<1> QED
  BY <1>3, <1>4 DEF CreateQuestion, Asked
-----------------------------------------------------------------------------

\* A claim first expires what is past its time, whatever lease it is under.
LEMMA ExpiredRow ==
  ASSUME NEW j \in QuestionRow
  PROVE  ExpiredQuestion(j) \in QuestionRow /\ Later(j, ExpiredQuestion(j), Given)
<1>1. CASE j.status \in Open /\ j.stale
  <2>1. ExpiredQuestion(j) = Ended(j, "EXPIRED") /\ "EXPIRED" \in QueueStatuses
    BY <1>1 DEF ExpiredQuestion, Ended, QueueStatuses, Ends
  <2> QED
    BY <1>1, <2>1, QuestionRowSet, EndedRow, LaterRow
<1>2. CASE ~ (j.status \in Open /\ j.stale)
  <2>1. ExpiredQuestion(j) = Swept(j)
    BY <1>2 DEF ExpiredQuestion
  <2> QED
    BY <2>1, QuestionRowSet, SweptRow, LaterRow
<1> QED
  BY <1>1, <1>2

SweptQuestions == [n \in DOMAIN questions |-> ExpiredQuestion(questions[n])]

LEMMA ClaimQuestionKeeps ==
  ASSUME QuestionInv, NEW w \in Answerers, ClaimQuestion(w)
  PROVE  QuestionInv'
<1>1. /\ answerer[w] = AnswererIdle
      /\ \E n \in Oldest(SweptQuestions) \cup (IF Oldest(SweptQuestions) = {} THEN {0} ELSE {}) :
           /\ questions' = IF n = 0 THEN SweptQuestions
                           ELSE [SweptQuestions EXCEPT ![n] = Leased(@)]
           /\ answerer' = IF n = 0 THEN answerer
                          ELSE [answerer EXCEPT ![w].row = n,
                                                ![w].token = SweptQuestions[n].attempts + 1]
      /\ UNCHANGED <<stored, day>>
  BY DEF ClaimQuestion, SweptQuestions
<1>2. /\ questions \in Seq(QuestionRow) /\ day \in Nat
      /\ answerer \in [Answerers -> AnswererRow]
      /\ DOMAIN questions = 1..Len(questions) /\ Len(questions) \in Nat
  BY DEF QuestionInv, QuestionsTyped, AnswerersSound
<1>3. /\ SweptQuestions = [n \in DOMAIN questions |-> SweptQuestions[n]]
      /\ \A n \in DOMAIN questions :
           /\ SweptQuestions[n] \in QuestionRow
           /\ Later(questions[n], SweptQuestions[n], Given)
  <2>1. ASSUME NEW n \in DOMAIN questions
        PROVE  /\ SweptQuestions[n] \in QuestionRow
               /\ Later(questions[n], SweptQuestions[n], Given)
    <3>1. questions[n] \in QuestionRow /\ SweptQuestions[n] = ExpiredQuestion(questions[n])
      BY <1>2 DEF SweptQuestions
    <3> QED
      BY <3>1, ExpiredRow
  <2> QED
    BY <2>1 DEF SweptQuestions
<1>4. \A n \in Oldest(SweptQuestions) : /\ n \in DOMAIN questions /\ n # 0
                                        /\ SweptQuestions[n].status = "PENDING"
  BY <1>2, <1>3 DEF Oldest
<1>5. PICK n \in Oldest(SweptQuestions) \cup (IF Oldest(SweptQuestions) = {} THEN {0} ELSE {}) :
           /\ questions' = IF n = 0 THEN SweptQuestions
                           ELSE [SweptQuestions EXCEPT ![n] = Leased(@)]
           /\ answerer' = IF n = 0 THEN answerer
                          ELSE [answerer EXCEPT ![w].row = n,
                                                ![w].token = SweptQuestions[n].attempts + 1]
  BY <1>1
<1>6. \/ n = 0
      \/ n \in DOMAIN questions /\ n # 0 /\ SweptQuestions[n].status = "PENDING"
  BY <1>4
<1>7. Onward(questions, questions', QuestionRow, Given)
  <2>1. \/ questions' = SweptQuestions
        \/ \E m \in DOMAIN questions : /\ SweptQuestions[m].status = "PENDING"
                                       /\ questions' = [SweptQuestions EXCEPT ![m] = Leased(@)]
    BY <1>5, <1>6
  <2> DEFINE swept == SweptQuestions
             new == questions'
  <2>2. /\ swept = [m \in DOMAIN questions |-> swept[m]]
        /\ \A m \in DOMAIN questions :
             swept[m] \in QuestionRow /\ Later(questions[m], swept[m], Given)
        /\ \/ new = swept
           \/ \E m \in DOMAIN questions : /\ swept[m].status = "PENDING"
                                          /\ new = [swept EXCEPT ![m] = Leased(@)]
    BY <1>3, <2>1
  <2> HIDE DEF swept, new
  <2>3. Onward(questions, new, QuestionRow, Given)
    BY <1>2, <2>2, ClaimOnward, QuestionRowSet
  <2> QED
    BY <2>3 DEF new
<1>8. DOMAIN questions' = DOMAIN questions
  BY <1>7 DEF Onward
<1>9. AnswerersSound'
  <2>1. CASE n = 0
    BY <1>1, <1>5, <1>8, <2>1, AnswerersRest
  <2>2. CASE n # 0
    <3> DEFINE t == SweptQuestions[n].attempts + 1
               r == [answerer[w] EXCEPT !.row = n, !.token = t]
    <3>1. n \in DOMAIN questions /\ n \in Nat
      BY <1>2, <1>6, <2>2
    <3>2. t \in Nat
      BY <1>3, <3>1 DEF QuestionRow
    <3>3. answerer' = [answerer EXCEPT ![w] = r]
      BY <1>5, <2>2
    <3>4. answerer[w] \in AnswererRow /\ answerer[w].report = "none"
      BY <1>1, AnswererRows
    <3> HIDE DEF t
    <3>5. r \in AnswererRow /\ r.report = "none" /\ r.row = n
      BY <3>1, <3>2, <3>4 DEF AnswererRow
    <3> HIDE DEF r
    <3> QED
      BY <1>8, <2>2, <3>1, <3>3, <3>5, AnswererMoves
  <2> QED
    BY <2>1, <2>2
<1> QED
  BY <1>1, <1>2, <1>7, <1>9, QuestionsGoOn

LEMMA QuestionsRest ==
  ASSUME QuestionInv
  PROVE  Onward(questions, questions, QuestionRow, Given)
BY QuestionRowSet, RowsStay DEF QuestionInv, QuestionsTyped

\* A step of one worker that leaves the rows alone.
LEMMA AnswererOnly ==
  ASSUME QuestionInv, NEW w \in Answerers, NEW r \in AnswererRow,
         answerer' = [answerer EXCEPT ![w] = r], UNCHANGED <<questions, stored, day>>,
         r.report # "none" => r.row # 0,
         r.row # 0 => r.row \in DOMAIN questions
  PROVE  QuestionInv'
<1>1. AnswerersSound'
  BY AnswererMoves
<1>2. Onward(questions, questions', QuestionRow, Given) /\ day' \in Nat
  BY QuestionsRest DEF QuestionInv, QuestionsTyped
<1> QED
  BY <1>1, <1>2, QuestionsGoOn

LEMMA ReadQuestionKeeps ==
  ASSUME QuestionInv, NEW w \in Answerers, ReadQuestion(w)
  PROVE  QuestionInv'
<1>1. /\ answerer[w].row # 0 /\ answerer[w] \in AnswererRow
      /\ answerer[w].row \in DOMAIN questions
  BY DEF ReadQuestion, QuestionInv, AnswerersSound
<1>2. PICK p \in {"complete", "fail", "defer"} :
        answerer' = [answerer EXCEPT ![w] =
          IF \/ Held(questions[answerer[w].row], answerer[w].token)
             \/ p = "fail" /\ Kept(questions[answerer[w].row], answerer[w].token)
          THEN [answerer[w] EXCEPT !.report = p] ELSE AnswererIdle]
  BY DEF ReadQuestion
<1>3. UNCHANGED <<questions, stored, day>>
  BY DEF ReadQuestion
<1> DEFINE r == [answerer[w] EXCEPT !.report = p]
<1>4. answerer' = [answerer EXCEPT ![w] = r] \/ answerer' = [answerer EXCEPT ![w] = AnswererIdle]
  BY <1>2
<1>5. p \in Reports
  BY DEF Reports
<1>6. r \in AnswererRow /\ r.report = p /\ r.row = answerer[w].row
  BY <1>1, <1>5, AnswererRows
<1> HIDE DEF r
<1>7. CASE answerer' = [answerer EXCEPT ![w] = r]
  BY <1>1, <1>3, <1>6, <1>7, AnswererOnly
<1>8. CASE answerer' = [answerer EXCEPT ![w] = AnswererIdle]
  BY <1>3, <1>8, AnswererRows, AnswererOnly
<1> QED
  BY <1>4, <1>7, <1>8
-----------------------------------------------------------------------------

\* The row and the conversation of an answer change together, once.
LEMMA CompleteQuestionKeeps ==
  ASSUME QuestionInv, NEW w \in Answerers, CompleteQuestion(w)
  PROVE  QuestionInv'
<1> DEFINE n == answerer[w].row
<1>1. /\ answerer[w].report = "complete" /\ answerer' = [answerer EXCEPT ![w] = AnswererIdle]
      /\ UNCHANGED day
      /\ questions' = IF Kept(questions[n], answerer[w].token)
                      THEN [questions EXCEPT ![n] = Ended(questions[n], "ANSWERED")]
                      ELSE questions
      /\ stored' = IF Kept(questions[n], answerer[w].token)
                   THEN [stored EXCEPT ![n].assistant = @ + 1] ELSE stored
  BY DEF CompleteQuestion
<1>2. n \in DOMAIN questions
  BY <1>1 DEF QuestionInv, AnswerersSound
<1>3. /\ QuestionsTyped /\ QuestionsExact
      /\ questions \in Seq(QuestionRow) /\ day \in Nat
      /\ stored \in Seq([user : Nat, assistant : Nat]) /\ DOMAIN stored = DOMAIN questions
  BY DEF QuestionInv, QuestionsTyped
<1> HIDE DEF n
<1>4. CASE ~ Kept(questions[n], answerer[w].token)
  <2>1. UNCHANGED <<questions, stored, day>>
    BY <1>1, <1>4
  <2> QED
    BY <1>1, <2>1, AnswererRows, AnswererOnly
<1>5. CASE Kept(questions[n], answerer[w].token)
  <2> DEFINE r == Ended(questions[n], "ANSWERED")
             t == [stored[n] EXCEPT !.assistant = @ + 1]
  <2>1. questions[n] \in QuestionRow /\ questions[n].status = "PROCESSING"
    BY <1>2, <1>3, <1>5 DEF Kept
  <2>2. /\ r \in QuestionRow /\ Kin(questions[n], r, Given) /\ r.status = "ANSWERED"
    BY <2>1, QuestionRowSet, EndedRow DEF QueueStatuses, Ends
  <2>3. /\ r.owner = questions[n].owner /\ r.key = questions[n].key
        /\ r.hash = questions[n].hash /\ r.recent = questions[n].recent
    BY <2>2 DEF Kin, Given
  <2>4. stored[n] = [user |-> 1, assistant |-> 0]
    BY <1>2, <1>3, <2>1 DEF QuestionsExact
  <2>5. t = [user |-> 1, assistant |-> 1] /\ t \in [user : Nat, assistant : Nat]
    BY <2>4
  <2>6. questions' = [questions EXCEPT ![n] = r] /\ stored' = [stored EXCEPT ![n] = t]
    BY <1>1, <1>5
  <2> HIDE DEF r, t
  <2>7. /\ questions' \in Seq(QuestionRow) /\ DOMAIN questions' = DOMAIN questions
        /\ questions'[n] = r
        /\ \A m \in DOMAIN questions \ {n} : questions'[m] = questions[m]
    BY <1>2, <1>3, <2>2, <2>6
  <2>8. /\ stored' \in Seq([user : Nat, assistant : Nat]) /\ DOMAIN stored' = DOMAIN stored
        /\ stored'[n] = t
        /\ \A m \in DOMAIN stored \ {n} : stored'[m] = stored[m]
    BY <1>2, <1>3, <2>5, <2>6
  <2>9. AnswerersSound'
    BY <1>1, <2>7, AnswererRows, AnswererMoves
  <2>10. QuestionsTyped'
    BY <1>1, <1>3, <2>7, <2>8 DEF QuestionsTyped
  <2>11. \A m \in DOMAIN questions :
           /\ questions'[m].owner = questions[m].owner /\ questions'[m].key = questions[m].key
           /\ questions'[m].hash = questions[m].hash
           /\ questions'[m].recent = questions[m].recent
           /\ questions'[m].status \in Open => questions[m].status \in Open
    BY <2>2, <2>3, <2>7 DEF Open
  <2>12. \A a, b \in DOMAIN questions' :
           a # b /\ questions'[a].owner = questions'[b].owner =>
             questions'[a].key # questions'[b].key /\ questions'[a].hash # questions'[b].hash
    BY <1>3, <2>7, <2>11 DEF QuestionsExact
  <2>13. ASSUME NEW m \in DOMAIN questions'
         PROVE  stored'[m] = [user |-> 1,
                  assistant |-> IF questions'[m].status = "ANSWERED" THEN 1 ELSE 0]
    <3>1. CASE m = n
      BY <2>2, <2>5, <2>7, <2>8, <3>1
    <3>2. CASE m # n
      <4>1. m \in DOMAIN questions /\ questions'[m] = questions[m] /\ stored'[m] = stored[m]
        BY <1>3, <2>7, <2>8, <3>2
      <4> QED
        BY <1>3, <4>1 DEF QuestionsExact
    <3> QED
      BY <3>1, <3>2
  <2>14. /\ OpenQuestions' \subseteq OpenQuestions
         /\ \A o \in Owners : /\ OpenOf(o)' \subseteq OpenOf(o)
                              /\ RecentQuestions(o)' \subseteq RecentQuestions(o)
    BY <2>7, <2>11 DEF OpenQuestions, OpenOf, RecentQuestions
  <2>15. Cardinality(OpenQuestions') <= QUESTIONS_GLOBAL
    BY <1>3, <2>14, QuestionsFinite, Fewer, QuestionAssumption DEF QuestionsExact
  <2>16. ASSUME NEW o \in Owners
         PROVE  /\ Cardinality(OpenOf(o)') <= QUESTIONS_PER_OWNER
                /\ Cardinality(RecentQuestions(o)') <= RATE
    <3>1. /\ Cardinality(OpenOf(o)) <= QUESTIONS_PER_OWNER
          /\ Cardinality(RecentQuestions(o)) <= RATE
      BY <1>3 DEF QuestionsExact
    <3>2. IsFiniteSet(OpenOf(o)) /\ IsFiniteSet(RecentQuestions(o))
      BY <1>3, QuestionsFinite
    <3>3. QUESTIONS_PER_OWNER \in Nat /\ RATE \in Nat
      BY QuestionAssumption
    <3> QED
      BY <2>14, <3>1, <3>2, <3>3, Fewer
  <2> QED
    BY <2>9, <2>10, <2>12, <2>13, <2>15, <2>16 DEF QuestionInv, QuestionsExact
<1> QED
  BY <1>4, <1>5

LEMMA ReturnQuestionKeeps ==
  ASSUME QuestionInv, NEW w \in Answerers, NEW report \in Reports, ReturnQuestion(w, report),
         report # "none"
  PROVE  QuestionInv'
<1> DEFINE n == answerer[w].row
<1>1. /\ answerer[w].report = report /\ answerer' = [answerer EXCEPT ![w] = AnswererIdle]
      /\ UNCHANGED <<stored, day>>
      /\ questions' = IF ~ Kept(questions[n], answerer[w].token) THEN questions
                      ELSE [questions EXCEPT ![n] =
                        IF questions[n].stale THEN Ended(questions[n], "EXPIRED")
                        ELSE Returned(questions[n])]
  BY DEF ReturnQuestion
<1>2. n \in DOMAIN questions /\ questions \in Seq(QuestionRow) /\ day \in Nat
  BY <1>1 DEF QuestionInv, AnswerersSound, QuestionsTyped
<1> HIDE DEF n
<1>3. Onward(questions, questions', QuestionRow, Given)
  <2>1. CASE ~ Kept(questions[n], answerer[w].token)
    <3>1. questions' = questions
      BY <1>1, <2>1
    <3> QED
      BY <3>1, QuestionsRest
  <2>2. CASE Kept(questions[n], answerer[w].token)
    <3> DEFINE r == IF questions[n].stale THEN Ended(questions[n], "EXPIRED")
                    ELSE Returned(questions[n])
    <3>1. questions[n] \in QuestionRow /\ questions[n].status = "PROCESSING"
      BY <1>2, <2>2 DEF Kept
    <3>2. /\ Ended(questions[n], "EXPIRED") \in QuestionRow
          /\ Later(questions[n], Ended(questions[n], "EXPIRED"), Given)
      BY <3>1, QuestionRowSet, EndedRow, LaterRow DEF QueueStatuses, Ends, Open
    <3>3. /\ Returned(questions[n]) \in QuestionRow
          /\ Later(questions[n], Returned(questions[n]), Given)
      BY <3>1, QuestionRowSet, ReturnedRow, LaterRow
    <3>4. r \in QuestionRow /\ Later(questions[n], r, Given)
      BY <3>2, <3>3
    <3>5. questions' = [questions EXCEPT ![n] = r]
      BY <1>1, <2>2
    <3> HIDE DEF r
    <3> QED
      BY <1>2, <3>4, <3>5, QuestionRowSet, OneOnward
  <2> QED
    BY <2>1, <2>2
<1>4. AnswerersSound'
  <2>1. DOMAIN questions' = DOMAIN questions
    BY <1>3 DEF Onward
  <2> QED
    BY <1>1, <2>1, AnswererRows, AnswererMoves
<1> QED
  BY <1>1, <1>2, <1>3, <1>4, QuestionsGoOn

LEMMA QuestionAgeKeeps ==
  ASSUME QuestionInv, QuestionAge
  PROVE  QuestionInv'
<1>1. UNCHANGED <<stored, answerer>>
  BY DEF QuestionAge
<1>2. questions \in Seq(QuestionRow) /\ day \in Nat /\ QuestionsTyped
  BY DEF QuestionInv, QuestionsTyped
<1>3. CASE day' = day + 1 /\ UNCHANGED questions
  <2>1. AnswerersSound' /\ day' \in Nat
    BY <1>1, <1>2, <1>3, AnswerersRest
  <2> QED
    BY <1>1, <1>3, <2>1, QuestionsRest, QuestionsGoOn
<1>4. ASSUME NEW n \in DOMAIN questions, UNCHANGED day,
             questions' \in {[questions EXCEPT ![n] = Aged(@)],
                             [questions EXCEPT ![n].recent = FALSE],
                             [questions EXCEPT ![n].stale = TRUE]}
      PROVE  QuestionInv'
  <2>1. questions[n] \in QuestionRow
    BY <1>2
  <2>2. PICK r \in {Aged(questions[n]), [questions[n] EXCEPT !.recent = FALSE],
                    [questions[n] EXCEPT !.stale = TRUE]} :
          questions' = [questions EXCEPT ![n] = r]
    BY <1>4
  <2>3. r \in QuestionRow /\ GoesOn(questions[n], r)
    <3>1. Aged(questions[n]) \in QuestionRow /\ GoesOn(questions[n], Aged(questions[n]))
      BY <2>1, QuestionRowSet, AgedRow, LaterRow, LaterGoesOn
    <3>2. /\ [questions[n] EXCEPT !.recent = FALSE] \in QuestionRow
          /\ GoesOn(questions[n], [questions[n] EXCEPT !.recent = FALSE])
      BY <2>1 DEF QuestionRow, GoesOn
    <3>3. /\ [questions[n] EXCEPT !.stale = TRUE] \in QuestionRow
          /\ GoesOn(questions[n], [questions[n] EXCEPT !.stale = TRUE])
      BY <2>1 DEF QuestionRow, GoesOn
    <3> QED
      BY <3>1, <3>2, <3>3
  <2>4. /\ questions' \in Seq(QuestionRow) /\ DOMAIN questions' = DOMAIN questions
        /\ questions'[n] = r
        /\ \A m \in DOMAIN questions \ {n} : questions'[m] = questions[m]
    BY <1>2, <2>2, <2>3
  <2>5. \A m \in DOMAIN questions : GoesOn(questions[m], questions'[m])
    BY <2>3, <2>4 DEF GoesOn
  <2>6. QuestionsExact'
    BY <1>1, <2>4, <2>5, GoingOnExact
  <2>7. AnswerersSound'
    BY <1>1, <2>4, AnswerersRest
  <2>8. QuestionsTyped'
    BY <1>1, <1>2, <1>4, <2>4 DEF QuestionsTyped
  <2> QED
    BY <2>6, <2>7, <2>8 DEF QuestionInv
<1> QED
  BY <1>3, <1>4 DEF QuestionAge

LEMMA QuestionStep ==
  ASSUME QuestionInv, [QuestionNext]_questionVars
  PROVE  QuestionInv'
<1>1. CASE UNCHANGED questionVars
  BY <1>1, QuestionsIdle
<1>2. ASSUME NEW o \in Owners, NEW key \in Keys, NEW text \in Texts,
             CreateQuestion(o, key, text)
      PROVE  QuestionInv'
  BY <1>2, CreateQuestionKeeps
<1>3. ASSUME NEW w \in Answerers, ClaimQuestion(w)
      PROVE  QuestionInv'
  BY <1>3, ClaimQuestionKeeps
<1>4. ASSUME NEW w \in Answerers, ReadQuestion(w)
      PROVE  QuestionInv'
  BY <1>4, ReadQuestionKeeps
<1>5. ASSUME NEW w \in Answerers, CompleteQuestion(w)
      PROVE  QuestionInv'
  BY <1>5, CompleteQuestionKeeps
<1>6. ASSUME NEW w \in Answerers, FailQuestion(w) \/ DeferQuestion(w)
      PROVE  QuestionInv'
  <2>1. "fail" \in Reports /\ "defer" \in Reports
    BY DEF Reports
  <2> QED
    BY <1>6, <2>1, ReturnQuestionKeeps DEF FailQuestion, DeferQuestion
<1>7. ASSUME NEW w \in Answerers, AnswererCrash(w)
      PROVE  QuestionInv'
  BY <1>7, AnswererRows, AnswererOnly DEF AnswererCrash
<1>8. CASE QuestionAge
  BY <1>8, QuestionAgeKeeps
<1> QED
  BY <1>1, <1>2, <1>3, <1>4, <1>5, <1>6, <1>7, <1>8 DEF QuestionNext

\* A question is admitted once for its key and its day and text, its conversation
\* has an answer exactly if its row is answered, and the limits of admission hold,
\* whatever leases lapse and reports come late (news-questions.ts).
THEOREM QuestionsAreExact == QuestionSpec => []QuestionsExact
<1>1. QuestionInv => QuestionsExact
  BY DEF QuestionInv
<1> QED
  BY <1>1, QuestionsStart, QuestionStep, PTL DEF QuestionSpec
=============================================================================
