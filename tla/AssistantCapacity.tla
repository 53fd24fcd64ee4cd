------------------------- MODULE AssistantCapacity -------------------------
(*****************************************************************************)
(* The assistant's capacity router (xauusd_news/assistant/capacity.py):      *)
(* workers look for a credential pool and a model with headroom, reserve a   *)
(* request, its tokens and a call in flight in one transaction, confirm the  *)
(* exact tokens at the gateway and file the outcome.  The request table is   *)
(* shared with the news lanes, which admit against the provider's limits     *)
(* (ProviderAdmission); the router keeps below a share of them.              *)
(*                                                                           *)
(* The usage row and the reservation of a request are inserted and grown     *)
(* together and are one row here; a row of the news lanes has state NEWS.    *)
(* Which of its ends a reservation came to is read by nothing, so it is      *)
(* ENDED.  Day and minute buckets are DAY and MINUTE ticks long.             *)
(*****************************************************************************)
EXTENDS Integers, Sequences, FiniteSets, SequencesExt, FiniteSetsExt

CONSTANTS
  RouteWorkers,      \* worker threads that route provider calls
  Pools,        \* credential pools (accounts) with their type and keys
  PoolType,     \* [Pools -> {"PREEMPTIBLE", "ROUTINE"}]
  PoolKeys,     \* [Pools -> 1..MAX_CREDENTIALS_PER_POOL]: keys of a pool
  PoolRank,     \* [Pools -> Nat]: their order in the configuration
  PlanModels,         \* the turn's candidate models, best first
  Templates,    \* ASSISTANT_CAPACITY_POLICIES: a set of policy records
  Registry,     \* the registered quota surfaces: a set of policy records
  Services,     \* service priorities the workers ask with
  Estimates, Actuals,      \* estimated and exact input tokens
  MINUTE, DAY, MAX_ROUTE_ATTEMPTS, SCALE,
  MaxTime, MaxRows, MaxNews, MaxCrashes

VARIABLES now, rows, health, route, crashes

capacityVars == <<now, rows, health, route, crashes>>

Policies == Templates \cup Registry
ASSUME CapacityAssumption ==
  /\ IsFiniteSet(Pools) /\ PlanModels \in Seq(Range(PlanModels)) /\ PoolKeys \in [Pools -> Nat]
  /\ \A t \in Policies : /\ {t.rpd, t.rpm, t.soft, t.inFlight, t.ttl} \subseteq Nat /\ t.ttl > 0
  /\ MINUTE \in Nat

AnyPool == "*"
Pairs == Pools \X Range(PlanModels)
-----------------------------------------------------------------------------
(* Policies: templates for every pool or for one, or the registry's limits. *)

\* The operational boundary's checks of the template list.
Valid(ts) ==
  /\ \A t \in ts : /\ t.pool \in Pools \cup {AnyPool} /\ t.model \in Range(PlanModels)
                   /\ t.model \in t.shared
                   /\ t.rpd > 0 /\ t.rpm > 0 /\ t.tpm > 0
                   /\ t.soft \in 1..10000 /\ t.inFlight > 0 /\ t.ttl > 0
                   /\ t.cooldown > 0 /\ t.threshold > 0
  /\ \A t, u \in ts : t.pool = u.pool /\ t.model = u.model => t = u

\* An exact template wins over one for every pool; without any templates the
\* registry's limits hold, and a model without a surface has no policy.
PoliciesFor(p, m) ==
  LET of(ts, q) == {t \in ts : t.model = m /\ t.pool = q}
  IN IF Templates = {} THEN of(Registry, AnyPool)
     ELSE IF of(Templates, p) # {} THEN of(Templates, p) ELSE of(Templates, AnyPool)
HasPolicy(p, m) == \E t \in PoliciesFor(p, m) : t.enabled
Policy(p, m) == CHOOSE t \in PoliciesFor(p, m) : TRUE

Soft(limit, policy) == (limit * policy.soft) \div 10000
Eligible(service) ==
  {p \in Pools : service = "INTERACTIVE" \/ PoolType[p] = "ROUTINE"}
-----------------------------------------------------------------------------
(* Usage and headroom. *)

Bucket(t) == t - (t % MINUTE)
TokensOf(ids) == MapThenSumSet(LAMBDA i : rows[i].tokens, ids)

\* The rows of the pool's shared models, in the day or the minute that ends at t.
Shared(p, m) ==
  {i \in DOMAIN rows : rows[i].pool = p /\ rows[i].model \in Policy(p, m).shared}
OfDay(p, m, t) == {i \in Shared(p, m) : rows[i].at \div DAY = t \div DAY}
Rolling(p, m, t) == {i \in Shared(p, m) : rows[i].at > t - MINUTE /\ rows[i].at <= t}
InFlight(p, m, t) ==
  {i \in DOMAIN rows : /\ rows[i].pool = p /\ rows[i].model = m
                       /\ rows[i].state = "IN_FLIGHT" /\ rows[i].expires > t}

Spent(p, m, estimate, t) ==
  <<Cardinality(OfDay(p, m, t)), Cardinality(Rolling(p, m, t)),
    TokensOf(Rolling(p, m, t)) + estimate, Cardinality(InFlight(p, m, t))>>
\* What the pair would have used with this request, and what it may.
Projected(p, m, estimate, t) ==
  <<Cardinality(OfDay(p, m, t)) + 1, Cardinality(Rolling(p, m, t)) + 1,
    TokensOf(Rolling(p, m, t)) + estimate, Cardinality(InFlight(p, m, t)) + 1>>
Limits(p, m) ==
  LET c == Policy(p, m)
  IN <<Soft(c.rpd, c), Soft(c.rpm, c), Soft(c.tpm, c), c.inFlight>>

Cooling(p, m, t) == health[<<p, m>>].state = "COOLDOWN" /\ health[<<p, m>>].until > t
Available(p, m, estimate, t) ==
  /\ ~Cooling(p, m, t)
  /\ \A d \in 1..4 : /\ Limits(p, m)[d] > 0
                     /\ Projected(p, m, estimate, t)[d] <= Limits(p, m)[d]

\* The least free share of any limit, halved for a degraded pair.
Score(p, m, estimate, t) ==
  LET limits == Limits(p, m)
      used == Projected(p, m, estimate, t)
      free(d) == ((limits[d] - used[d]) * SCALE) \div limits[d]
      least == Min({free(d) : d \in 1..4})
  IN IF health[<<p, m>>].state = "DEGRADED" THEN least ELSE 2 * least
\* Most headroom first, then the assistant's own pools, then configuration order.
Order(m, estimate, t, p, q) ==
  LET key(x) == <<-Score(x, m, estimate, t),
                  IF PoolType[x] = "PREEMPTIBLE" THEN 0 ELSE 1, PoolRank[x]>>
      a == key(p)
      b == key(q)
  IN \E d \in 1..3 : a[d] < b[d] /\ \A e \in 1..(d - 1) : a[e] = b[e]
-----------------------------------------------------------------------------
(* Routes. *)

Unrouted == [step |-> "idle"]
CapacityInit ==
  /\ now = 0
  /\ rows = <<>>
  /\ health = [pair \in Pairs |-> [state |-> "HEALTHY", failures |-> 0, until |-> 0]]
  /\ route = [w \in RouteWorkers |-> Unrouted]
  /\ crashes = 0

\* A turn's call: without a candidate pair the route fails before it begins.
BeginRoute(w) ==
  /\ route[w].step = "idle" /\ Valid(Templates) /\ Len(rows) < MaxRows
  /\ \E s \in Services, e \in Estimates :
       /\ \E p \in Eligible(s), m \in Range(PlanModels) : HasPolicy(p, m)
       /\ route' = [route EXCEPT ![w] =
            [step |-> "choose", service |-> s, estimate |-> e, since |-> now,
             model |-> 1, pools |-> <<>>, key |-> 1, attempts |-> 0, id |-> 0]]
  /\ UNCHANGED <<now, rows, health, crashes>>

\* The next model's pools with headroom when the route began, best first.  A
\* model without any leaves the turn to the next one, and none ends the route.
Usable(r, m) ==
  {p \in Eligible(r.service) : HasPolicy(p, m) /\ Available(p, m, r.estimate, r.since)}
BestFirst(r, m) ==
  {s \in SetToSeqs(Usable(r, m)) :
     \A i, k \in DOMAIN s : i < k => Order(m, r.estimate, r.since, s[i], s[k])}
Choose(w) ==
  LET r == route[w]
      m == PlanModels[r.model]
      go(next) == route' = [route EXCEPT ![w] = next]
  IN /\ r.step = "choose"
     /\ \/ r.model > Len(PlanModels) /\ go(Unrouted)
        \/ /\ r.model <= Len(PlanModels) /\ Usable(r, m) = {}
           /\ go([r EXCEPT !.model = @ + 1])
        \/ /\ r.model <= Len(PlanModels) /\ Usable(r, m) # {}
           /\ \E s \in BestFirst(r, m) : go([r EXCEPT !.step = "try", !.key = 1, !.pools = s])
     /\ UNCHANGED <<now, rows, health, crashes>>

NextPool(r) ==
  IF Len(r.pools) > 1 THEN [r EXCEPT !.step = "try", !.pools = Tail(@), !.key = 1]
  ELSE [r EXCEPT !.step = "choose", !.model = @ + 1, !.pools = <<>>]
NextKey(r) ==
  IF r.key < PoolKeys[Head(r.pools)] THEN [r EXCEPT !.step = "try", !.key = @ + 1]
  ELSE NextPool(r)

\* The worker's chat lease cannot be renewed: the route is left unreserved.
Lose(w) ==
  /\ route[w].step = "try"
  /\ route' = [route EXCEPT ![w] = Unrouted]
  /\ UNCHANGED <<now, rows, health, crashes>>

\* One transaction: expired calls are abandoned and the pair is measured again.
\* A refusal rolls the abandonment back and turns to the next pool.
Reserve(w) ==
  LET r == route[w]
      m == PlanModels[r.model]
      p == Head(r.pools)
      kept == [i \in DOMAIN rows |->
                 IF rows[i].state = "IN_FLIGHT" /\ rows[i].expires <= now
                 THEN [rows[i] EXCEPT !.state = "ENDED"] ELSE rows[i]]
  IN /\ r.step = "try" /\ Len(rows) < MaxRows
     /\ IF r.attempts < MAX_ROUTE_ATTEMPTS /\ Available(p, m, r.estimate, now)
        THEN /\ rows' = Append(kept, [pool |-> p, model |-> m, at |-> now,
                                      tokens |-> r.estimate, state |-> "IN_FLIGHT",
                                      expires |-> now + Policy(p, m).ttl])
             /\ route' = [route EXCEPT ![w].step = "call", ![w].id = Len(rows) + 1,
                                       ![w].attempts = @ + 1]
        ELSE /\ rows' = rows
             /\ route' = [route EXCEPT ![w] = NextPool(r)]
     /\ UNCHANGED <<now, health, crashes>>

\* The gateway knows the exact tokens.  Growth is checked against the minute
\* that ends at the start of the reservation's calendar minute.
Grows(p, m, id, actual) ==
  /\ rows[id].state = "IN_FLIGHT"
  /\ TokensOf(Rolling(p, m, Bucket(rows[id].at))) + actual - rows[id].tokens
       <= Soft(Policy(p, m).tpm, Policy(p, m))
Confirm(w) ==
  LET r == route[w]
  IN /\ r.step = "call"
     /\ \E actual \in Actuals :
          IF actual <= r.estimate
          THEN rows' = rows /\ route' = [route EXCEPT ![w].step = "sent"]
          ELSE IF Grows(Head(r.pools), PlanModels[r.model], r.id, actual)
          THEN /\ rows' = [rows EXCEPT ![r.id].tokens = actual]
               /\ route' = [route EXCEPT ![w].step = "sent"]
          ELSE rows' = rows /\ route' = [route EXCEPT ![w].step = "refused"]
     /\ UNCHANGED <<now, health, crashes>>
-----------------------------------------------------------------------------
(* Outcomes.  A reservation that was abandoned keeps its state, and its late *)
(* outcome changes the pair's health no more.                                *)

Concluded(id) ==
  IF rows[id].state = "IN_FLIGHT" THEN [rows EXCEPT ![id].state = "ENDED"] ELSE rows

MarkSuccess(pair) == [health EXCEPT ![pair] = [state |-> "HEALTHY", failures |-> 0, until |-> 0]]
\* A throttle cools the pair down at once, an outage from the threshold on;
\* failures are counted up to it.
MarkFailure(pair, kind) ==
  LET c == Policy(pair[1], pair[2])
      n == Min({health[pair].failures + 1, c.threshold})
      cools == kind = "THROTTLED" \/ (kind = "OUTAGE" /\ n = c.threshold)
  IN [health EXCEPT ![pair] =
        [state |-> IF cools THEN "COOLDOWN" ELSE "DEGRADED", failures |-> n,
         until |-> IF cools THEN now + c.cooldown ELSE 0]]

\* _finish_reservation with the route's next step.
FinishReservation(w, effect, next) ==
  LET r == route[w]
  IN /\ rows' = Concluded(r.id)
     /\ health' = IF rows[r.id].state = "IN_FLIGHT" THEN effect ELSE health
     /\ route' = [route EXCEPT ![w] = next]
     /\ UNCHANGED <<now, crashes>>

Outcome(w) ==
  LET r == route[w]
      pair == <<Head(r.pools), PlanModels[r.model]>>
  IN /\ r.step = "sent"
     /\ \/ FinishReservation(w, MarkSuccess(pair), Unrouted)
        \/ FinishReservation(w, MarkFailure(pair, "THROTTLED"), NextPool(r))
        \/ FinishReservation(w, MarkFailure(pair, "OUTAGE"), NextPool(r))
        \/ FinishReservation(w, MarkFailure(pair, "AUTH"), NextKey(r))
        \/ FinishReservation(w, health, Unrouted)

\* The exact request did not fit: the route turns to the next pool.
RefusedCall(w) ==
  /\ route[w].step = "refused"
  /\ FinishReservation(w, health, NextPool(route[w]))

\* The worker stops; what it reserved stays in the table.
Crash(w) ==
  /\ route[w].step # "idle" /\ crashes < MaxCrashes
  /\ route' = [route EXCEPT ![w] = Unrouted] /\ crashes' = crashes + 1
  /\ UNCHANGED <<now, rows, health>>

\* A news lane's request to the same account, within the provider's limits.
News ==
  /\ Len(rows) < MaxRows
  /\ Cardinality({i \in DOMAIN rows : rows[i].state = "NEWS"}) < MaxNews
  /\ \E p \in Pools, m \in Range(PlanModels) :
       /\ HasPolicy(p, m)
       /\ Cardinality(Rolling(p, m, now)) < Policy(p, m).rpm
       /\ rows' = Append(rows, [pool |-> p, model |-> m, at |-> now, tokens |-> 1,
                                state |-> "NEWS", expires |-> 0])
  /\ UNCHANGED <<now, health, route, crashes>>

\* A call ends before its reservation does (timeouts of the gateways).
Calling(w) == route[w].step \in {"call", "sent", "refused"}
CapacityTick ==
  /\ now < MaxTime
  /\ \A w \in RouteWorkers : Calling(w) => rows[route[w].id].expires > now + 1
  /\ now' = now + 1
  /\ UNCHANGED <<rows, health, route, crashes>>

CapacityNext ==
  \/ \E w \in RouteWorkers : \/ BeginRoute(w) \/ Choose(w) \/ Lose(w) \/ Reserve(w)
                        \/ Confirm(w) \/ Outcome(w) \/ RefusedCall(w) \/ Crash(w)
  \/ News \/ CapacityTick
CapacitySpec == CapacityInit /\ [][CapacityNext]_capacityVars
-----------------------------------------------------------------------------
\* The tables keep their shape, and a route's reservation is its own.
CapacityTypeOK ==
  /\ \A i \in DOMAIN rows :
       rows[i].state \in {"NEWS", "IN_FLIGHT", "ENDED"}
  /\ \A v, w \in RouteWorkers : Calling(v) /\ Calling(w) /\ v # w => route[v].id # route[w].id

\* Whatever workers and news lanes do between a route's look and its turn, a
\* request is admitted only below the soft share of the pool's models in its
\* minute and its day.
WithinSoft ==
  \A i \in DOMAIN rows :
    rows[i].state # "NEWS" =>
      LET p == rows[i].pool
          m == rows[i].model
          before == {j \in Shared(p, m) : j <= i}
      IN /\ Cardinality({j \in before : rows[j].at > rows[i].at - MINUTE}) <= Limits(p, m)[2]
         /\ Cardinality({j \in before : rows[j].at \div DAY = rows[i].at \div DAY})
              <= Limits(p, m)[1]
\* Not the reservations, the calls: no more are under way at a pair than its
\* policy allows, though workers stop and reservations lapse.
BoundedCalls ==
  \A pair \in Pairs : HasPolicy(pair[1], pair[2]) =>
    Cardinality({w \in RouteWorkers : Calling(w) /\ <<Head(route[w].pools), PlanModels[route[w].model]>> = pair})
      <= Policy(pair[1], pair[2]).inFlight
\* "It MUST protect soft capacity before relying on a provider 429": requests
\* and calls of the assistant leave the headroom of every pair.
HeadroomKept == WithinSoft /\ BoundedCalls

\* The same of the tokens, once each request's exact count is known.
ExactWithinSoft ==
  \A i \in DOMAIN rows :
    LET p == rows[i].pool
        m == rows[i].model
    IN TokensOf(Rolling(p, m, rows[i].at)) <= Limits(p, m)[3]
=============================================================================
