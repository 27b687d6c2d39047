---- MODULE Gateway ----
(***************************************************************************)
(* The /mcp route of the HTTP server (internal/httpserver/server.go): the  *)
(* chain of middleware that newHandler builds, from observeRequests to the *)
(* MCP handler and back out through the deferred functions.                *)
(*                                                                         *)
(*   observeRequests > mux > allowCORS > CrossOriginProtection >           *)
(*   requireExactOrigin > limitConcurrent > oauthProtection > protectMCP > *)
(*   limitRatePerPrincipal > limitConcurrentPerPrincipal > MCP handler     *)
(*                                                                         *)
(* Every request runs in a goroutine of its own; the steps of different    *)
(* requests interleave between any two of its accesses to shared state.    *)
(* The rate limiter is the component RateLimiter, embedded step by step.   *)
(* A request for /metrics reads the counters while the others go on.       *)
(***************************************************************************)
EXTENDS Integers, FiniteSets

CONSTANTS
    Requests, Principals, Nobody,
    MaxConcurrent,   \* MAX_CONCURRENT_REQUESTS
    PerPrincipal,    \* MAX_CONCURRENT_PER_PRINCIPAL
    Scrapers,        \* the requests for /metrics, none without METRICS_ENABLED
    OAuth,           \* AUTH_MODE = oauth
    RateEnabled,     \* MAX_REQUESTS_PER_MINUTE > 0
    Limit, MaxTracked, Window, TicksPerSecond, Free, MaxStale, MaxClock

ASSUME GatewayAssumption ==
    /\ IsFiniteSet(Requests) /\ Scrapers \subseteq Requests
    /\ MaxConcurrent \in Nat \ {0}
    /\ PerPrincipal \in 1 .. MaxConcurrent
    /\ OAuth \in BOOLEAN
    /\ RateEnabled \in BOOLEAN
    /\ Nobody \notin Principals

\* What the rate limiter asks of its constants.
ASSUME LimiterAssumption ==
    /\ Limit \in Nat \ {0} /\ MaxTracked \in Nat \ {0}
    /\ Window \in Nat \ {0} /\ TicksPerSecond \in Nat \ {0}
    /\ MaxClock \in Nat /\ MaxStale \in 0 .. Window - 1
    /\ Free \notin Requests

VARIABLES
    stage,              \* where the request is in the chain
    caller,             \* the principal it was authenticated as
    answer,             \* the kind of response it gets
    slots,              \* occupied places of limitConcurrent's channel
    inflight,           \* limitConcurrentPerPrincipal's map
    httpRequests, httpInflight, httpRejected, httpPrincipalRejected,
    loaded, page,       \* counters a scrape has loaded, and what they were
    settled,            \* history: requests done when the scrape began
    clock, windows, mutex, pc, principal, now, retryAfter, rateRejected,
    admittedAt, decidedBy, lastReset

scrapeVars == <<loaded, page, settled>>
stats == <<httpRequests, httpInflight, httpRejected, httpPrincipalRejected,
           scrapeVars>>
gatewayVars == <<stage, caller, answer, slots, inflight, stats>>
limiterVars == <<clock, windows, mutex, pc, principal, now, retryAfter,
                 rateRejected, admittedAt, decidedBy, lastReset>>
vars == <<gatewayVars, limiterVars>>

Limiter == INSTANCE RateLimiter

Stages == {"new", "counted", "observed", "scraping", "arriving", "authenticating",
           "protecting", "rating", "entering", "refusing", "serving",
           "leaving", "releasing", "finishing", "done"}

Answers == {"none", "ok", "denied", "unauthorized", "shed", "busy",
            "limited", "aborted"}

\* Stages between taking a place in the channel and giving it back.
SlotStages == {"authenticating", "protecting", "rating", "entering",
               "refusing", "serving", "leaving", "releasing"}

\* Stages between inflight[principal]++ and the deferred decrement.
RunStages == {"serving", "leaving"}

Holding == {r \in Requests : stage[r] \in SlotStages}
Running == {r \in Requests : stage[r] \in RunStages}
RunningFor(p) == {r \in Running : caller[r] = p}
Counted == {r \in Requests : stage[r] # "new"}
Active == {r \in Requests : stage[r] \notin {"new", "counted", "done"}}
Uncounted == {r \in Requests : stage[r] = "counted"}  \* not by the gauge yet
Done == {r \in Requests : stage[r] = "done"}
Answered(a) == {r \in Requests : answer[r] = a}
RateRejected == {r \in Requests : pc[r] = "rejected"}

\* The figures of a page are numbered in the order they are loaded.
Figures == 1 .. 5

TypeOK ==
    /\ stage \in [Requests -> Stages]
    /\ caller \in [Requests -> Principals \cup {Nobody}]
    /\ answer \in [Requests -> Answers]
    /\ slots \in Nat
    /\ DOMAIN inflight \subseteq Principals
    /\ inflight \in [DOMAIN inflight -> Nat]
    /\ httpRequests \in Nat /\ httpInflight \in Nat
    /\ httpRejected \in Nat /\ httpPrincipalRejected \in Nat
    /\ rateRejected \in Nat
    /\ loaded \in [Scrapers -> 0 .. 5]
    /\ page \in [Scrapers -> [Figures -> Nat]]
    /\ settled \in [Scrapers -> SUBSET Requests]

Init ==
    /\ stage = [r \in Requests |-> "new"]
    /\ caller = [r \in Requests |-> Nobody]
    /\ answer = [r \in Requests |-> "none"]
    /\ slots = 0
    /\ inflight = [p \in {} |-> 0]
    /\ httpRequests = 0 /\ httpInflight = 0
    /\ httpRejected = 0 /\ httpPrincipalRejected = 0
    /\ loaded = [r \in Scrapers |-> 0]
    /\ page = [r \in Scrapers |-> [i \in Figures |-> 0]]
    /\ settled = [r \in Scrapers |-> {}]
    /\ Limiter!Init

----------------------------------------------------------------------------

Goto(r, from, to) ==
    /\ stage[r] = from
    /\ stage' = [stage EXCEPT ![r] = to]

Answer(r, a) == answer' = [answer EXCEPT ![r] = a]

\* A step that changes nothing but the request's own progress, and its answer.
Advance(r, from, to) ==
    /\ Goto(r, from, to)
    /\ UNCHANGED <<caller, answer, slots, inflight, stats, limiterVars>>

Respond(r, from, to, a) ==
    /\ Goto(r, from, to)
    /\ Answer(r, a)
    /\ UNCHANGED <<caller, slots, inflight, stats, limiterVars>>

\* observeRequests: httpRequests.Add(1) ...
Observe(r) ==
    /\ Goto(r, "new", "counted")
    /\ httpRequests' = httpRequests + 1
    /\ UNCHANGED <<caller, answer, slots, inflight, httpInflight,
                   httpRejected, httpPrincipalRejected, scrapeVars, limiterVars>>

\* ... and then httpInflight.Add(1), before the request is routed.
ObserveInflight(r) ==
    /\ Goto(r, "counted", "observed")
    /\ httpInflight' = httpInflight + 1
    /\ UNCHANGED <<caller, answer, slots, inflight, httpRequests,
                   httpRejected, httpPrincipalRejected, scrapeVars, limiterVars>>

\* The mux answers /healthz and the OAuth metadata itself: they take no place
\* in the channel.
AnswerDirectly(r) ==
    r \notin Scrapers /\ Respond(r, "observed", "finishing", "ok")

\* The two figures of the 429s exchanged on the page.
MetricsExchanged ==
    <<httpRequests, httpInflight, httpRejected, rateRejected,
      httpPrincipalRejected>>

\* The counters in the order of telemetry.ServeHTTP; those of the upstream
\* calls follow (Upstream).
Metrics ==
    <<httpRequests, httpInflight, httpRejected, httpPrincipalRejected,
      rateRejected>>

\* The mux hands a scrape to telemetry.ServeHTTP ...
Scrape(r) ==
    /\ r \in Scrapers
    /\ Goto(r, "observed", "scraping")
    /\ settled' = [settled EXCEPT ![r] = Done]
    /\ UNCHANGED <<caller, answer, slots, inflight, httpRequests, httpInflight,
                   httpRejected, httpPrincipalRejected, loaded, page, limiterVars>>

\* ... which loads one counter after the other ...
Load(r) ==
    /\ r \in Scrapers /\ stage[r] = "scraping" /\ loaded[r] < 5
    /\ loaded' = [loaded EXCEPT ![r] = @ + 1]
    /\ page' = [page EXCEPT ![r][loaded[r] + 1] = Metrics[loaded[r] + 1]]
    /\ UNCHANGED <<stage, caller, answer, slots, inflight, httpRequests,
                   httpInflight, httpRejected, httpPrincipalRejected, settled,
                   limiterVars>>

\* ... and has written the page.
Scraped(r) ==
    /\ r \in Scrapers /\ loaded[r] = 5
    /\ Respond(r, "scraping", "finishing", "ok")

\* allowCORS answers the preflight of an allowed origin, and takes no place.
Preflight(r) == r \notin Scrapers /\ Respond(r, "observed", "finishing", "ok")

\* allowCORS, CrossOriginProtection or requireExactOrigin: 403.
DenyOrigin(r) ==
    r \notin Scrapers /\ Respond(r, "observed", "finishing", "denied")

RouteToMCP(r) == r \notin Scrapers /\ Advance(r, "observed", "arriving")

\* limitConcurrent: semaphore <- struct{}{} succeeds.
AcquireSlot(r) ==
    /\ Goto(r, "arriving", IF OAuth THEN "authenticating" ELSE "protecting")
    /\ slots < MaxConcurrent
    /\ slots' = slots + 1
    /\ UNCHANGED <<caller, answer, inflight, stats, limiterVars>>

\* limitConcurrent: the channel is full, 503; nothing is deferred yet but the
\* end of observeRequests.
Shed(r) ==
    /\ Goto(r, "arriving", "finishing")
    /\ slots >= MaxConcurrent
    /\ httpRejected' = httpRejected + 1
    /\ Answer(r, "shed")
    /\ UNCHANGED <<caller, slots, inflight, httpRequests, httpInflight,
                   httpPrincipalRejected, scrapeVars, limiterVars>>

\* oauthProtection: the bearer token of p verifies.
Authenticate(r, p) ==
    /\ OAuth
    /\ Goto(r, "authenticating", "protecting")
    /\ caller' = [caller EXCEPT ![r] = p]
    /\ UNCHANGED <<answer, slots, inflight, stats, limiterVars>>

\* oauthProtection: no token, an invalid one, or a missing scope.
RefuseToken(r) == OAuth /\ Respond(r, "authenticating", "releasing", "unauthorized")

\* protectMCP lets the request on; without OAuth its key makes it p's.
Protect(r, p) ==
    /\ Goto(r, "protecting", IF RateEnabled THEN "rating" ELSE "entering")
    /\ OAuth => p = caller[r]
    /\ caller' = [caller EXCEPT ![r] = p]
    /\ UNCHANGED <<answer, slots, inflight, stats, limiterVars>>

\* protectMCP: host (403), API key (401, 400) or forwarding chain (400).
RefuseRequest(r, a) ==
    /\ a = "unauthorized" => ~OAuth
    /\ Respond(r, "protecting", "releasing", a)

\* The limiter told another principal than the one the request was
\* authenticated as.
RateStepOther(r) ==
    /\ stage[r] = "rating"
    /\ (\E p \in Principals : Limiter!ReadClock(r, p)) \/ Limiter!Handle(r)
    /\ UNCHANGED gatewayVars

\* The steps of principalRateLimiter.handler on behalf of r.
RateStep(r) ==
    /\ stage[r] = "rating"
    /\ Limiter!ReadClock(r, caller[r]) \/ Limiter!Handle(r)
    /\ UNCHANGED gatewayVars

\* The limiter calls next.ServeHTTP.
RatePass(r) == pc[r] = "forwarded" /\ Advance(r, "rating", "entering")

\* The limiter has answered 429 itself.
RateRefused(r) ==
    /\ pc[r] = "rejected"
    /\ Respond(r, "rating", "releasing", "limited")

\* inflight[p] in Go: a missing key reads as zero.
Inflight(p) == IF p \in DOMAIN inflight THEN inflight[p] ELSE 0

\* inflight[principal]++ under the mutex, below a limit.
EnterBelow(r, limit) ==
    /\ Goto(r, "entering", "serving")
    /\ Inflight(caller[r]) < limit
    /\ inflight' = [p \in DOMAIN inflight \cup {caller[r]} |->
                       IF p = caller[r] THEN Inflight(p) + 1 ELSE inflight[p]]
    /\ UNCHANGED <<caller, answer, slots, stats, limiterVars>>

\* The comparison off by one: > limit instead of >= limit.
EnterLoose(r) == EnterBelow(r, PerPrincipal + 1)

\* limitConcurrentPerPrincipal lets the request in.
Enter(r) == EnterBelow(r, PerPrincipal)

\* The principal is at its limit: the mutex is released first ...
RefuseBusy(r) ==
    /\ Inflight(caller[r]) >= PerPrincipal
    /\ Advance(r, "entering", "refusing")

\* The refusal counted as one of the global limit.
CountBusyGlobal(r) ==
    /\ Goto(r, "refusing", "releasing")
    /\ httpRejected' = httpRejected + 1
    /\ Answer(r, "busy")
    /\ UNCHANGED <<caller, slots, inflight, httpRequests, httpInflight,
                   httpPrincipalRejected, scrapeVars, limiterVars>>

\* ... and the 429 is counted and written after.
CountBusy(r) ==
    /\ Goto(r, "refusing", "releasing")
    /\ httpPrincipalRejected' = httpPrincipalRejected + 1
    /\ Answer(r, "busy")
    /\ UNCHANGED <<caller, slots, inflight, httpRequests, httpInflight,
                   httpRejected, scrapeVars, limiterVars>>

\* A request that was served is given back to its caller's rate window.
ReturnRefund(r) ==
    /\ Goto(r, "serving", "leaving")
    /\ Answer(r, "ok")
    /\ windows' = [p \in DOMAIN windows |->
                      IF p = caller[r] THEN [windows[p] EXCEPT !.count = @ - 1]
                                       ELSE windows[p]]
    /\ UNCHANGED <<caller, slots, inflight, stats, clock, mutex, pc, principal, now,
                   retryAfter, rateRejected, admittedAt, decidedBy, lastReset>>

\* The MCP handler returns.
Return(r) == Respond(r, "serving", "leaving", "ok")

\* The decrement after next.ServeHTTP instead of deferred: a panic skips it.
PanicUndeferred(r) == Respond(r, "serving", "releasing", "aborted")

\* The MCP handler panics: the deferred functions run all the same, and
\* net/http closes the connection without a response.
Panic(r) == Respond(r, "serving", "leaving", "aborted")

\* The decrement without the delete: the map keeps idle principals.
LeaveEntry(r) ==
    /\ Goto(r, "leaving", "releasing")
    /\ inflight' = [inflight EXCEPT ![caller[r]] = @ - 1]
    /\ UNCHANGED <<caller, answer, slots, stats, limiterVars>>

\* Deferred: inflight[principal]--, and the entry goes when it is zero.
Leave(r) ==
    /\ Goto(r, "leaving", "releasing")
    /\ LET p == caller[r]
           left == Inflight(p) - 1
       IN  inflight' = [q \in (IF left = 0 THEN DOMAIN inflight \ {p}
                                           ELSE DOMAIN inflight) |->
                           IF q = p THEN left ELSE inflight[q]]
    /\ UNCHANGED <<caller, answer, slots, stats, limiterVars>>

\* Deferred: <-semaphore.
Release(r) ==
    /\ Goto(r, "releasing", "finishing")
    /\ slots' = slots - 1
    /\ UNCHANGED <<caller, answer, inflight, stats, limiterVars>>

\* The request is logged and httpInflight decremented.
Finish(r) ==
    /\ Goto(r, "finishing", "done")
    /\ httpInflight' = httpInflight - 1
    /\ UNCHANGED <<caller, answer, slots, inflight, httpRequests,
                   httpRejected, httpPrincipalRejected, scrapeVars, limiterVars>>

Tick == Limiter!Tick /\ UNCHANGED gatewayVars

Step(r) ==
    \/ ObserveInflight(r)
    \/ AnswerDirectly(r) \/ Scrape(r) \/ Load(r) \/ Scraped(r)
    \/ Preflight(r) \/ DenyOrigin(r) \/ RouteToMCP(r)
    \/ AcquireSlot(r) \/ Shed(r)
    \/ \E p \in Principals : Authenticate(r, p)
    \/ RefuseToken(r)
    \/ \E p \in Principals : Protect(r, p)
    \/ \E a \in {"denied", "unauthorized"} : RefuseRequest(r, a)
    \/ RateStep(r) \/ RatePass(r) \/ RateRefused(r)
    \/ Enter(r) \/ RefuseBusy(r) \/ CountBusy(r)
    \/ Return(r) \/ Panic(r)
    \/ Leave(r) \/ Release(r) \/ Finish(r)

Next == Tick \/ \E r \in Requests : Observe(r) \/ Step(r)

Spec == Init /\ [][Next]_vars

\* Every goroutine is scheduled, and the MCP handler ends: each upstream call
\* has the deadline of http.Client.Timeout or of the tool's own context.
FairSpec == Spec /\ \A r \in Requests : WF_vars(Step(r))

----------------------------------------------------------------------------

\* The shared counters tell the truth in every interleaving: places taken in
\* the channel, the map of running handlers (with no entry left behind for
\* an idle principal) and the in-flight gauge are what the requests in the
\* chain account for.
SlotsAccounted ==
    /\ slots = Cardinality(Holding)
    /\ \A p \in Principals : Inflight(p) = Cardinality(RunningFor(p))
    /\ \A p \in DOMAIN inflight : inflight[p] > 0
    /\ httpInflight = Cardinality(Active)

\* The counters served by /metrics agree with the requests and the answers
\* given, in every interleaving of their separate additions: the total counts
\* each request from its first step on, ahead of the gauge by those that are
\* between the two additions or done; each shed or refused request is counted
\* once, under the limit that refused it, and not before it is decided.
TelemetryAgrees ==
    /\ httpRequests = Cardinality(Counted)
    /\ httpRequests = httpInflight + Cardinality(Uncounted) + Cardinality(Done)
    /\ httpRejected = Cardinality(Answered("shed"))
    /\ httpPrincipalRejected = Cardinality(Answered("busy"))
    /\ rateRejected = Cardinality(RateRejected)
    /\ Answered("limited") \subseteq RateRejected

\* What figure i of a page must cover: requests of S, or the scrape itself ...
Shown(i, r, S) ==
    CASE i = 1 -> S \cup {r}
      [] i = 2 -> {r}
      [] i = 3 -> S \cap Answered("shed")
      [] i = 4 -> S \cap Answered("busy")
      [] i = 5 -> S \cap Answered("limited")

\* ... and what it can have counted by now.
Possible(i, r) ==
    CASE i = 1 -> Counted
      [] i = 2 -> Counted \ settled[r]
      [] i = 3 -> Answered("shed")
      [] i = 4 -> Answered("busy")
      [] i = 5 -> RateRejected

\* A scrape reads the counters one after the other while requests move: still
\* each figure covers everybody who had left before the scrape began (and the
\* scrape itself), the gauge counts nobody who had, and none is ahead of what
\* has happened.
ScrapeTruthful ==
    \A r \in Scrapers : \A i \in 1 .. loaded[r] :
        /\ Cardinality(Shown(i, r, settled[r])) <= page[r][i]
        /\ page[r][i] <= Cardinality(Possible(i, r))

\* A 503 or a concurrency 429 is given only while the server, or the
\* principal, really has that many requests in progress: no place is lost to
\* a request that has left, by a refusal, a panic or a normal return.
RefusalsJustified ==
    [][\A r \in Requests :
          /\ (stage[r] = "arriving" /\ stage'[r] = "finishing") =>
                Cardinality(Holding) >= MaxConcurrent
          /\ (stage[r] = "entering" /\ stage'[r] = "refusing") =>
                Cardinality(RunningFor(caller[r])) >= PerPrincipal]_vars

\* The chain keeps the promise of both concurrency limits: seen from the MCP
\* handlers it is the abstract specification Capacity.
HandlersOf == [r \in Running |-> caller[r]]
Abstract == INSTANCE Capacity WITH running <- HandlersOf
CapacityRefined == Abstract!CapacitySpec

\* Embedded in the chain, the rate limiter still behaves as specified on its
\* own: no other layer touches its table, its mutex or its counters.
LimiterRefined == Limiter!Spec

\* Nobody comes past the limiter but as one of at most Limit requests that one
\* window of the very principal he was authenticated as has let through.
ServedWithinQuota ==
    RateEnabled =>
        \A r \in Requests :
            stage[r] \in {"entering", "refusing", "serving", "leaving"} =>
                LET together == Limiter!CountedIn(caller[r], decidedBy[r])
                IN  r \in together /\ Cardinality(together) <= Limit

\* Every request that reaches the server is answered and leaves the chain for
\* good, through both mutexes, every refusal and a panic; one that has arrived
\* is never "new" again.
EveryRequestAnswered ==
    \A r \in Requests : <>[](stage[r] \in {"new", "done"})

\* "Maximum simultaneous authenticated MCP requests" (README.md): a request
\* is shed only when that many authenticated requests are in progress.
ShedOnlyByAuthenticated ==
    [][\A r \in Requests :
          (stage[r] = "arriving" /\ stage'[r] = "finishing") =>
              Cardinality({s \in Holding : caller[s] # Nobody})
                  >= MaxConcurrent]_vars
====
