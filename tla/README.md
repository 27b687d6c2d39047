# A TLA+ model of the Synthient MCP server

This directory is a verification project for the Go server under `src/go`: an
HTTP (and stdio) MCP server that admits callers, limits them, and forwards
their tool calls to the Synthient API. The modules are translated from the
source; comments name the code they stand for, and `PROJECT.json` maps every
definition to its lines.

## 1. Inventory

| Component | Code | State | Operations | What is hard |
| --- | --- | --- | --- | --- |
| Rate limiter | `internal/httpserver/server.go`, `principalRateLimiter` | map of windows (count, resetAt), mutex, counter | read clock, lock, expire own window, sweep a full table, refuse (full, exhausted), admit | the clock is read before the mutex, so decisions use old values; a full table; refusal counted after the unlock |
| Concurrency limits | same file, `limitConcurrent`, `limitConcurrentPerPrincipal` | channel of places, map of running requests per principal | take a place or shed, enter or refuse, deferred releases | every way out, a panic included, must give back exactly what was taken |
| Request chain | same file, `newHandler`, `observeRequests`, `protectMCP`; `oauth.go` | position of each request, HTTP counters | count, route, check origin, authenticate, check host and key, answer, log | order of the layers; requests interleave between all of them |
| Origin and CORS policy | same file, `allowCORS`, `requireExactOrigin`; `http.CrossOriginProtection` | what a browser remembers of a preflight | allow, deny, answer a preflight | three layers that each decide on the origin, on different data |
| Authentication | `oauth.go`; `protectMCP`, `requestPrincipal` | subject in the request's context | verify claims and scopes, check the key header, name the principal, choose the Synthient key | two modes that share one header; claims of any JSON shape |
| Client address | `internal/forwarding/forwarding.go`, `protectMCP` | none | canonical address of a request from peer and `X-Forwarded-For` | forged and malformed headers, paths longer or shorter than configured |
| Configuration | `internal/config/config.go` | none | parse, validate, relate values | relations between timeouts and limits; what it accepts has to be what the rest can use |
| Lifecycle | `cmd/server/main.go` `main`, `run`, `serve`, `runStdio` | listener, serving goroutine, channel, HTTP requests | load, listen, serve, signal, drain with deadline, join | signal against failure, signal before `Serve` runs, drain deadline |
| MCP tools, legacy names | `internal/mcpserver` | none | validate input, name an endpoint, one call, format | inputs become path segments; calls that cost credit |
| Sampling a feed | `internal/synthient/feeds.go` `SampleStream`, `internal/mcpserver/feeds.go` | events, byte counters | validate, request, scan lines, stop at a limit, deadline or error | a feed that never ends, ends inside a line, or falls silent; three limits at once |
| API client | `internal/synthient/client.go` | none of its own | join the endpoint, one request, bounded read, decode, map errors, observe | errors at every step must be reported and counted once |
| Telemetry | `server.go` `telemetry` | eleven atomic counters | add, scrape | groups of counters are not atomic |
| Healthcheck, version, build info, gRPC schema | `cmd/server/main.go`, `buildinfo`, `feeds.go` | none | I/O | - |

Interaction: `main` loads the configuration and `serve` runs the handler of
`newHandler`; each HTTP request is a goroutine that passes the layers from the
outside in (`observeRequests`, mux, `allowCORS`, `CrossOriginProtection`,
`requireExactOrigin`, `limitConcurrent`, OAuth, `protectMCP`, rate limiter,
per-principal limit, MCP handler) and back out through deferred functions. The
layers share the channel, two maps behind two mutexes and the telemetry. The
MCP handler builds an API client with the key of the configured mode and the
address `protectMCP` left in the header, and a server with the tools; the
client reports every upstream call to the telemetry, which `/metrics` reads.

What makes the parts correct: the limits hold in every interleaving and
refuse nobody without cause; nothing taken is lost; clocks read early never
harm another principal; nobody is served from a foreign origin, without a
scope or on somebody else's credential; a forged header never becomes an
address; an input never leads to another endpoint; a sample is bounded,
complete and ends; a configuration that is accepted is one the program can run
with; shutdown is clean or says it was not; counters tell the truth. The list
`hazards` in `PROJECT.json` names the lines where each of these could go
wrong, and the properties that watch them.

## 2. Modules

| Module | Models | State and actions |
| --- | --- | --- |
| `RateWindows` | the critical section of the rate limiter as operators on the table | no state: `Settled` (own expiry, then sweep), `NoRoom`, `Exhausted`, `Current`, `Counted`, `RetryAfter` |
| `RateLimiter` | concurrent handlers of the limiter | one action for each step between accesses to shared state: `ReadClock`, `Lock`, `RejectFull`, `RejectLimit`, `Admit`, `Reject`; `Tick` is time |
| `Gateway` | the whole chain and the scrapes of its counters | one action per layer and outcome; `Observe` and `ObserveInflight` are the two additions of `observeRequests`; `Scrape`, `Load` (one counter), `Scraped` are a request for `/metrics`; `RateStep` embeds the actions of `RateLimiter` by `INSTANCE`; `Leave` and `Release` are the deferred functions |
| `Capacity` | abstract: what the two concurrency limits promise | `Start`, `Stop` |
| `Config` | `LoadFrom` | no state: `Accepted` (no error) and `Loaded` (the settings) of an environment |
| `Admission` | the layers that look at one request and the configuration | one action per layer: `AllowCORS`, `CrossOrigin`, `RequireExactOrigin`, `OAuthProtection`, `ProtectMCP`; requests follow each other, `granted` is what a browser remembers |
| `Forwarding` | a request on its way through proxies, `CanonicalClientIP`, `protectMCP` | `Send` and `Relay` (external), `ProtectMCP` |
| `Lifecycle` | the process, with `http.Server` by its contract; uses `Config` | `LoadConfig`, `StdioEnds`, `StartServing`, `Signal`, `BeginServe`, `Accept`, `ServeReturns`, the two select arms, `Drained`, `DrainTimeout`, `Join` |
| `SampleStream` | the tool handler's limits and `Client.SampleStream` | `Call`, `NewRequest`, `ScanLine`, `BreakOff`, `Deadline`, `TooLong`, `ScanTail`, `ScanEnd` |
| `Tools` | every MCP tool and the endpoint it calls; composes `SampleStream`, uses `Config` | one action per tool; `SampleTool` is `Call`, `SampleBuild` is `NewRequest` with the endpoint of the feed |
| `Upstream` | concurrent calls of `requestQuery`/`requestAs`, the upstream counters and scrapes | `Do`, `Receive`, `CountRequest`, `CountOutcome`, `Typed`, `ReadTotal`, `ReadOutcome` |
| `MCRateLimiter`, `MCGateway`, `MCUpstream`, `MCConfig`, `MCLifecycle`, `MCAdmission`, `MCTools` | symmetry sets, environments and inputs for TLC | - |
| `RateLimiterProofs`, `GatewayProofs`, `LifecycleProofs`, `AdmissionProofs`, `ForwardingProofs`, `SampleStreamProofs`, `ToolsProofs`, `UpstreamProofs` | theorems | - |

`Gateway` and `Admission` model the same chain from two sides. `Gateway` keeps
what requests share and leaves each verdict open; `Admission` keeps the
verdicts and has one request at a time, since these layers share nothing.

Operators such as `SweptAll`, `LeaveEntry` or `DeadlineNever` are plausible
mistakes in the definition that follows them. They are not part of any
specification; each property is checked to fail when one of them replaces the
original.

Abstractions. Time is counted in ticks (milliseconds in `Config`). Principals,
requests and addresses are model values; a spelling of an address is plain,
decorated (port, spaces, brackets, IPv4-mapped) or malformed, and an address
may have a zone, which `net.ParseIP` refuses. A URL is its
scheme, its host and the form it is written in (plain, capitals, slash, path,
dot segments, stray braces, escaped, fragment, query, unparsable). A path
segment is the sequence of its dot-separated labels, so that `.` and `..` are
what they are, in an address, a domain, a date or an hour alike; `JoinPath`
cleans them. A base URL without a path joins to a relative path, which the
client refuses on every call. A token is its three claims and whether the library accepts it.
The OAuth verifier refuses an empty subject and `protectMCP` an empty key, so
the 401 for an unidentified principal inside the two limits cannot be reached
through the chain; `RateLimiter` has it as an action of its own. The MCP
handler returns or panics. A line of a feed is its kind and its size; a piece
of a line is never a JSON object. The cumulative upstream duration is left
out. Errors of closing the listener are left out of `Lifecycle`. The process
serves plain HTTP, so the server's own origin has scheme `http`.

## 3. Runs

| Run | Instance | Shows |
| --- | --- | --- |
| `rate_stale` | 3 principals, 4 requests, limit 2, table of 2, window 4 ticks of half a second, clock values up to 1 tick old, clock to 9 | quota, cap and count (`QuotaAndCapacity`, `CountsAdmissions`), eviction (`NoEarlyEviction`), the cap refuses only for live windows of others (`FullOnlyWhenCrowded`), `RetryAfterIsEnough`, `AdmittedInsideWindow`, `WindowsSpaced`, bursts across two windows (`BurstBound`) |
| `gateway_slots` | API keys, 3 requests and a scrape of `/metrics`, 2 places, 1 per principal, quota of 2, clock standing still | the counters agree with the requests between their separate additions (`TelemetryAgrees`), a page read counter by counter covers whoever had left before it (`ScrapeTruthful`), `RefusalsJustified`, refinement of `Capacity` (`CapacityRefined`) |
| `gateway_rate` | OAuth, 3 requests, 2 places, 2 per principal, quota of 1, table of 1, clock to 1 | every place is given back (`SlotsAccounted`), refinement of the limiter's own specification (`LimiterRefined`), everybody served on its own quota (`ServedWithinQuota`), `EveryRequestAnswered` |
| `admission` | both modes, CORS on and off, with and without a listed origin; 9 Origins, 3 Hosts, 7 key headers, 15 tokens | `OriginAdmitted`, `PreflightTruthful`, `CredentialsSeparate`, `TokenSufficient` |
| `forwarding` | 2 trusted, 2 other and 1 zoned address, up to 3 proxies, hops 0 to 3, headers of up to 2 entries written by the client, header limit 4 | `NeverForged`, `ResolvesClient`, `UpstreamSeesParticipant` |
| `sample_stream` | every tool; 4 base URLs, batches of up to 3 addresses (limit 2), 11 domains, 13 dates; counts 0 to 4 (default 2, maximum 3), output limit 4, read limit 7, lines of size up to 2 | `EndpointExact`, `MeteredDeclared`, `SampleBounded`, `NothingDropped`, `ObservedOnce`, `SampleEnds` |
| `upstream` | 2 calls, 2 scrapes, every kind of response | `OutcomesAccounted`, `AnsweredSeen`, `ScrapesGrow`, `ResultsFaithful` |
| `lifecycle` | 2 requests; some 460 environments that vary one section of the configuration at a time, at the edges of its ranges | `NoPanicAtStart`, `CleanExitDropsNothing`, `FailureReported`, `GoroutineJoined`, `SignalStops` |
| `gateway_shed`, `same_origin`, `forwarding_readme`, `sample_deadline` | as above | violated: see section 6 |

Why the bounds are enough. The table of `rate_stale` is smaller than the
number of principals, so it fills, is swept and refuses; the clock passes two
windows, so windows expire, are replaced and are swept on behalf of others
with a stale clock value; four requests are as many as two windows admit. In
`gateway_slots` three requests meet two places, one running request and two
admissions per principal: each limit refuses, around every load of the scrape,
which is itself a request the counters see. In `gateway_rate` a second window
opens while requests of the first are still served, so one principal runs two
at once; the quota and the full table refuse, and the third request still needs
the mutex after a refusal. In `admission` an origin is listed, own, own under
another scheme, foreign, malformed or absent, and the three layers disagree on
several of them; what a preflight granted is kept while later requests come.
The limit of the forwarded header (64 in the code) is below the longest header
the instance can build (two written entries and three appended ones), so it is
reached. The three limits of a sample can be reached by the same line. Of the
base URLs of `sample_stream` one has dot segments, one an empty segment and
one no path, all of which `LoadFrom` accepts: every call is then refused, and
none leaves for another endpoint. Addresses, domains, dates and hours include
`..`, so that the validation of each is what keeps its endpoint.
`sample_deadline` uses the default base URL. `CHECK_DEADLOCK FALSE` stands
where the finitely many requests, the one call or the process of the model
come to their end.

`WindowsSpaced` records something a reader of the code may not expect: when a
sweep for somebody else has removed a window that has just ended, a request of
its principal that still carries an older clock value opens the next window up
to `MaxStale` early. The instance is large enough for this to happen.

`BurstBound` is tight. Its interval is shorter than a window by `MaxStale`; in
an interval one window long, two full quotas can be let through: a window is
dated by the clock value of the request that opens it, so it may end
`MaxStale` short of a whole window after that request has gone through.

`TelemetryAgrees` and `ScrapeTruthful` say how far the page may be trusted. The
total and the gauge are two additions, so the total is ahead by the requests
between them; a page, loaded in steps, mixes moments. What remains true is that
no figure misses a request that had left before the scrape began, that the
gauge counts nobody who had, and that none counts what has not happened.

`NoPanicAtStart` states how far the configuration protects the start. An
`MCP_RESOURCE_URL` whose path is no pattern of `http.ServeMux` is accepted and
makes the start panic.

Fairness. `Gateway`: each goroutine that can move does, the MCP handler
included, because every upstream call has a deadline (`http.Client.Timeout`,
or the tool's context for streams and reflection); nothing is assumed of
arrivals or of the clock. `Tools`: the tool's own steps, the return of `Do`
within its context, and the deadline of `context.WithTimeout`; nothing of the
feed. `Lifecycle`: `main`, `serve`, its goroutine and the shutdown deadline,
and the MCP server on stdio once its context is done; nothing of requests,
signals or standard input.

## 4. Proofs

The proof modules are checked by TLAPS for every value of the constants that
meets the assumptions.

`RateLimiterProofs` assumes `RateAssumption` (positive limit, cap, window and
second) and `StaleAssumption` (`MaxStale < Window`: no request spends a whole
window between reading the clock and leaving the mutex). The inductive
invariant is

    Inv == TypeOK /\ QuotaAndCapacity /\ TableInv /\ RefusalInv /\ AdmittedInsideWindow

Quota and cap are inductive almost alone. The eviction, admission and spacing
properties need `TableInv`: a clock value in use is at most `MaxStale` old, a
tracked window is the last one of its principal and ends at most a window from
now, and the last window of an untracked principal is over. Since a stale
value is never ahead of the clock, what looks expired to a request is expired.
`RetryAfterIsEnough` needs `RefusalInv`: a refusal is given before the end of
the window, and its Retry-After reaches that end, which rests on a lemma about
rounding up (`RetryAfterCovers`). Theorems: `TypeCorrect`, `QuotaHolds`,
`AdmissionHolds`, `RetryHolds`, `EvictionHolds`, `SpacingHolds`,
`CrowdedHolds`.

The properties about what was let through need the history as well.
`HistoryInv` says that every request let through stands in the window that
decided it (`Recorded`): with its peers it is at most `Limit` many, its window
is not after the principal's last one, and one of the peers opened the window.
`AdmitHistory` shows that an admission adds one member to the window it writes
and to no other. `CountsHold` is then a conjunct. For `BurstHolds`, take the
earliest window that meets the interval. If a request of the interval opened
it, it outlasts the interval (`OpenedInside`), so nothing else falls in; else
the first and the second window together miss at least the opener of the
first, and a third cannot begin in time.

`GatewayProofs` assumes `GatewayAssumption` (finitely many requests, positive
limits, the per-principal one within the global one). Its invariant is typing,
`SlotsAccounted`, `slots <= MaxConcurrent` and the fact that a request past
`protectMCP` has a principal. The counting lemmas (`OneMore`, `OneLess`) say
what a step of one request does to the sets `Holding`, `RunningFor` and
`Active`. Theorems: `TypeCorrect`, `AccountingHolds`, `RefusalsHold`, and
`CapacityHolds`, the refinement of `Capacity`: `Enter` is a `Start` (the
entering request holds a place but does not run yet, so the running ones are
fewer than the places), `Leave` a `Stop`, everything else a stutter.

`LimiterHolds` is the other refinement: with `LimiterAssumption` (what
`RateAssumption` and `StaleAssumption` ask of the constants, for the chain)
every step of the chain is a step of the limiter or leaves its variables
alone. `Alone` is an instance of `RateLimiterProofs`; `LimiterInherits` and
`LimitsInherited` carry its theorems over. `PhaseInv` ties the place of a
request in the chain to its place in the limiter and to its answer; with
`HistoryInv` it gives `QuotaServed`, and it is what `TelemetryHolds` needs to
know which answers each counter has already seen. `ScrapeHolds` needs besides
that a scrape begins with nothing loaded and remembers only requests that are
done (`ScrapeInv`), and that every step goes forward (`Forward`: nobody leaves
the sets the figures are compared with). A figure that has been loaded is then
bounded for good; one that is being loaded is the counter, which
`TelemetryAgrees` knows.

`LoadFrom` accepts only what `GatewayAssumption` asks of the two limits: both
at least one, the per-principal one not above the global one
(`config.go:119-133`).

`LifecycleProofs` assumes nothing of the constants: any set of requests, any
set of environments. `OriginsTrustable`, a lemma about `Config` alone, says
that the handler can register every origin of an accepted environment, and
gives `NoPanicHolds`. The rest needs an invariant that follows the goroutine's error: `Channel` (the
goroutine's state, what `Serve` returned and what is in the channel belong
together, and nobody has received it before `serve` returns), `Drain` (a
`nil` from `Shutdown` means nothing is in progress and nothing can be
accepted) and `Checked` (past `LoadConfig` the environment was accepted).
Theorems: `CleanExitHolds`, `FailureHolds`, `JoinHolds`.

`AdmissionProofs` assumes that an Origin header is a URL of the model and a
key list a sequence of strings. Its invariant has one fact per layer: what a
request that has come so far has passed (`Layers`), what a granted preflight
was checked against and why a request may have been refused (`Grants`), and
that oauth mode has a key (`Keyed`, from `Config`). `PreflightHolds` is the
one that needs it all: the origin and host of a grant are listed and allowed,
and none of the later layers refuses such a pair. Theorems: `OriginHolds`,
`PreflightHolds`, `CredentialsHold`, `TokenHolds`.

`ForwardingProofs` assumes `ForwardingAssumption` (trusted addresses are
addresses without a zone, `NoAddress` is none, the bounds are numbers). The invariant
`Appended` says how a header ends: with the client and every proxy but the
last, in order, behind whatever the client wrote. With the lemmas on the chain
(`Chain`, `Resolved`) the entry `TRUST_PROXY_HOPS` places to the left of the
peer is then either one of those, or the client itself has been stripped,
which needs it to be trusted. Theorems: `NeverForgedHolds`, `ResolvesHolds`,
`UpstreamHolds`.

`SampleStreamProofs` assumes `SampleAssumption` (positive maximum and line
length, the default within the maximum). The invariant says what is untouched
before the response (`Untouched`) and that while it is read every matching
event is collected and no limit has been passed (`Reading`). Theorems:
`TypeCorrect`, `BoundsHold`, `NothingDroppedHolds`, `ObservationHolds`.
`ToolsProofs` shows that the server with all its tools implements the
specification of one sample (`SampleRefined`: a sample's call and request are
`Call` and `NewRequest`, every other tool a stutter), so the three theorems
hold of it (`SampleHolds`).

The second half of `ToolsProofs` assumes `ToolsAssumption` (base URLs are
sequences of segments, domains are segments, dates sequences of segments;
nothing about which ones). `Joined` is a recursive function over the segments.
`StepsExist` shows that its recursion has a solution, `JoinedPlain` that what it returns
never has an empty or a dot segment, `JoinedSame` that a path without them
comes back unchanged; all three by induction, in the form of a set of numbers
that holds zero and every successor (`NatSet`, from the well-foundedness of
`<`). Since the client insists that the base URL as written begins the joined
path, a base URL with such a segment makes no request at all, and otherwise
the path is the base URL followed by exactly what the handler named
(`EndpointJoins`), provided that this is free of such segments: which is what
the validation of each input gives (`Addresses` for `normalizeIP`,
`SnapshotNames` for `snapshotSegments`, the labels of a domain, the fixed names
of the feeds). `RouteInv` adds to `EndpointExact` that only sample_stream
builds a sample, only a batch has a body, and a tool that is not announced as
metered leaves for no lookup endpoint. Theorems: `EndpointHolds`,
`MeteredHolds`.

`UpstreamProofs` assumes finitely many calls. Besides typing its invariant has
the result of each call as a function of its reply (`CallInv`), the total as
the number of calls past its increment (`TotalInv`), and what a scrape in
progress has read so far (`ScrapeInv`): each counter it is past covers the
calls answered before it began, the others still show the scrape before it,
and none is ahead of the counter itself. Theorems: `AccountedHolds`,
`AnsweredHolds`, `ScrapesHold`, `FaithfulHolds`.

## 5. Only model-checked

Liveness (`EveryRequestAnswered`, `SampleEnds`, `SignalStops`) needs fairness
and `ENABLED`, which are outside this prover. Every invariant and action
property of a passing run and both refinements of the chain are also theorems.
What the four violated runs show are counterexamples, found by TLC.

## 6. Disagreements met

* `forwarding_readme`: `protectMCP` deletes `X-Forwarded-For` before
  `CanonicalClientIP` reads it. With `FORWARD_CLIENT_IP=true` behind at least
  one trusted proxy, as in the README's example, every request is answered 400.
* `sample_deadline`: a deadline that fires inside a line makes the scanner hand
  out the piece, whose decoding error replaces the collected sample.
* `gateway_shed`: `MAX_CONCURRENT_REQUESTS` is documented as a limit on
  authenticated requests, but the place is taken before authentication.
* `same_origin`: the README says that same-origin requests remain allowed next
  to `ALLOWED_ORIGINS`. With `CORS_ENABLED=true`, `allowCORS` refuses the
  server's own origin unless it is listed.

## 7. Not modelled

* What `sanitizeValue` and `sensitiveKey` take out of a decoded object: a
  recursion over arbitrary JSON, without state.
* `matchesFilters`, `validateFilters` and `validateSymbols`: an event passes
  the filters or not, filters are valid or not.
* gRPC reflection: one call of the vendor SDK and a summary of its result.
* The OAuth resource metadata document, the text of the metrics page, JSON
  schemas, error texts and summaries: static or formatting.
* When the deadlines of a connection fire. `LoadFrom` compares the write
  timeout with that of a sample as durations; the two run from different
  moments (the reading of the header, the call of the tool), and what lies
  between them is bounded by no setting.
* The health check, the version command, logging and build information.

## 8. Plan

Done, in this order: rate limiter and its proofs; gateway with `Capacity` and
its proofs; forwarding; sampling; lifecycle; upstream calls; configuration;
admission; tools and endpoints; proofs of lifecycle, admission, sampling,
tools and forwarding; the histories of the rate limiter, the limiter inside
the chain, the telemetry and its scrapes, the endpoints and the upstream
counters.

Next: redaction as operators over a small JSON universe.
