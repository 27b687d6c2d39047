---- MODULE Upstream ----
(***************************************************************************)
(* Concurrent calls of the Synthient API (Client.requestQuery and          *)
(* requestAs of internal/synthient/client.go), the upstream counters they  *)
(* bump one after the other (telemetry.ObserveUpstream) and the scrapes of *)
(* /metrics that read them one after the other (telemetry.ServeHTTP, both  *)
(* internal/httpserver/server.go).                                         *)
(*                                                                         *)
(* Each counter is atomic; a group of them is not.                         *)
(***************************************************************************)
EXTENDS Integers, Sequences, FiniteSets

CONSTANTS
    Calls,        \* API calls, one for each tool call that gets that far
    MaxScrapes    \* bound on the number of scrapes

ASSUME UpstreamAssumption == IsFiniteSet(Calls) /\ MaxScrapes \in Nat

Outcomes == {"success", "client_error", "server_error", "transport_error"}

\* The order in which a scrape reads the outcomes, after the total.
Order == <<"success", "client_error", "server_error", "transport_error">>

\* A response: its status class, and its body: an object of the expected
\* shape, an object of another, no single JSON object, more than
\* maxResponseBytes, or a read error on the way.
Responses == [status : {"2xx", "3xx", "4xx", "5xx"},
              body : {"object", "mismatch", "invalid", "oversized", "broken"}]

\* Do returned an error: status zero for the telemetry.
Failed == [status |-> "0", body |-> "none"]

NoReply == [status |-> "none", body |-> "none"]

VARIABLES
    pc,         \* each call: idle, sending, counting, classing, typing, returned
    reply,      \* what Do returned
    result,     \* what the call returns
    upstreamRequests,   \* stats.upstreamRequests
    byOutcome,          \* the four outcome counters
    scrapes,            \* scrapes begun
    reading,            \* progress of the scrape: 0 when there is none
    seenTotal, seen,    \* what it has read; the last scrape's when it is over
    prevTotal, prev,    \* what the scrape before it had read
    answered            \* history: calls answered before the scrape began

vars == <<pc, reply, result, upstreamRequests, byOutcome, scrapes, reading,
          seenTotal, seen, prevTotal, prev, answered>>

scrapeVars == <<scrapes, reading, seenTotal, seen, prevTotal, prev, answered>>

Init ==
    /\ pc = [c \in Calls |-> "idle"]
    /\ reply = [c \in Calls |-> NoReply]
    /\ result = [c \in Calls |-> "none"]
    /\ upstreamRequests = 0
    /\ byOutcome = [o \in Outcomes |-> 0]
    /\ scrapes = 0 /\ reading = 0
    /\ seenTotal = 0 /\ seen = [o \in Outcomes |-> 0]
    /\ prevTotal = 0 /\ prev = [o \in Outcomes |-> 0]
    /\ answered = {}

----------------------------------------------------------------------------

\* What requestQuery makes of a response, in the order of its tests: a body it
\* cannot read, one over the limit, a status that is not 2xx, no JSON object.
\* A mismatch is noticed by requestAs after that.
Verdict(r) ==
    IF r.body \in {"none", "broken"} THEN "error"
    ELSE IF r.body = "oversized" THEN "bad_gateway"
    ELSE IF r.status # "2xx" THEN r.status
    ELSE IF r.body = "invalid" THEN "bad_gateway"
    ELSE "value"

\* The classes of ObserveUpstream with every status below 400 a success.
OutcomeLenient(status) ==
    CASE status = "0" -> "transport_error"
      [] status \in {"2xx", "3xx"} -> "success"
      [] status = "4xx" -> "client_error"
      [] status = "5xx" -> "server_error"

\* The class ObserveUpstream counts a call in.  Redirects are not followed,
\* and count as errors of the server.
Outcome(status) ==
    CASE status = "0" -> "transport_error"
      [] status = "2xx" -> "success"
      [] status = "4xx" -> "client_error"
      [] status \in {"3xx", "5xx"} -> "server_error"

----------------------------------------------------------------------------

\* The client is not configured, a segment is empty or the path leaves the
\* base URL: an error before anything is sent or counted.
Unsendable(c) ==
    /\ pc[c] = "idle"
    /\ pc' = [pc EXCEPT ![c] = "returned"]
    /\ result' = [result EXCEPT ![c] = "error"]
    /\ UNCHANGED <<reply, upstreamRequests, byOutcome, scrapeVars>>

Do(c) ==
    /\ pc[c] = "idle"
    /\ pc' = [pc EXCEPT ![c] = "sending"]
    /\ UNCHANGED <<reply, result, upstreamRequests, byOutcome, scrapeVars>>

\* Do returns, the body is read and judged; the deferred observe comes next.
Receive(c, r) ==
    /\ pc[c] = "sending"
    /\ pc' = [pc EXCEPT ![c] = "counting"]
    /\ reply' = [reply EXCEPT ![c] = r]
    /\ result' = [result EXCEPT ![c] = Verdict(r)]
    /\ UNCHANGED <<upstreamRequests, byOutcome, scrapeVars>>

\* upstreamRequests.Add(1), upstreamDurationNanos.Add(...)
CountRequest(c) ==
    /\ pc[c] = "counting"
    /\ pc' = [pc EXCEPT ![c] = "classing"]
    /\ upstreamRequests' = upstreamRequests + 1
    /\ UNCHANGED <<reply, result, byOutcome, scrapeVars>>

\* The outcome counter, one atomic step later.
CountOutcome(c) ==
    /\ pc[c] = "classing"
    /\ pc' = [pc EXCEPT ![c] = "typing"]
    /\ byOutcome' = [byOutcome EXCEPT ![Outcome(reply[c].status)] = @ + 1]
    /\ UNCHANGED <<reply, result, upstreamRequests, scrapeVars>>

\* A call answered while its observation is under way, in a goroutine.
ObservedAsync(c) == pc[c] \in {"counting", "typing"}

\* requestQuery's deferred observation is over.
Observed(c) == pc[c] = "typing"

\* The error of the second decoding dropped.
ConformsUnchecked(r) == TRUE

\* requestAs: the object decodes into the type of the tool.
Conforms(r) == r.body # "mismatch"

Typed(c) ==
    /\ Observed(c)
    /\ pc' = [pc EXCEPT ![c] = "returned"]
    /\ result' = [result EXCEPT ![c] =
                     IF @ = "value" /\ ~Conforms(reply[c]) THEN "bad_gateway" ELSE @]
    /\ UNCHANGED <<reply, upstreamRequests, byOutcome, scrapeVars>>

\* A scrape that empties what it reads: Swap(0) instead of Load.
LeftBySwap(o) == 0

\* What reading a counter leaves in it.
LeftByLoad(o) == byOutcome[o]

\* telemetry.ServeHTTP loads the total first ...
ReadTotal ==
    /\ reading = 0
    /\ scrapes < MaxScrapes
    /\ scrapes' = scrapes + 1
    /\ reading' = 1
    /\ prevTotal' = seenTotal /\ prev' = seen
    /\ seenTotal' = upstreamRequests
    /\ answered' = {c \in Calls : pc[c] = "returned" /\ reply[c] # NoReply}
    /\ UNCHANGED <<pc, reply, result, upstreamRequests, byOutcome, seen>>

\* ... and then the outcomes, each when it comes to it.
ReadOutcome ==
    /\ reading > 0
    /\ reading' = (reading + 1) % (Len(Order) + 1)
    /\ LET o == Order[reading]
       IN  /\ seen' = [seen EXCEPT ![o] = byOutcome[o]]
           /\ byOutcome' = [byOutcome EXCEPT ![o] = LeftByLoad(o)]
    /\ UNCHANGED <<pc, reply, result, upstreamRequests, scrapes, seenTotal,
                   prevTotal, prev, answered>>

Next ==
    \/ ReadTotal \/ ReadOutcome
    \/ \E c \in Calls :
          \/ Unsendable(c) \/ Do(c)
          \/ \E r \in Responses \cup {Failed} : Receive(c, r)
          \/ CountRequest(c) \/ CountOutcome(c) \/ Typed(c)

Spec == Init /\ [][Next]_vars

----------------------------------------------------------------------------

Total(f) == f["success"] + f["client_error"] + f["server_error"] + f["transport_error"]

\* What the outcome classes mean.
Meaning == [success |-> {"2xx"}, client_error |-> {"4xx"},
            server_error |-> {"3xx", "5xx"}, transport_error |-> {"0"}]

Of(o, S) == {c \in S : reply[c].status \in Meaning[o]}

\* Every call that reached the network is counted once in the total and once
\* in the class of what really came back, though calls interleave between the
\* two: the counters differ by the calls that are between them, and a call
\* that sent nothing is in neither.
OutcomesAccounted ==
    /\ \A o \in Outcomes :
          byOutcome[o] = Cardinality(
              Of(o, {c \in Calls : pc[c] \in {"typing", "returned"}}))
    /\ upstreamRequests =
          Total(byOutcome) + Cardinality({c \in Calls : pc[c] = "classing"})

\* A scrape shows every call that was answered before it began, in the total
\* and in its class: the observation is deferred inside the call, so nobody
\* gets an answer that monitoring does not know of.
AnsweredSeen ==
    (reading = 0 /\ scrapes > 0) =>
        /\ seenTotal >= Cardinality(answered)
        /\ \A o \in Outcomes : seen[o] >= Cardinality(Of(o, answered))

\* From one scrape to the next no number falls, and no scrape, however calls
\* move between its reads, shows more outcomes than calls were counted by the
\* time it is over.
ScrapesGrow ==
    /\ seenTotal >= prevTotal
    /\ \A o \in Outcomes : seen[o] >= prev[o]
    /\ Total(seen) <= upstreamRequests

\* A tool gets a value exactly when a complete, bounded 2xx response was an
\* object of the expected shape; a readable refusal keeps its own status,
\* whatever its body looks like.
ResultsFaithful ==
    \A c \in Calls :
        (pc[c] = "returned" /\ reply[c] # NoReply) =>
            /\ result[c] = "value" <=>
                  reply[c] = [status |-> "2xx", body |-> "object"]
            /\ ( /\ reply[c].status \in {"3xx", "4xx", "5xx"}
                 /\ reply[c].body \notin {"broken", "oversized"} )
               => result[c] = reply[c].status
====
