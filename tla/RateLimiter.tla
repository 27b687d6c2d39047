---- MODULE RateLimiter ----
(***************************************************************************)
(* principalRateLimiter: concurrent requests that read the clock BEFORE    *)
(* they take the mutex, decide under it on the table of windows, and, when *)
(* refused, count the refusal after the mutex is released.                 *)
(*                                                                         *)
(* The clock is an explicit variable.  A request that waits for the mutex  *)
(* keeps the clock value it read, so what it decides on is stale by up to  *)
(* MaxStale ticks: the longest time a request may spend between            *)
(* limiter.now() and limiter.mutex.Unlock().                               *)
(***************************************************************************)
EXTENDS RateWindows

CONSTANTS
    Requests,   \* HTTP requests that reach the limiter, one handler each
    Nobody,     \* the empty principal
    Free,       \* the mutex is not held
    MaxStale,   \* bound on the age of the clock value a decision uses
    MaxClock    \* bound on the clock

ASSUME StaleAssumption ==
    /\ MaxStale \in Nat
    /\ MaxClock \in Nat
    /\ MaxStale < Window
    /\ Nobody \notin Principals
    /\ Free \notin Requests

VARIABLES
    clock,         \* the real time
    windows,       \* limiter.windows
    mutex,         \* holder of limiter.mutex
    pc,            \* where each handler is
    principal,     \* requestPrincipal(request)
    now,           \* the clock value the handler has read
    retryAfter,    \* Retry-After of a refusal, zero before
    rateRejected,  \* stats.httpRateRejected
    admittedAt,    \* history: when a request was let through, -1 before
    decidedBy,     \* history: resetAt of the window that decided, -1 before
    lastReset      \* history: resetAt of the principal's last window

vars == <<clock, windows, mutex, pc, principal, now, retryAfter,
          rateRejected, admittedAt, decidedBy, lastReset>>

PCs == {"idle", "waiting", "locked", "rejecting",
        "forwarded", "rejected", "unauthorized"}

Undecided == {"idle", "waiting", "locked"}

TypeOK ==
    /\ clock \in Nat
    /\ IsWindowTable(windows)
    /\ mutex \in Requests \cup {Free}
    /\ pc \in [Requests -> PCs]
    /\ principal \in [Requests -> Principals \cup {Nobody}]
    /\ now \in [Requests -> Nat]
    /\ retryAfter \in [Requests -> Nat]
    /\ rateRejected \in Nat
    /\ admittedAt \in [Requests -> Nat \cup {-1}]
    /\ decidedBy \in [Requests -> Nat \cup {-1}]
    /\ lastReset \in [Principals -> Nat]

Init ==
    /\ clock = 0
    /\ windows = [p \in {} |-> Fresh(0)]
    /\ mutex = Free
    /\ pc = [r \in Requests |-> "idle"]
    /\ principal = [r \in Requests |-> Nobody]
    /\ now = [r \in Requests |-> 0]
    /\ retryAfter = [r \in Requests |-> 0]
    /\ rateRejected = 0
    /\ admittedAt = [r \in Requests |-> -1]
    /\ decidedBy = [r \in Requests |-> -1]
    /\ lastReset = [p \in Principals |-> 0]

----------------------------------------------------------------------------

\* The 401 without its return: the handler goes on with the empty principal.
UnidentifiedThrough(r) ==
    /\ pc[r] = "idle"
    /\ pc' = [pc EXCEPT ![r] = "waiting"]
    /\ now' = [now EXCEPT ![r] = clock]
    /\ UNCHANGED <<clock, windows, mutex, principal, retryAfter,
                   rateRejected, admittedAt, decidedBy, lastReset>>

\* requestPrincipal(request) == "": answered 401 before anything is touched.
Unidentified(r) ==
    /\ pc[r] = "idle"
    /\ pc' = [pc EXCEPT ![r] = "unauthorized"]
    /\ UNCHANGED <<clock, windows, mutex, principal, now, retryAfter,
                   rateRejected, admittedAt, decidedBy, lastReset>>

\* now := limiter.now(), outside the mutex.
ReadClock(r, p) ==
    /\ pc[r] = "idle"
    /\ pc' = [pc EXCEPT ![r] = "waiting"]
    /\ principal' = [principal EXCEPT ![r] = p]
    /\ now' = [now EXCEPT ![r] = clock]
    /\ UNCHANGED <<clock, windows, mutex, retryAfter, rateRejected,
                   admittedAt, decidedBy, lastReset>>

\* limiter.mutex.Lock()
Lock(r) ==
    /\ pc[r] = "waiting"
    /\ mutex = Free
    /\ mutex' = r
    /\ pc' = [pc EXCEPT ![r] = "locked"]
    /\ UNCHANGED <<clock, windows, principal, now, retryAfter, rateRejected,
                   admittedAt, decidedBy, lastReset>>

\* The table is full of unexpired windows of others: unlock, reject(1).
RejectFull(r) ==
    /\ pc[r] = "locked"
    /\ NoRoom(windows, principal[r], now[r])
    /\ windows' = Settled(windows, principal[r], now[r])
    /\ retryAfter' = [retryAfter EXCEPT ![r] = 1]
    /\ mutex' = Free
    /\ pc' = [pc EXCEPT ![r] = "rejecting"]
    /\ UNCHANGED <<clock, principal, now, rateRejected, admittedAt, decidedBy, lastReset>>

\* A refusal that leaves without limiter.mutex.Unlock().
RejectLimitLocked(r) ==
    /\ pc[r] = "locked"
    /\ Exhausted(windows, principal[r], now[r])
    /\ LET w == Current(windows, principal[r], now[r])
       IN  /\ retryAfter' = [retryAfter EXCEPT ![r] = RetryAfter(w, now[r])]
           /\ decidedBy' = [decidedBy EXCEPT ![r] = w.resetAt]
    /\ windows' = Settled(windows, principal[r], now[r])
    /\ pc' = [pc EXCEPT ![r] = "rejecting"]
    /\ UNCHANGED <<clock, mutex, principal, now, rateRejected, admittedAt,
                   lastReset>>

\* window.count >= limiter.limit: unlock, reject(retryAfter).
RejectLimit(r) ==
    /\ pc[r] = "locked"
    /\ Exhausted(windows, principal[r], now[r])
    /\ LET w == Current(windows, principal[r], now[r])
       IN  /\ retryAfter' = [retryAfter EXCEPT ![r] = RetryAfter(w, now[r])]
           /\ decidedBy' = [decidedBy EXCEPT ![r] = w.resetAt]
    /\ windows' = Settled(windows, principal[r], now[r])
    /\ mutex' = Free
    /\ pc' = [pc EXCEPT ![r] = "rejecting"]
    /\ UNCHANGED <<clock, principal, now, rateRejected, admittedAt,
                   lastReset>>

\* Counted, unlocked and handed to the next handler.
Admit(r) ==
    /\ pc[r] = "locked"
    /\ ~NoRoom(windows, principal[r], now[r])
    /\ ~Exhausted(windows, principal[r], now[r])
    /\ windows' = Counted(windows, principal[r], now[r])
    /\ decidedBy' = [decidedBy EXCEPT
                        ![r] = Current(windows, principal[r], now[r]).resetAt]
    /\ lastReset' = [lastReset EXCEPT ![principal[r]] =
                        Current(windows, principal[r], now[r]).resetAt]
    /\ admittedAt' = [admittedAt EXCEPT ![r] = clock]
    /\ mutex' = Free
    /\ pc' = [pc EXCEPT ![r] = "forwarded"]
    /\ UNCHANGED <<clock, principal, now, retryAfter, rateRejected>>

\* limiter.reject: the counter and the 429, after the mutex is released.
Reject(r) ==
    /\ pc[r] = "rejecting"
    /\ rateRejected' = rateRejected + 1
    /\ pc' = [pc EXCEPT ![r] = "rejected"]
    /\ UNCHANGED <<clock, windows, mutex, principal, now, retryAfter,
                   admittedAt, decidedBy, lastReset>>

\* Time passes, but no decision becomes older than MaxStale.
Tick ==
    /\ clock < MaxClock
    /\ \A r \in Requests :
          pc[r] \in {"waiting", "locked"} => clock - now[r] < MaxStale
    /\ clock' = clock + 1
    /\ UNCHANGED <<windows, mutex, pc, principal, now, retryAfter,
                   rateRejected, admittedAt, decidedBy, lastReset>>

Handle(r) ==
    \/ Lock(r)
    \/ RejectFull(r)
    \/ RejectLimit(r)
    \/ Admit(r)
    \/ Reject(r)

Next ==
    \/ Tick
    \/ \E r \in Requests :
          \/ Unidentified(r)
          \/ \E p \in Principals : ReadClock(r, p)
          \/ Handle(r)

Spec == Init /\ [][Next]_vars

----------------------------------------------------------------------------

\* No window admits more than the limit, and the table never outgrows the
\* cap, however stale the clock values are that concurrent requests bring
\* to the mutex (server.go, principalRateLimiter.handler).
QuotaAndCapacity ==
    /\ \A p \in DOMAIN windows : windows[p].count <= Limit
    /\ Cardinality(DOMAIN windows) <= MaxTracked

\* The requests of p that were let through under the window that ends at d.
CountedIn(p, d) ==
    {r \in Requests : pc[r] = "forwarded" /\ principal[r] = p /\ decidedBy[r] = d}

\* The table's count of a live window is the number of requests that were
\* really forwarded under it: no admission is lost between the copy of the
\* window, count++ and the store, and none is counted for a refused request.
CountsAdmissions ==
    \A p \in DOMAIN windows :
        windows[p].count = Cardinality(CountedIn(p, windows[p].resetAt))

\* A window disappears, or is replaced, only once it has really ended: a
\* request that decides on a stale clock value (its own window, or the sweep
\* on behalf of another principal) never cuts a principal's window short.
NoEarlyEviction ==
    [][\A p \in DOMAIN windows :
          \/ /\ p \in DOMAIN windows'
             /\ windows'[p].resetAt = windows[p].resetAt
             /\ windows'[p].count >= windows[p].count
          \/ windows[p].resetAt <= clock]_vars

\* A request is refused for lack of room only when the table is full of
\* windows of other principals that were alive at the time it arrived: a
\* principal with a live window is never turned away by the cap, and expired
\* windows never keep a newcomer out.
FullOnlyWhenCrowded ==
    [][\A r \in Requests :
          (pc[r] = "locked" /\ pc'[r] = "rejecting" /\ decidedBy'[r] = -1) =>
              /\ principal[r] \notin DOMAIN windows
                 \/ windows[principal[r]].resetAt <= clock
              /\ Cardinality({p \in DOMAIN windows \ {principal[r]} :
                                  windows[p].resetAt > now[r]}) >= MaxTracked]_vars

\* A client that waits out the Retry-After it was given is not refused a
\* second time by the window that refused it: two refusals that far apart
\* come from different windows.
RetryAfterIsEnough ==
    \A r, s \in Requests :
        ( /\ retryAfter[r] > 0 /\ decidedBy[r] # -1
          /\ retryAfter[s] > 0 /\ decidedBy[s] # -1
          /\ principal[r] = principal[s]
          /\ now[s] >= now[r] + retryAfter[r] * TicksPerSecond )
        => decidedBy[r] # decidedBy[s]

\* A request is let through between the start of the window it is counted in
\* and MaxStale ticks after its end: a decision on an old clock value can
\* still use up a window that is over, but no other.
AdmittedInsideWindow ==
    \A r \in Requests :
        pc[r] = "forwarded" =>
            /\ decidedBy[r] - Window <= admittedAt[r]
            /\ admittedAt[r] < decidedBy[r] + MaxStale

\* Windows of one principal follow each other a full window apart.  When a
\* sweep on behalf of somebody else has removed the ended window, a request
\* that still carries an older clock value opens the next one early, but by
\* no more than MaxStale.
WindowsSpaced ==
    [][\A p \in Principals :
          lastReset'[p] # lastReset[p] =>
              lastReset'[p] >= lastReset[p] + Window - MaxStale]_vars

\* Requests of p that were let through during an interval that starts at t and
\* is shorter than a window by the staleness of a clock value.
AdmittedIn(p, t) ==
    {r \in Requests : /\ principal[r] = p
                      /\ admittedAt[r] \in t .. t + Window - MaxStale - 1}

\* What a fixed window really bounds: a window starts with the request that
\* opens it, so such an interval, wherever it starts and however many windows
\* it touches, lets through less than two windows' worth of a principal's
\* requests.  With an exact clock the interval is a whole window long.
BurstBound ==
    \A p \in Principals, t \in 0 .. MaxClock :
        Cardinality(AdmittedIn(p, t)) < 2 * Limit

\* The strengthening that makes the invariants above inductive: a clock value
\* in use is at most MaxStale old, a tracked window is the principal's last
\* and started in the past, and an untracked principal's last window has
\* ended.
TableInv ==
    /\ IsFiniteSet(DOMAIN windows)
    /\ \A r \in Requests :
          /\ now[r] <= clock
          /\ pc[r] \in {"waiting", "locked"} =>
                /\ clock - now[r] <= MaxStale
                /\ principal[r] \in Principals
    /\ \A p \in Principals :
          IF p \in DOMAIN windows
          THEN /\ windows[p].resetAt = lastReset[p]
               /\ windows[p].resetAt <= clock + Window
          ELSE lastReset[p] <= clock

\* A refusal by a window is given before the window ends, with a Retry-After
\* that reaches the end; an undecided request has no verdict.
RefusalInv ==
    \A r \in Requests :
        /\ pc[r] \in Undecided => retryAfter[r] = 0 /\ decidedBy[r] = -1
        /\ (retryAfter[r] > 0 /\ decidedBy[r] # -1) =>
              /\ now[r] < decidedBy[r]
              /\ decidedBy[r] <= now[r] + retryAfter[r] * TicksPerSecond

\* The requests let through under the window r was let through under.
Peers(r) == CountedIn(principal[r], decidedBy[r])

\* What is known of a request that was let through: its window is the
\* principal's last or has ended, admits no more than the limit, and was opened
\* by a request with a clock value at most MaxStale old.
Recorded(r) ==
    /\ principal[r] \in Principals
    /\ decidedBy[r] \in Nat
    /\ admittedAt[r] \in Nat /\ admittedAt[r] <= clock
    /\ decidedBy[r] <= lastReset[principal[r]]
    /\ decidedBy[r] # lastReset[principal[r]] => decidedBy[r] <= clock
    /\ IsFiniteSet(Peers(r)) /\ Cardinality(Peers(r)) <= Limit
    /\ \E o \in Peers(r) : admittedAt[o] + Window <= decidedBy[r] + MaxStale

\* The strengthening for the history: every admission is recorded, and the
\* windows of one principal follow each other in time.
HistoryInv ==
    /\ \A r \in Requests :
          IF pc[r] = "forwarded" THEN Recorded(r) ELSE admittedAt[r] = -1
    /\ \A r, s \in Requests :
          ( /\ pc[r] = "forwarded" /\ pc[s] = "forwarded"
            /\ principal[r] = principal[s] /\ decidedBy[r] < decidedBy[s] )
          => decidedBy[r] <= admittedAt[s] /\ admittedAt[r] <= admittedAt[s]
    /\ \A p \in DOMAIN windows : windows[p].count > 0
    /\ CountsAdmissions
====
