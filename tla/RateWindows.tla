---- MODULE RateWindows ----
(***************************************************************************)
(* The fixed-window table of the per-principal rate limiter: what the      *)
(* critical section of principalRateLimiter.handler computes from the map  *)
(* of windows, a principal and the clock value the request has read        *)
(* (internal/httpserver/server.go).  Time is counted in ticks; a window    *)
(* lasts Window ticks (one minute in the code).                            *)
(***************************************************************************)
EXTENDS Integers, FiniteSets

CONSTANTS
    Principals,      \* identities requestPrincipal can derive
    Limit,           \* MAX_REQUESTS_PER_MINUTE; zero does not install the limiter
    MaxTracked,      \* maxTrackedRatePrincipals
    Window,          \* time.Minute, in ticks
    TicksPerSecond   \* time.Second, in ticks

ASSUME RateAssumption ==
    /\ Limit \in Nat \ {0}
    /\ MaxTracked \in Nat \ {0}
    /\ Window \in Nat \ {0}
    /\ TicksPerSecond \in Nat \ {0}

WindowRecord == [count : Nat, resetAt : Nat]

\* The map of windows: a function on the principals that have one.
IsWindowTable(ws) ==
    /\ DOMAIN ws \subseteq Principals
    /\ ws \in [DOMAIN ws -> WindowRecord]

----------------------------------------------------------------------------

\* A request that found its window one tick after its end still alive.
ExpiredLate(w, t) == w.resetAt < t

\* !now.Before(window.resetAt)
Expired(w, t) == w.resetAt <= t

Without(ws, S) == [p \in DOMAIN ws \ S |-> ws[p]]

\* The sweep without its test: a full table would forget everyone.
SweptAll(ws, t) == Without(ws, DOMAIN ws)

\* The sweep without its effect: expired windows would stay for ever.
SweptNone(ws, t) == ws

\* The sweep of a full table: every expired window goes.
Swept(ws, t) == Without(ws, {q \in DOMAIN ws : Expired(ws[q], t)})

\* A window of one second instead of one minute.
FreshSecond(t) == [count |-> 0, resetAt |-> t + TicksPerSecond]

Fresh(t) == [count |-> 0, resetAt |-> t + Window]

\* Rounding the remaining time down instead of up.
RetryAfterFloor(w, t) ==
    LET seconds == (w.resetAt - t) \div TicksPerSecond
    IN  IF seconds > 1 THEN seconds ELSE 1

\* The remaining time in whole seconds, rounded up, at least one.
RetryAfter(w, t) ==
    LET seconds == (w.resetAt - t + TicksPerSecond - 1) \div TicksPerSecond
    IN  IF seconds > 1 THEN seconds ELSE 1

----------------------------------------------------------------------------
(* The critical section, for principal p and clock value t.                *)

\* The principal's own expired window is deleted first.
OwnDropped(ws, p, t) ==
    IF p \in DOMAIN ws /\ Expired(ws[p], t) THEN Without(ws, {p}) ELSE ws

Tracked(ws, p, t) == p \in DOMAIN OwnDropped(ws, p, t)

IsFull(ws) == Cardinality(DOMAIN ws) >= MaxTracked

\* The table the verdict is taken on: a newcomer to a full table sweeps it.
Settled(ws, p, t) ==
    LET own == OwnDropped(ws, p, t)
    IN  IF p \notin DOMAIN own /\ IsFull(own) THEN Swept(own, t) ELSE own

NeverFull(ws, p, t) == FALSE

\* A newcomer finds no room even after the sweep.
NoRoom(ws, p, t) == ~Tracked(ws, p, t) /\ IsFull(Settled(ws, p, t))

\* The window the request is counted in.
Current(ws, p, t) ==
    IF Tracked(ws, p, t) THEN Settled(ws, p, t)[p] ELSE Fresh(t)

Exhausted(ws, p, t) ==
    ~NoRoom(ws, p, t) /\ Current(ws, p, t).count >= Limit

\* The check without the count: count++ on a copy that is not stored.
NotCounted(ws, p, t) ==
    [q \in DOMAIN Settled(ws, p, t) \cup {p} |->
        IF q = p THEN Current(ws, p, t) ELSE Settled(ws, p, t)[q]]

\* window.count++; limiter.windows[principal] = window
Counted(ws, p, t) ==
    [q \in DOMAIN Settled(ws, p, t) \cup {p} |->
        IF q = p THEN [Current(ws, p, t) EXCEPT !.count = @ + 1]
                 ELSE Settled(ws, p, t)[q]]
====
