---- MODULE Capacity ----
(***************************************************************************)
(* What the two concurrency limits promise, whatever the middleware does   *)
(* to keep them: MCP handlers run on behalf of principals, never more than *)
(* MaxConcurrent at once and never more than PerPrincipal for one caller   *)
(* (MAX_CONCURRENT_REQUESTS and MAX_CONCURRENT_PER_PRINCIPAL).             *)
(***************************************************************************)
EXTENDS Integers, FiniteSets

CONSTANTS Requests, Principals, MaxConcurrent, PerPrincipal

VARIABLE running   \* the principal of each request whose MCP handler runs

RunningFor(p) == {r \in DOMAIN running : running[r] = p}

CapacityInit == running = [r \in {} |-> r]

Start(r, p) ==
    /\ r \notin DOMAIN running
    /\ Cardinality(DOMAIN running) < MaxConcurrent
    /\ Cardinality(RunningFor(p)) < PerPrincipal
    /\ running' = [s \in DOMAIN running \cup {r} |->
                      IF s = r THEN p ELSE running[s]]

Stop(r) ==
    /\ r \in DOMAIN running
    /\ running' = [s \in DOMAIN running \ {r} |-> running[s]]

CapacityNext ==
    \E r \in Requests : Stop(r) \/ \E p \in Principals : Start(r, p)

CapacitySpec == CapacityInit /\ [][CapacityNext]_running
====
