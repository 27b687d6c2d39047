---- MODULE LifecycleProofs ----
(***************************************************************************)
(* Theorems about Lifecycle, for every set of requests and every set of    *)
(* environments: how a process that was started ends, and that an origin   *)
(* LoadFrom accepts never keeps it from starting.                          *)
(***************************************************************************)
EXTENDS Lifecycle, TLAPS

----------------------------------------------------------------------------
(* Accepted configurations.                                                *)

\* Every origin LoadFrom returns is one that AddTrustedOrigin takes.
LEMMA OriginsTrustable ==
    ASSUME NEW e, Accepted(e), NEW u \in Loaded(e).origins
    PROVE  Trustable(u)
<1>1. u \in {Canonical(v) : v \in Items(e.ALLOWED_ORIGINS)}
  BY DEF Loaded
<1>2. PICK v \in Items(e.ALLOWED_ORIGINS) : u = Canonical(v)
  BY <1>1
<1>3. v.host # "" /\ v.scheme \in {"http", "https"}
  BY DEF Accepted, TextsValid, ValidOrigin
<1> QED
  BY <1>2, <1>3 DEF Canonical, URL, Trustable

----------------------------------------------------------------------------
(* The process.                                                            *)

Waiting == {"loading", "starting", "stdio"}

\* The goroutine and the channel: nothing is in serveErrors before the
\* goroutine has sent what Serve returned, and serve takes it out only when it
\* returns.
Channel ==
    /\ server \in {"off", "started", "accepting"} =>
          serveErr = "none" /\ serveErrors = <<>>
    /\ server = "sending" => serveErr # "none" /\ serveErrors = <<>>
    /\ server = "exited" => serveErr # "none"
    /\ server = "exited" /\ main # "returned" => serveErrors = <<serveErr>>
    /\ main \in Waiting => server = "off"
    /\ main \in {"selecting", "draining", "joining"} => server # "off"
    /\ main = "joining" => server # "accepting"
    /\ main = "selecting" => serveErr # "closed"

\* Requests: none before the server runs, none left in progress by a clean
\* drain or an exit.
Drain ==
    /\ main \in Waiting => \A r \in Requests : request[r] = "idle"
    /\ (main = "joining" /\ shutdownErr = "nil") => Active = {}
    /\ main = "returned" => Active = {}
    /\ main = "joining" => shutdownErr # "none"
    /\ main # "returned" =>
          result = "none" /\ \A r \in Requests : request[r] # "dropped"

\* A process that got past loading has an accepted configuration.
Checked ==
    /\ main \notin {"loading", "returned"} => Accepted(env)
    /\ result = "panic" => Accepted(env) /\ HandlerPanics(Loaded(env))

Inv ==
    /\ TypeOK /\ Channel /\ Drain /\ Checked
    /\ CleanExitDropsNothing /\ FailureReported /\ GoroutineJoined

\* A process starts with nothing open and nobody served.
LEMMA InvInit == Init => Inv
BY DEF Init, Inv, TypeOK, Channel, Drain, Checked, Waiting, Active,
       CleanExitDropsNothing, FailureReported, GoroutineJoined

\* What Exit does to the requests.
LEMMA ExitRequests ==
    ASSUME TypeOK, NEW res, Exit(res)
    PROVE  /\ request' \in [Requests -> {"idle", "active", "done", "dropped"}]
           /\ Active' = {}
           /\ main' = "returned" /\ result' = res
           /\ Active = {} => \A r \in Requests : request'[r] = request[r]
BY DEF TypeOK, Exit, Active

\* An exit before the goroutine was started keeps the invariant.
LEMMA EarlyExit ==
    ASSUME Inv, main \in Waiting, NEW res \in {"nil", "error", "killed", "panic"},
           Exit(res), UNCHANGED <<input, server, serveErr, serveErrors, shutdownErr>>,
           signalled' \in BOOLEAN, listener' \in {"new", "open", "closed", "broken"},
           res = "panic" => Accepted(env) /\ HandlerPanics(Loaded(env))
    PROVE  Inv'
<1>1. Active = {} /\ server = "off"
  BY DEF Inv, Drain, Channel, Active
<1>2. /\ request' \in [Requests -> {"idle", "active", "done", "dropped"}]
      /\ Active' = {} /\ main' = "returned" /\ result' = res
      /\ \A r \in Requests : request'[r] = request[r]
  BY <1>1, ExitRequests DEF Inv
<1>3. TypeOK'
  BY <1>2 DEF Inv, TypeOK, input
<1>4. Channel' /\ GoroutineJoined' /\ FailureReported'
  BY <1>1, <1>2 DEF Inv, Channel, GoroutineJoined, FailureReported, Waiting
<1>5. Drain' /\ CleanExitDropsNothing'
  BY <1>2 DEF Inv, Drain, CleanExitDropsNothing, Waiting
<1>6. Checked'
  BY <1>2 DEF Inv, Checked, input
<1> QED
  BY <1>3, <1>4, <1>5, <1>6 DEF Inv

\* So does an exit of serve, once it has the goroutine's error.
LEMMA ServeExit ==
    ASSUME Inv, main \in {"selecting", "joining"}, serveErrors # <<>>,
           NEW res \in {"nil", "error"}, Exit(res), serveErrors' = <<>>,
           UNCHANGED <<input, signalled, serving, shutdownErr>>,
           res = "nil" => serveErr # "failed" /\ Active = {}
    PROVE  Inv'
<1>1. server = "exited" /\ serveErr # "none"
  BY DEF Inv, TypeOK, Channel
<1>2. /\ request' \in [Requests -> {"idle", "active", "done", "dropped"}]
      /\ Active' = {} /\ main' = "returned" /\ result' = res
      /\ Active = {} => \A r \in Requests : request'[r] = request[r]
  BY ExitRequests DEF Inv
<1>3. TypeOK'
  BY <1>2 DEF Inv, TypeOK, input, serving
<1>4. Channel' /\ GoroutineJoined' /\ FailureReported'
  BY <1>1, <1>2 DEF Inv, TypeOK, Channel, GoroutineJoined, FailureReported,
                    Waiting, serving
<1>5. Drain'
  BY <1>2 DEF Inv, Drain, Waiting
<1>6. ASSUME res = "nil", NEW r \in Requests PROVE request'[r] \in {"idle", "done"}
  <2>1. request'[r] = request[r] /\ request[r] # "active"
    BY <1>2, <1>6 DEF Active
  <2>2. request[r] # "dropped"
    BY DEF Inv, Drain
  <2> QED
    BY <2>1, <2>2 DEF Inv, TypeOK
<1>7. Checked'
  BY <1>2 DEF Inv, Checked, input
<1> QED
  BY <1>2, <1>3, <1>4, <1>5, <1>6, <1>7 DEF Inv, CleanExitDropsNothing

\* Each step keeps the invariant.
LEMMA InvNext == Inv /\ [Next]_vars => Inv'
<1> SUFFICES ASSUME Inv, [Next]_vars PROVE Inv'
  OBVIOUS
<1> USE DEF input, process, serving
<1>1. CASE Signal
  <2>1. CASE main = "loading"
    <3>1. Exit("killed") /\ signalled' = TRUE
      BY <1>1, <2>1 DEF Signal
    <3> QED
      BY <1>1, <2>1, <3>1, EarlyExit DEF Signal, Waiting, Inv, TypeOK
  <2>2. CASE main # "loading"
    BY <1>1, <2>2 DEF Signal, Inv, TypeOK, Channel, Drain, Checked, Active, Waiting,
       CleanExitDropsNothing, FailureReported, GoroutineJoined
  <2> QED
    BY <2>1, <2>2
<1>2. CASE LoadConfig
  <2>1. CASE Exit("error")
    BY <1>2, <2>1, EarlyExit DEF LoadConfig, Waiting, Inv, TypeOK
  <2>2. CASE ~Exit("error")
    <3>1. /\ Accepted(env) /\ main = "loading"
          /\ main' \in {"stdio", "starting"}
          /\ UNCHANGED <<result, request, input, signalled, serving, serveErrors,
                         shutdownErr>>
      BY <1>2, <2>2 DEF LoadConfig
    <3> QED
      BY <3>1 DEF Inv, TypeOK, Channel, Drain, Checked, Active, Waiting,
         CleanExitDropsNothing, FailureReported, GoroutineJoined
  <2> QED
    BY <2>1, <2>2
<1>3. CASE ListenFails
  BY <1>3, EarlyExit DEF ListenFails, Waiting, Inv, TypeOK
<1>4. CASE StartServing
  <2>1. CASE HandlerPanics(Loaded(env))
    <3>1. Accepted(env)
      BY <1>4 DEF StartServing, Inv, Checked
    <3>2. Exit("panic") /\ UNCHANGED server /\ listener' = "open"
      BY <1>4, <2>1 DEF StartServing
    <3> QED
      BY <1>4, <2>1, <3>1, <3>2, EarlyExit DEF StartServing, Waiting, Inv, TypeOK
  <2>2. CASE ~HandlerPanics(Loaded(env))
    BY <1>4, <2>2 DEF StartServing, Inv, TypeOK, Channel, Drain, Checked, Active,
       Waiting, CleanExitDropsNothing, FailureReported, GoroutineJoined
  <2> QED
    BY <2>1, <2>2
<1>5. CASE ListenerBreaks
  BY <1>5 DEF ListenerBreaks, Inv, TypeOK, Channel, Drain, Checked, Active,
     Waiting, CleanExitDropsNothing, FailureReported, GoroutineJoined
<1>6. ASSUME NEW failed \in BOOLEAN, StdioEnds(failed) PROVE Inv'
  BY <1>6, EarlyExit DEF StdioEnds, Waiting, Inv, TypeOK
<1>7. ASSUME NEW r \in Requests, Accept(r) PROVE Inv'
  BY <1>7 DEF Accept, Inv, TypeOK, Channel, Drain, Checked, Active,
     Waiting, CleanExitDropsNothing, FailureReported, GoroutineJoined
<1>8. ASSUME NEW r \in Requests, Complete(r) PROVE Inv'
  BY <1>8 DEF Complete, Inv, TypeOK, Channel, Drain, Checked, Active,
     Waiting, CleanExitDropsNothing, FailureReported, GoroutineJoined
<1>9. CASE BeginServe
  BY <1>9 DEF BeginServe, Inv, TypeOK, Channel, Drain, Checked, Active,
     Waiting, CleanExitDropsNothing, FailureReported, GoroutineJoined
<1>10. CASE ServeReturns
  BY <1>10 DEF ServeReturns, Inv, TypeOK, Channel, Drain, Checked, Active,
     Waiting, CleanExitDropsNothing, FailureReported, GoroutineJoined
<1>11. CASE SendServeError
  <2>1. server = "sending" /\ serveErrors = <<>> /\ serveErr # "none"
    BY <1>11 DEF SendServeError, Inv, Channel
  <2>2. serveErrors' = <<serveErr>>
    BY <1>11, <2>1 DEF SendServeError
  <2> QED
    BY <1>11, <2>1, <2>2 DEF SendServeError, Inv, TypeOK, Channel, Drain, Checked,
       Active, Waiting, CleanExitDropsNothing, FailureReported, GoroutineJoined
<1>12. CASE SelectServeError
  <2>1. server = "exited" /\ serveErrors = <<serveErr>>
    BY <1>12 DEF SelectServeError, Inv, TypeOK, Channel
  <2>2. serveErrors[1] # "closed"
    BY <1>12, <2>1 DEF SelectServeError, Inv, Channel
  <2> QED
    BY <1>12, <2>2, ServeExit DEF SelectServeError
<1>13. CASE SelectSignal
  BY <1>13 DEF SelectSignal, Inv, TypeOK, Channel, Drain, Checked, Active,
     Waiting, CleanExitDropsNothing, FailureReported, GoroutineJoined
<1>14. CASE Drained
  BY <1>14 DEF Drained, ShutdownReturns, Inv, TypeOK, Channel, Drain, Checked,
     Active, Waiting, CleanExitDropsNothing, FailureReported, GoroutineJoined
<1>15. CASE DrainTimeout
  BY <1>15 DEF DrainTimeout, ShutdownReturns, Inv, TypeOK, Channel, Drain, Checked,
     Active, Waiting, CleanExitDropsNothing, FailureReported, GoroutineJoined
<1>16. CASE Join
  <2>1. server = "exited" /\ serveErrors = <<serveErr>>
    BY <1>16 DEF Join, JoinAnd, Inv, TypeOK, Channel
  <2> DEFINE failed == shutdownErr # "nil" \/ serveErrors[1] # "closed"
             res == IF failed THEN "error" ELSE "nil"
  <2>2. /\ main = "joining" /\ serveErrors # <<>> /\ serveErrors' = <<>>
        /\ Exit(res) /\ UNCHANGED <<input, signalled, serving, shutdownErr>>
    BY <1>16 DEF Join, JoinAnd
  <2>3. res = "nil" => serveErr # "failed" /\ Active = {}
    BY <2>1, <2>2 DEF Inv, Drain
  <2> QED
    BY <2>2, <2>3, ServeExit
<1>17. CASE UNCHANGED vars
  BY <1>17 DEF vars, Inv, TypeOK, Channel, Drain, Checked, Active,
     Waiting, CleanExitDropsNothing, FailureReported, GoroutineJoined
<1> QED
  BY <1>1, <1>2, <1>3, <1>4, <1>5, <1>6, <1>7, <1>8, <1>9, <1>10, <1>11, <1>12,
     <1>13, <1>14, <1>15, <1>16, <1>17 DEF Next, Serving, Serve

\* The invariant holds throughout the life of the process.
LEMMA InvHolds == Spec => []Inv
<1>1. Init => Inv
  BY InvInit
<1> QED
  BY <1>1, InvNext, PTL DEF Spec

----------------------------------------------------------------------------

\* A clean exit drops no request: serve returns nil only after a drain that
\* left nothing in progress, for every number of requests.
THEOREM CleanExitHolds == Spec => []CleanExitDropsNothing
BY InvHolds, PTL DEF Inv

\* A failure of the listener always ends in an error, whichever case of the
\* select came first.
THEOREM FailureHolds == Spec => []FailureReported
BY InvHolds, PTL DEF Inv

\* serve never leaves its goroutine behind.
THEOREM JoinHolds == Spec => []GoroutineJoined
BY InvHolds, PTL DEF Inv

\* No accepted list of origins makes newHandler panic, whatever the
\* environment.
THEOREM NoPanicHolds == Spec => []NoPanicAtStart
<1>1. Inv => NoPanicAtStart
  BY OriginsTrustable DEF Inv, Checked, NoPanicAtStart, HandlerPanics, MetadataPathInvalid
<1> QED
  BY <1>1, InvHolds, PTL
====
