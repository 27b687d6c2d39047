---- MODULE Lifecycle ----
(***************************************************************************)
(* The life of the server process (cmd/server/main.go): main loads the     *)
(* configuration; run listens and builds the handler; serve starts the     *)
(* goroutine that calls http.Server.Serve, waits for it or for a signal,   *)
(* drains the requests in progress with a deadline and joins the goroutine *)
(* through the channel serveErrors.  The stdio command runs one MCP server *)
(* on standard input and output instead.                                   *)
(*                                                                         *)
(* http.Server is external and modelled by its contract: Shutdown closes   *)
(* the listeners Serve has registered, waits for their accept loops to     *)
(* leave, then for the requests in progress or its context; Close drops    *)
(* them; Serve returns ErrServerClosed once Shutdown has begun and the     *)
(* listener's error before.                                                *)
(***************************************************************************)
EXTENDS Config, Sequences

CONSTANTS Requests,
          Envs          \* the environments main may find

VARIABLES
    command,      \* serve or stdio
    env,          \* the environment
    main,         \* where the main goroutine is
    result,       \* what the process ends with: none, nil, error, panic, killed
    signalled,    \* the context of signal.NotifyContext is done
    listener,     \* new, open, closed or broken
    server,       \* the goroutine: off, started, accepting, sending, exited
    serveErr,     \* what Serve returned: none, closed or failed
    serveErrors,  \* the channel, of capacity one
    shutdownErr,  \* none, nil or deadline
    request       \* each request: idle, active, done or dropped

input == <<command, env>>
process == <<main, result, signalled>>
serving == <<listener, server, serveErr>>
vars == <<input, process, serving, serveErrors, shutdownErr, request>>

Active == {r \in Requests : request[r] = "active"}

TypeOK ==
    /\ command \in {"serve", "stdio"}
    /\ main \in {"loading", "starting", "selecting", "draining", "joining",
                 "stdio", "returned"}
    /\ result \in {"none", "nil", "error", "panic", "killed"}
    /\ signalled \in BOOLEAN
    /\ listener \in {"new", "open", "closed", "broken"}
    /\ server \in {"off", "started", "accepting", "sending", "exited"}
    /\ serveErr \in {"none", "closed", "failed"}
    /\ serveErrors \in {<<>>} \cup {<<e>> : e \in {"closed", "failed"}}
    /\ shutdownErr \in {"none", "nil", "deadline"}
    /\ request \in [Requests -> {"idle", "active", "done", "dropped"}]

Init ==
    /\ command \in {"serve", "stdio"} /\ env \in Envs
    /\ main = "loading" /\ result = "none" /\ signalled = FALSE
    /\ listener = "new" /\ server = "off" /\ serveErr = "none"
    /\ serveErrors = <<>> /\ shutdownErr = "none"
    /\ request = [r \in Requests |-> "idle"]

----------------------------------------------------------------------------
(* Starting.                                                               *)

\* The process ends: whatever is still in progress is dropped.
Exit(res) ==
    /\ main' = "returned"
    /\ result' = res
    /\ request' = [r \in Requests |->
                      IF request[r] = "active" THEN "dropped" ELSE request[r]]

\* A signal ends the context, or the process before there is one.
Signal ==
    /\ main # "returned" /\ ~signalled
    /\ signalled' = TRUE
    /\ IF main = "loading" THEN Exit("killed")
       ELSE UNCHANGED <<main, result, request>>
    /\ UNCHANGED <<input, serving, serveErrors, shutdownErr>>

\* config.Load; runStdioCommand wants the key first, in every mode.
LoadConfig ==
    /\ main = "loading"
    /\ IF /\ Accepted(env)
          /\ command = "stdio" => BoundedKey(env)
       THEN /\ main' = IF command = "stdio" THEN "stdio" ELSE "starting"
            /\ UNCHANGED <<result, request>>
       ELSE Exit("error")
    /\ UNCHANGED <<input, signalled, serving, serveErrors, shutdownErr>>

\* runStdio: the input ends, the context is done, or the transport fails.
StdioEnds(failed) ==
    /\ main = "stdio"
    /\ Exit(IF failed THEN "error" ELSE "nil")
    /\ UNCHANGED <<input, signalled, serving, serveErrors, shutdownErr>>

\* run: net.Listen fails.
ListenFails ==
    /\ main = "starting"
    /\ Exit("error")
    /\ UNCHANGED <<input, signalled, serving, serveErrors, shutdownErr>>

\* resourceMetadataPath gives mux.Handle something that is no pattern.
MetadataPathInvalid(c) == c.oauth /\ c.resource.form = "braces"

\* newHandler panics on it, and on an origin it cannot trust.
HandlerPanics(c) ==
    MetadataPathInvalid(c) \/ \E u \in c.origins : ~Trustable(u)

\* run: the listener is open, the handler is built, serve starts the goroutine.
StartServing ==
    /\ main = "starting"
    /\ listener' = "open"
    /\ IF HandlerPanics(Loaded(env))
       THEN Exit("panic") /\ UNCHANGED server
       ELSE /\ main' = "selecting" /\ server' = "started"
            /\ UNCHANGED <<result, request>>
    /\ UNCHANGED <<input, signalled, serveErr, serveErrors, shutdownErr>>

----------------------------------------------------------------------------
(* http.Server.                                                            *)

\* Serve registers the listener, unless Shutdown was called before it came to
\* run: then it closes the listener and returns ErrServerClosed at once.
BeginServe ==
    /\ server = "started"
    /\ IF main = "selecting"
       THEN /\ server' = "accepting"
            /\ UNCHANGED <<serveErr, listener>>
       ELSE /\ server' = "sending"
            /\ serveErr' = "closed"
            /\ listener' = "closed"
    /\ UNCHANGED <<input, process, serveErrors, shutdownErr, request>>

Accept(r) ==
    /\ server = "accepting" /\ listener = "open" /\ main # "returned"
    /\ request[r] = "idle"
    /\ request' = [request EXCEPT ![r] = "active"]
    /\ UNCHANGED <<input, process, serving, serveErrors, shutdownErr>>

Complete(r) ==
    /\ request[r] = "active"
    /\ request' = [request EXCEPT ![r] = "done"]
    /\ UNCHANGED <<input, process, serving, serveErrors, shutdownErr>>

\* The listener breaks under Serve.
ListenerBreaks ==
    /\ listener = "open" /\ main # "returned"
    /\ listener' = "broken"
    /\ UNCHANGED <<input, process, server, serveErr, serveErrors, shutdownErr,
                   request>>

\* Serve returns: ErrServerClosed when Shutdown has begun, else the error.
ServeReturns ==
    /\ server = "accepting" /\ listener # "open"
    /\ server' = "sending"
    /\ serveErr' = IF main = "draining" THEN "closed" ELSE "failed"
    /\ UNCHANGED <<input, process, listener, serveErrors, shutdownErr, request>>

\* serveErrors <- ...; there is always room for one.
SendServeError ==
    /\ server = "sending"
    /\ Len(serveErrors) < 1
    /\ server' = "exited"
    /\ serveErrors' = Append(serveErrors, serveErr)
    /\ UNCHANGED <<input, process, listener, serveErr, shutdownErr, request>>

----------------------------------------------------------------------------
(* serve.                                                                  *)

\* select: the goroutine's error comes first.
SelectServeError ==
    /\ main = "selecting"
    /\ serveErrors # <<>>
    /\ serveErrors' = <<>>
    /\ Exit(IF serveErrors[1] = "closed" THEN "nil" ELSE "error")
    /\ UNCHANGED <<input, signalled, serving, shutdownErr>>

\* select: the signal comes first; Shutdown closes the listener that Serve has
\* registered, if it has.
SelectSignal ==
    /\ main = "selecting"
    /\ signalled
    /\ main' = "draining"
    /\ listener' = IF server = "started" THEN listener ELSE "closed"
    /\ UNCHANGED <<input, result, signalled, server, serveErr, serveErrors,
                   shutdownErr, request>>

\* server.Shutdown returns, once no accept loop is left.
ShutdownReturns(err) ==
    /\ main = "draining"
    /\ server # "accepting"
    /\ shutdownErr' = err
    /\ main' = "joining"
    /\ UNCHANGED <<input, result, signalled, serving, serveErrors, request>>

\* Shutdown returns nil whatever is in progress.
DrainNothing == ShutdownReturns("nil")

\* Shutdown returns nil: nothing is in progress.
Drained == Active = {} /\ ShutdownReturns("nil")

\* Shutdown without a deadline: context.Background().
DrainForever == FALSE /\ ShutdownReturns("deadline")

\* Shutdown returns its context's error after shutdownTimeout.
DrainTimeout == ShutdownReturns("deadline")

\* serve receives the goroutine's error, if it waits for it, and returns.
JoinAnd(waits, failed) ==
    /\ main = "joining"
    /\ waits => serveErrors # <<>>
    /\ serveErrors' = <<>>
    /\ Exit(IF failed THEN "error" ELSE "nil")
    /\ UNCHANGED <<input, signalled, serving, shutdownErr>>

\* A clean drain hides Serve's own error.
JoinIgnoring == JoinAnd(TRUE, shutdownErr # "nil")

\* A join that does not wait for the goroutine.
JoinNothing == JoinAnd(FALSE, shutdownErr # "nil")

\* serveErr := <-serveErrors; after a failed drain the server is closed, and
\* after a clean one Serve's own failure is still an error.
Join == JoinAnd(TRUE, shutdownErr # "nil" \/ serveErrors[1] # "closed")

Serving == BeginServe \/ ServeReturns \/ SendServeError

Serve ==
    \/ SelectServeError \/ SelectSignal
    \/ Drained \/ DrainTimeout
    \/ Join

Next ==
    \/ Signal \/ LoadConfig \/ ListenFails \/ StartServing \/ ListenerBreaks
    \/ \E failed \in BOOLEAN : StdioEnds(failed)
    \/ \E r \in Requests : Accept(r) \/ Complete(r)
    \/ Serving \/ Serve

Spec == Init /\ [][Next]_vars

\* main, serve and its goroutine run on, the shutdown deadline fires, and the
\* MCP server on stdio ends when its context does; requests need not complete,
\* signals need not come and the input need not end.
FairSpec ==
    /\ Spec
    /\ WF_vars(Serving) /\ WF_vars(Serve)
    /\ WF_vars(ListenFails \/ StartServing)
    /\ WF_vars(signalled /\ StdioEnds(FALSE))

----------------------------------------------------------------------------
(* What a process that has started promises.                               *)

\* Configuration and handler agree on what an origin is: an origin LoadFrom
\* accepts never makes newHandler panic.  The one accepted setting that does
\* is an MCP_RESOURCE_URL whose path is no pattern of the mux.
NoPanicAtStart == result = "panic" => Loaded(env).resource.form = "braces"

\* A clean exit is a clean exit: when serve returns nil every request that was
\* accepted has been answered, none was cut off.
CleanExitDropsNothing ==
    result = "nil" => \A r \in Requests : request[r] \in {"idle", "done"}

\* A listener that failed by itself is reported, even when the signal wins the
\* select and the drain that follows succeeds.
FailureReported ==
    (main = "returned" /\ serveErr = "failed") => result = "error"

\* serve never returns with its goroutine still running: the one error it
\* sends has been received, and nothing can be accepted afterwards.
GoroutineJoined ==
    main = "returned" => server \in {"off", "exited"} /\ serveErrors = <<>>

\* A process that has a signal context returns after a signal, whatever it was
\* doing: requests in progress may never end by themselves, and standard input
\* may never be closed.
SignalStops == (signalled /\ main # "loading") ~> main = "returned"
====
