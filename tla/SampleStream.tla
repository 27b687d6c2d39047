---- MODULE SampleStream ----
(***************************************************************************)
(* The sample_stream tool: the handler of internal/mcpserver/feeds.go and  *)
(* Client.SampleStream of internal/synthient/feeds.go, against an upstream *)
(* feed that sends newline-delimited JSON for as long as it likes and can  *)
(* fall silent, end or break at any byte.                                  *)
(*                                                                         *)
(* Only the tool's own deadline ends a sample of a feed that never stops:  *)
(* the client's timeout is switched off for streams.  When a read fails,   *)
(* bufio.Scanner hands out what is in its buffer as a last line before it  *)
(* reports the error.                                                      *)
(***************************************************************************)
EXTENDS Integers, Sequences

CONSTANTS
    DefaultCount, MaxCount,   \* defaultSampleCount, maxSampleCount
    OutputLimit,              \* maxSampleOutputBytes, in units of size
    ReadLimit,                \* maxStreamReadBytes, in units of size
    MaxLine                   \* maxStreamEventBytes, in units of size

ASSUME SampleAssumption ==
    /\ MaxCount \in Nat \ {0} /\ DefaultCount \in 1 .. MaxCount
    /\ OutputLimit \in Nat /\ ReadLimit \in Nat /\ MaxLine \in Nat \ {0}

\* A line, once trimmed: an event that passes the filters or does not, no
\* JSON object, or nothing.  A blank line has no bytes.
Lines == [kind : {"match", "other", "bad"}, size : 1 .. MaxLine]
         \cup {[kind |-> "blank", size |-> 0]}

\* The beginning of an event that was cut off: never a JSON object.
Cuts == [kind : {"cut"}, size : 1 .. MaxLine]

NoLine == [kind |-> "none", size |-> 0]

\* What can be in the buffer when the body ends: nothing, a line that lacks
\* only its newline, or a piece of one.
Tails == Lines \cup Cuts \cup {NoLine}

\* How the body of the response can end.
Endings == {"eof", "deadline", "canceled", "network"}

VARIABLES
    phase,        \* idle, building, requesting, reading, returned
    count,        \* events asked for
    source,       \* the response: none, failed, refused, open, toolong, or how it ended
    tail,         \* what the scanner still holds after the body has ended
    events,       \* number of events collected
    matched,      \* history: matching events taken from the scanner
    readBytes, outputBytes,
    truncated,
    result,       \* none, ok or error: what SampleStream returns
    delivered,    \* number of events the tool hands to its caller
    observed      \* ObserveUpstream calls: sequence of transport or status

vars == <<phase, count, source, tail, events, matched, readBytes, outputBytes,
          truncated, result, delivered, observed>>

TypeOK ==
    /\ phase \in {"idle", "building", "requesting", "reading", "returned"}
    /\ count \in 0 .. MaxCount
    /\ source \in {"none", "failed", "refused", "open", "toolong"} \cup Endings
    /\ tail \in Tails
    /\ events \in Nat /\ matched \in Nat /\ delivered \in Nat
    /\ readBytes \in Nat /\ outputBytes \in Nat
    /\ truncated \in BOOLEAN
    /\ result \in {"none", "ok", "error"}
    /\ observed \in Seq({"transport", "status"})

Init ==
    /\ phase = "idle"
    /\ count = 0
    /\ source = "none"
    /\ tail = NoLine
    /\ events = 0 /\ matched = 0 /\ delivered = 0
    /\ readBytes = 0 /\ outputBytes = 0
    /\ truncated = FALSE
    /\ result = "none"
    /\ observed = <<>>

----------------------------------------------------------------------------

\* SampleStream returns after a response was received: its deferred observe
\* runs, and the tool keeps the events only when there is no error.
ReturnFrom(res, trunc, n) ==
    /\ phase' = "returned"
    /\ result' = res
    /\ truncated' = trunc
    /\ delivered' = IF res = "ok" THEN n ELSE 0
    /\ observed' = Append(observed, "status")

Continue ==
    /\ phase' = phase
    /\ UNCHANGED <<result, truncated, delivered, observed>>

\* The tool validates its arguments: 0 asks for the default count; the other
\* arguments (stream, timeout, filters) are valid or not.
Call(n, valid) ==
    /\ phase = "idle"
    /\ IF valid /\ n \in 0 .. MaxCount
       THEN /\ phase' = "building"
            /\ count' = (IF n = 0 THEN DefaultCount ELSE n)
            /\ UNCHANGED result
       ELSE /\ phase' = "returned"
            /\ result' = "error"
            /\ UNCHANGED count
    /\ UNCHANGED <<source, tail, events, matched, readBytes, outputBytes,
                   truncated, delivered, observed>>

\* newRequest: nothing is sent when the client is not configured or the path
\* does not stay below the base URL.
NewRequest(built) ==
    /\ phase = "building"
    /\ phase' = IF built THEN "requesting" ELSE "returned"
    /\ result' = IF built THEN result ELSE "error"
    /\ UNCHANGED <<count, source, tail, events, matched, readBytes,
                   outputBytes, truncated, delivered, observed>>

\* doer.Do fails: no connection, or the deadline before the headers.
DoFailsObserving(calls) ==
    /\ phase = "requesting"
    /\ phase' = "returned"
    /\ result' = "error"
    /\ source' = "failed"
    /\ observed' = observed \o calls
    /\ UNCHANGED <<count, tail, events, matched, readBytes, outputBytes,
                   truncated, delivered>>

\* The deferred observation registered before the error is handled.
DoFailsTwice == DoFailsObserving(<<"transport", "transport">>)

DoFails == DoFailsObserving(<<"transport">>)

\* A status outside 2xx.
BadStatus ==
    /\ phase = "requesting"
    /\ ReturnFrom("error", FALSE, 0)
    /\ source' = "refused"
    /\ UNCHANGED <<count, tail, events, matched, readBytes,
                   outputBytes>>

Connected ==
    /\ phase = "requesting"
    /\ phase' = "reading"
    /\ source' = "open"
    /\ UNCHANGED <<count, tail, events, matched, readBytes, outputBytes,
                   truncated, result, delivered, observed>>

\* A limit ends the sample without saying so.
CutSilently == ReturnFrom("ok", FALSE, events)

\* A limit on bytes ends the sample early.
CutShort == ReturnFrom("ok", TRUE, events)

\* One event too many.
EnoughLate(n) == n > count

Enough(n) == n >= count

\* The body of the scanner loop, for one line.
Take(line) ==
    /\ readBytes' = readBytes + line.size
    /\ matched' = matched + (IF line.kind = "match" THEN 1 ELSE 0)
    /\ \/ /\ readBytes' > ReadLimit
          /\ CutShort
          /\ UNCHANGED <<events, outputBytes>>
       \/ /\ readBytes' <= ReadLimit
          /\ line.kind \in {"bad", "cut"}
          /\ ReturnFrom("error", FALSE, events)
          /\ UNCHANGED <<events, outputBytes>>
       \/ /\ readBytes' <= ReadLimit
          /\ line.kind \in {"blank", "other"}
          /\ Continue
          /\ UNCHANGED <<events, outputBytes>>
       \/ /\ readBytes' <= ReadLimit
          /\ line.kind = "match"
          /\ outputBytes + line.size > OutputLimit
          /\ CutShort
          /\ UNCHANGED <<events, outputBytes>>
       \/ /\ readBytes' <= ReadLimit
          /\ line.kind = "match"
          /\ outputBytes + line.size <= OutputLimit
          /\ outputBytes' = outputBytes + line.size
          /\ events' = events + 1
          /\ IF Enough(events') THEN ReturnFrom("ok", FALSE, events') ELSE Continue

\* A complete line arrives while the body is open.
ScanLine(line) ==
    /\ phase = "reading"
    /\ source = "open"
    /\ Take(line)
    /\ UNCHANGED <<count, source, tail>>

\* The body ends for a reason of the feed's, the caller's or the network's,
\* between two lines or in the middle of one.
BreakOff(ending, rest) ==
    /\ phase = "reading"
    /\ source = "open"
    /\ source' = ending
    /\ tail' = rest
    /\ UNCHANGED <<phase, count, events, matched, readBytes, outputBytes,
                   truncated, result, delivered, observed>>

\* A deadline that never fires: a context without a timeout.
DeadlineNever(rest) ==
    /\ FALSE
    /\ BreakOff("deadline", rest)

\* The context's deadline fires while the scanner waits for the feed.
Deadline(rest) == BreakOff("deadline", rest)

\* A line longer than the scanner's buffer: bufio.ErrTooLong.
TooLong ==
    /\ phase = "reading"
    /\ source = "open"
    /\ source' = "toolong"
    /\ UNCHANGED <<phase, count, tail, events, matched, readBytes,
                   outputBytes, truncated, result, delivered, observed>>

\* Scan returns what the buffer holds as a last line.
ScanTail ==
    /\ phase = "reading"
    /\ source # "open"
    /\ tail # NoLine
    /\ Take(tail)
    /\ tail' = NoLine
    /\ UNCHANGED <<count, source>>

\* Scan returns false: the end of the context and of the feed are no errors.
ScanEnd ==
    /\ phase = "reading"
    /\ source # "open"
    /\ tail = NoLine
    /\ ReturnFrom(IF source \in {"network", "toolong"} THEN "error" ELSE "ok",
                  FALSE, events)
    /\ UNCHANGED <<count, source, tail, events, matched, readBytes,
                   outputBytes>>

\* The sample once its request is built.
Answered == DoFails \/ BadStatus \/ Connected

Sampling ==
    \/ Answered
    \/ \E line \in Lines : ScanLine(line)
    \/ \E rest \in Tails :
          \/ \E ending \in Endings \ {"deadline"} : BreakOff(ending, rest)
          \/ Deadline(rest)
    \/ TooLong \/ ScanTail \/ ScanEnd

Next ==
    \/ \E n \in 0 .. MaxCount + 1, valid \in BOOLEAN : Call(n, valid)
    \/ \E built \in BOOLEAN : NewRequest(built)
    \/ Sampling

Spec == Init /\ [][Next]_vars

----------------------------------------------------------------------------

\* The result never outgrows what the tool promises, and the reader never
\* counts more than the read limit and one line (a line counts without its end
\* and the spaces around it), whatever mix of matching, filtered, blank and
\* oversized lines the feed sends and wherever it stops.
SampleBounded ==
    /\ events <= count /\ count <= MaxCount
    /\ outputBytes <= OutputLimit
    /\ readBytes <= ReadLimit + MaxLine
    /\ phase = "reading" => events < count

\* A sample that is not marked truncated has every matching event that was
\* taken from the feed before it ended; an event is left out only by a result
\* that says so.
NothingDropped ==
    (phase = "returned" /\ result = "ok") =>
        /\ delivered = events
        /\ ~truncated => delivered = matched
        /\ truncated => matched - delivered \in {0, 1} /\ delivered < count

\* Whatever happens to a call that reached the network, the upstream
\* telemetry counts it exactly once, and one that did not, never.
ObservedOnce ==
    phase = "returned" => Len(observed) = (IF source = "none" THEN 0 ELSE 1)

\* A sample that was started ends, even of a feed that sends blank or filtered
\* lines for ever or nothing at all.
SampleEnds == phase = "building" ~> phase = "returned"

\* "Returns at most 50 filtered events, 1 MiB of output, or 15 seconds of live
\* data" (README.md): reaching the deadline is one of the ways a sample is
\* complete, so what was collected until then is returned.
DeadlineKeepsSample ==
    (phase = "returned" /\ source = "deadline") =>
        result = "ok" /\ delivered = events
====
