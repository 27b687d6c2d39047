---- MODULE SampleStreamProofs ----
(***************************************************************************)
(* Theorems about SampleStream, for every count, output limit, read limit  *)
(* and line length, and for feeds of any length.                           *)
(***************************************************************************)
EXTENDS SampleStream, SequenceTheorems, TLAPS

\* Before the response: nothing has been read, collected or observed.
Untouched ==
    phase \in {"idle", "building", "requesting"} =>
        /\ source = "none" /\ observed = <<>>
        /\ events = 0 /\ matched = 0 /\ readBytes = 0 /\ outputBytes = 0

\* While it is read: every matching event is collected, no limit is reached.
Reading ==
    phase = "reading" =>
        /\ source \in {"open", "toolong"} \cup Endings /\ observed = <<>>
        /\ matched = events /\ events < count /\ readBytes <= ReadLimit

Asked == phase \in {"building", "requesting", "reading"} => count \in 1 .. MaxCount

Inv ==
    /\ TypeOK /\ Untouched /\ Reading /\ Asked
    /\ SampleBounded /\ NothingDropped /\ ObservedOnce

----------------------------------------------------------------------------

\* The telemetry after one observation.
LEMMA Once ==
    ASSUME NEW x \in {"transport", "status"}
    PROVE  /\ Append(<<>>, x) \in Seq({"transport", "status"})
           /\ Len(Append(<<>>, x)) = 1
           /\ <<>> \o <<x>> \in Seq({"transport", "status"})
           /\ Len(<<>> \o <<x>>) = 1
           /\ Len(<<>>) = 0
<1>1. <<>> \in Seq({"transport", "status"}) /\ Len(<<>>) = 0
  BY EmptySeq
<1> QED
  BY <1>1

\* The size of a line, and of a piece of one.
LEMMA LineSize ==
    ASSUME NEW line \in Lines \cup Cuts
    PROVE  line.size \in Nat /\ line.size <= MaxLine
BY SampleAssumption DEF Lines, Cuts

\* A call starts with nothing read, collected or observed.
LEMMA InvInit == Init => Inv
<1> SUFFICES ASSUME Init PROVE Inv
  OBVIOUS
<1>1. <<>> \in Seq({"transport", "status"}) /\ Len(<<>>) = 0
  BY EmptySeq
<1>2. TypeOK
  <2>1. tail \in Tails
    BY DEF Init, Tails
  <2>2. count \in 0 .. MaxCount
    BY SampleAssumption DEF Init
  <2> QED
    BY <1>1, <2>1, <2>2 DEF Init, TypeOK
<1>3. Untouched /\ Reading /\ Asked /\ NothingDropped /\ ObservedOnce
  BY DEF Init, Untouched, Reading, Asked, NothingDropped, ObservedOnce
<1>4. SampleBounded
  BY SampleAssumption DEF Init, SampleBounded
<1> QED
  BY <1>2, <1>3, <1>4 DEF Inv

\* A return after a response keeps the invariant, when what it delivers is
\* complete or marked.
LEMMA ReturnKeeps ==
    ASSUME Inv, phase \in {"requesting", "reading"}, observed = <<>>,
           phase' = "returned", result' \in {"ok", "error"}, truncated' \in BOOLEAN,
           delivered' = (IF result' = "ok" THEN events' ELSE 0),
           observed' = Append(observed, "status"), count' = count,
           events' \in Nat, matched' \in Nat, readBytes' \in Nat, outputBytes' \in Nat,
           source' \in {"refused", "open", "toolong"} \cup Endings, tail' \in Tails,
           events' <= count, outputBytes' <= OutputLimit,
           readBytes' <= ReadLimit + MaxLine,
           result' = "ok" =>
               IF truncated' THEN matched' - events' \in {0, 1} /\ events' < count
                             ELSE matched' = events'
    PROVE  Inv'
<1>1. /\ observed' \in Seq({"transport", "status"}) /\ Len(observed') = 1
  BY Once
<1>2. TypeOK'
  BY <1>1 DEF Inv, TypeOK
<1>3. Untouched' /\ Reading' /\ Asked'
  BY DEF Untouched, Reading, Asked
<1>4. SampleBounded' /\ NothingDropped'
  BY DEF Inv, TypeOK, SampleBounded, NothingDropped
<1>5. ObservedOnce'
  BY <1>1 DEF ObservedOnce, Endings
<1> QED
  BY <1>2, <1>3, <1>4, <1>5 DEF Inv

\* One line of the feed keeps it, whatever limit the line reaches.
LEMMA TakeKeeps ==
    ASSUME Inv, phase = "reading", NEW line \in Lines \cup Cuts, Take(line),
           UNCHANGED <<count, source>>, tail' \in Tails
    PROVE  Inv'
<1>1. line.size \in Nat /\ line.size <= MaxLine
  BY LineSize
<1>2. /\ events \in Nat /\ matched = events /\ readBytes \in Nat /\ outputBytes \in Nat
      /\ events < count /\ readBytes <= ReadLimit /\ outputBytes <= OutputLimit
      /\ count \in Nat /\ observed = <<>>
      /\ source \in {"open", "toolong"} \cup Endings
  BY SampleAssumption DEF Inv, TypeOK, Reading, SampleBounded
<1>3. /\ readBytes' \in Nat /\ readBytes' <= ReadLimit + MaxLine
      /\ matched' \in Nat
      /\ matched' = IF line.kind = "match" THEN events + 1 ELSE events
  BY <1>1, <1>2, SampleAssumption DEF Take
<1>4. CASE CutShort /\ UNCHANGED <<events, outputBytes>>
  <2>1. matched' - events' \in {0, 1}
    BY <1>2, <1>3, <1>4
  <2> QED
    BY <1>2, <1>3, <1>4, <2>1, ReturnKeeps DEF CutShort, ReturnFrom
<1>5. CASE ReturnFrom("error", FALSE, events) /\ UNCHANGED <<events, outputBytes>>
  <2>1. /\ phase' = "returned" /\ result' = "error" /\ truncated' = FALSE
        /\ delivered' = 0 /\ observed' = Append(observed, "status")
        /\ events' = events /\ outputBytes' = outputBytes
    BY <1>5 DEF ReturnFrom
  <2>2. events' \in Nat /\ events' <= count
    BY <1>2, <2>1
  <2> QED
    BY <1>2, <1>3, <2>1, <2>2, ReturnKeeps
<1>6. CASE /\ readBytes' <= ReadLimit /\ line.kind \in {"blank", "other"}
           /\ Continue /\ UNCHANGED <<events, outputBytes>>
  <2>1. matched' = events
    BY <1>3, <1>6
  <2> QED
    BY <1>2, <1>3, <1>6, <2>1 DEF Continue, Inv, TypeOK, Untouched, Reading, Asked,
       SampleBounded, NothingDropped, ObservedOnce
<1>7. CASE /\ readBytes' <= ReadLimit /\ line.kind = "match"
           /\ outputBytes + line.size <= OutputLimit
           /\ outputBytes' = outputBytes + line.size /\ events' = events + 1
           /\ IF Enough(events') THEN ReturnFrom("ok", FALSE, events') ELSE Continue
  <2>1. /\ matched' = events' /\ events' \in Nat /\ events' <= count
        /\ outputBytes' \in Nat /\ outputBytes' <= OutputLimit
    BY <1>1, <1>2, <1>3, <1>7
  <2>2. CASE ReturnFrom("ok", FALSE, events')
    BY <1>2, <1>3, <2>1, <2>2, ReturnKeeps DEF ReturnFrom
  <2>3. CASE ~Enough(events') /\ Continue
    <3>1. events' < count
      BY <1>2, <2>1, <2>3 DEF Enough
    <3> QED
      BY <1>2, <1>3, <1>7, <2>1, <2>3, <3>1 DEF Continue, Inv, TypeOK, Untouched,
         Reading, Asked, SampleBounded, NothingDropped, ObservedOnce
  <2> QED
    BY <1>7, <2>2, <2>3
<1> QED
  BY <1>4, <1>5, <1>6, <1>7 DEF Take

\* Each step keeps the invariant.
LEMMA InvNext == Inv /\ [Next]_vars => Inv'
<1> SUFFICES ASSUME Inv, [Next]_vars PROVE Inv'
  OBVIOUS
<1>0. <<>> \in Seq({"transport", "status"}) /\ Len(<<>>) = 0
  BY EmptySeq
<1>1. ASSUME NEW n \in 0 .. MaxCount + 1, NEW valid \in BOOLEAN, Call(n, valid) PROVE Inv'
  <2>1. phase = "idle" /\ events = 0 /\ outputBytes = 0 /\ readBytes = 0 /\ observed = <<>>
    BY <1>1 DEF Call, Inv, Untouched
  <2>2. CASE valid /\ n \in 0 .. MaxCount
    <3>1. phase' = "building" /\ count' \in 1 .. MaxCount
      BY <1>1, <2>2, SampleAssumption DEF Call
    <3> QED
      BY <1>1, <2>1, <2>2, <3>1, SampleAssumption DEF Call, Inv, TypeOK, Untouched,
         Reading, Asked, SampleBounded, NothingDropped, ObservedOnce
  <2>3. CASE ~(valid /\ n \in 0 .. MaxCount)
    BY <1>0, <1>1, <2>1, <2>3 DEF Call, Inv, TypeOK, Untouched,
       Reading, Asked, SampleBounded, NothingDropped, ObservedOnce
  <2> QED
    BY <2>2, <2>3
<1>2. ASSUME NEW built \in BOOLEAN, NewRequest(built) PROVE Inv'
  <2>1. phase = "building" /\ source = "none" /\ observed = <<>>
    BY <1>2 DEF NewRequest, Inv, Untouched
  <2>2. \/ phase' = "requesting" /\ result' = result
        \/ phase' = "returned" /\ result' = "error"
    BY <1>2 DEF NewRequest
  <2> QED
    BY <1>0, <1>2, <2>1, <2>2 DEF NewRequest, Inv, TypeOK, Untouched, Reading,
       Asked, SampleBounded, NothingDropped, ObservedOnce
<1>3. CASE DoFails
  <2>1. observed = <<>> /\ observed' = observed \o <<"transport">>
    BY <1>3 DEF DoFails, DoFailsObserving, Inv, Untouched
  <2>2. observed' \in Seq({"transport", "status"}) /\ Len(observed') = 1
    BY <2>1, Once
  <2> QED
    BY <1>3, <2>2 DEF DoFails, DoFailsObserving, Inv, TypeOK, Untouched, Reading,
       Asked, SampleBounded, NothingDropped, ObservedOnce
<1>4. CASE BadStatus
  <2>1. /\ observed = <<>> /\ events' = 0 /\ matched' = 0 /\ readBytes' = 0
        /\ outputBytes' = 0 /\ count' = count /\ count \in Nat
        /\ phase = "requesting" /\ tail' \in Tails /\ source' = "refused"
    BY <1>4 DEF BadStatus, Inv, TypeOK, Untouched
  <2>2. /\ phase' = "returned" /\ result' = "error" /\ truncated' = FALSE
        /\ delivered' = 0 /\ observed' = Append(observed, "status")
    BY <1>4 DEF BadStatus, ReturnFrom
  <2>3. /\ events' \in Nat /\ matched' \in Nat /\ readBytes' \in Nat /\ outputBytes' \in Nat
        /\ events' <= count /\ outputBytes' <= OutputLimit
        /\ readBytes' <= ReadLimit + MaxLine
    BY <2>1, SampleAssumption
  <2> QED
    BY <2>1, <2>2, <2>3, ReturnKeeps
<1>5. CASE Connected
  <2>1. phase = "requesting" /\ phase' = "reading" /\ source' = "open"
    BY <1>5 DEF Connected
  <2>2. events = 0 /\ matched = 0 /\ readBytes = 0 /\ observed = <<>> /\ count \in 1 .. MaxCount
    BY <2>1 DEF Inv, Untouched, Asked
  <2> QED
    BY <1>5, <2>1, <2>2, SampleAssumption DEF Connected, Inv, TypeOK, Untouched,
       Reading, Asked, SampleBounded, NothingDropped, ObservedOnce
<1>6. ASSUME NEW line \in Lines, ScanLine(line) PROVE Inv'
  BY <1>6, TakeKeeps DEF ScanLine, Inv, TypeOK
<1>7. ASSUME NEW rest \in Tails, NEW ending \in Endings, BreakOff(ending, rest) PROVE Inv'
  <2>1. /\ phase = "reading" /\ source' \in Endings /\ tail' \in Tails
    BY <1>7 DEF BreakOff
  <2> QED
    BY <1>7, <2>1 DEF BreakOff, Inv, TypeOK, Untouched, Reading, Asked,
       SampleBounded, NothingDropped, ObservedOnce
<1>8. CASE TooLong
  BY <1>8 DEF TooLong, Inv, TypeOK, Untouched, Reading, Asked, SampleBounded,
     NothingDropped, ObservedOnce
<1>9. CASE ScanTail
  <2>1. tail \in Lines \cup Cuts /\ tail' \in Tails
    BY <1>9 DEF ScanTail, Inv, TypeOK, Tails
  <2> QED
    BY <1>9, <2>1, TakeKeeps DEF ScanTail
<1>10. CASE ScanEnd
  <2>1. /\ phase = "reading" /\ observed = <<>> /\ events' = events /\ matched' = events
        /\ readBytes' = readBytes /\ outputBytes' = outputBytes /\ count' = count
        /\ source' \in {"open", "toolong"} \cup Endings /\ tail' \in Tails
        /\ events \in Nat /\ readBytes \in Nat /\ outputBytes \in Nat /\ count \in Nat
        /\ events <= count /\ outputBytes <= OutputLimit
        /\ readBytes <= ReadLimit + MaxLine
    BY <1>10 DEF ScanEnd, Inv, TypeOK, Reading, SampleBounded
  <2>2. /\ phase' = "returned" /\ result' \in {"ok", "error"} /\ truncated' = FALSE
        /\ delivered' = (IF result' = "ok" THEN events' ELSE 0)
        /\ observed' = Append(observed, "status")
    BY <1>10, <2>1 DEF ScanEnd, ReturnFrom
  <2> QED
    BY <2>1, <2>2, ReturnKeeps
<1>11. CASE UNCHANGED vars
  BY <1>11 DEF vars, Inv, TypeOK, Untouched, Reading, Asked, SampleBounded,
     NothingDropped, ObservedOnce
<1>12. ASSUME NEW rest \in Tails, Deadline(rest) PROVE Inv'
  BY <1>7, <1>12 DEF Deadline, Endings
<1> QED
  BY <1>1, <1>2, <1>3, <1>4, <1>5, <1>6, <1>7, <1>8, <1>9, <1>10, <1>11, <1>12
     DEF Next, Sampling, Answered

\* The invariant holds throughout a call.
LEMMA InvHolds == Spec => []Inv
<1>1. Init => Inv
  BY InvInit
<1> QED
  BY <1>1, InvNext, PTL DEF Spec

----------------------------------------------------------------------------

\* The types of a sample's state.
THEOREM TypeCorrect == Spec => []TypeOK
BY InvHolds, PTL DEF Inv

\* A sample never outgrows its limits, for every choice of them.
THEOREM BoundsHold == Spec => []SampleBounded
BY InvHolds, PTL DEF Inv

\* No event is left out silently.
THEOREM NothingDroppedHolds == Spec => []NothingDropped
BY InvHolds, PTL DEF Inv

\* Each upstream call of a sample is observed exactly once.
THEOREM ObservationHolds == Spec => []ObservedOnce
BY InvHolds, PTL DEF Inv
====
