---- MODULE UpstreamProofs ----
(***************************************************************************)
(* The upstream counters and what a scrape shows of them, for any number   *)
(* of concurrent calls and of scrapes.                                     *)
(***************************************************************************)
EXTENDS Upstream, FiniteSetTheorems, TLAPS

TypeOK ==
    /\ pc \in [Calls -> {"idle", "sending", "counting", "classing", "typing", "returned"}]
    /\ reply \in [Calls -> Responses \cup {Failed, NoReply}]
    /\ result \in [Calls -> {"none", "error", "bad_gateway", "value", "3xx", "4xx", "5xx"}]
    /\ upstreamRequests \in Nat /\ byOutcome \in [Outcomes -> Nat]
    /\ scrapes \in Nat /\ reading \in 0 .. 4
    /\ seenTotal \in Nat /\ seen \in [Outcomes -> Nat]
    /\ prevTotal \in Nat /\ prev \in [Outcomes -> Nat]
    /\ answered \in SUBSET Calls

\* What requestAs makes of a reply, the decoding into the tool's type included.
Final(r) == IF Verdict(r) = "value" /\ ~Conforms(r) THEN "bad_gateway" ELSE Verdict(r)

\* A call has a reply from Receive on, and its result is the verdict on it.
CallInv ==
    \A c \in Calls :
        /\ pc[c] \in {"idle", "sending"} => reply[c] = NoReply
        /\ pc[c] \in {"counting", "classing", "typing"} =>
               reply[c] # NoReply /\ result[c] = Verdict(reply[c])
        /\ (pc[c] = "returned" /\ reply[c] # NoReply) => result[c] = Final(reply[c])

Counted == {c \in Calls : /\ pc[c] \in {"classing", "typing", "returned"}
                          /\ reply[c] # NoReply}
Classing == {c \in Calls : pc[c] = "classing"}
Classed == {c \in Calls : pc[c] \in {"typing", "returned"}}

\* The total by the calls it has counted; the counters of the outcomes, and
\* how far they are behind the total, are in OutcomesAccounted.
TotalInv == upstreamRequests = Cardinality(Counted)

\* What the running scrape has read, the outcome at place i included once it
\* is past it, covers the calls answered before it began; the rest of seen is
\* still the scrape before it.
ScrapeInv ==
    /\ \A c \in answered : pc[c] = "returned" /\ reply[c] # NoReply
    /\ prevTotal <= seenTotal /\ seenTotal <= upstreamRequests
    /\ \A o \in Outcomes : prev[o] <= seen[o] /\ seen[o] <= byOutcome[o]
    /\ seenTotal >= Cardinality(answered)
    /\ \A i \in 1 .. 4 : (reading = 0 \/ i < reading) =>
           seen[Order[i]] >= Cardinality(Of(Order[i], answered))

Inv == TypeOK /\ CallInv /\ OutcomesAccounted /\ TotalInv /\ ScrapeInv

----------------------------------------------------------------------------
(* Counting calls.                                                         *)

LEMMA Finite ==
    ASSUME NEW A \in SUBSET Calls
    PROVE  IsFiniteSet(A) /\ Cardinality(A) \in Nat
<1>1. IsFiniteSet(A)
  BY UpstreamAssumption, FS_Subset
<1> QED
  BY <1>1, FS_CardinalityType

\* One call more.
LEMMA OneMore ==
    ASSUME NEW A \in SUBSET Calls, NEW B, NEW c \in Calls, c \notin A, B = A \cup {c}
    PROVE  Cardinality(B) = Cardinality(A) + 1
BY Finite, FS_AddElement

\* One call less.
LEMMA OneLess ==
    ASSUME NEW A \in SUBSET Calls, NEW B, NEW c \in Calls, c \in A, B = A \ {c}
    PROVE  Cardinality(B) = Cardinality(A) - 1
BY Finite, FS_RemoveElement

\* A part of some calls is no larger.
LEMMA Part ==
    ASSUME NEW B \in SUBSET Calls, NEW A \in SUBSET B
    PROVE  Cardinality(A) <= Cardinality(B)
BY Finite, FS_Subset

\* The sets that are counted hold calls only.
LEMMA CountedSets ==
    /\ Counted \in SUBSET Calls /\ Classing \in SUBSET Calls /\ Classed \in SUBSET Calls
    /\ \A o, S : S \in SUBSET Calls => Of(o, S) \in SUBSET Calls
BY DEF Counted, Classing, Classed, Of

----------------------------------------------------------------------------
(* Replies.                                                                *)

\* ObserveUpstream puts every reply in exactly the class its status means, and
\* no reply in none.
LEMMA Classes ==
    /\ \A r \in Responses \cup {Failed} :
          /\ r # NoReply
          /\ Outcome(r.status) \in Outcomes
          /\ \A o \in Outcomes : r.status \in Meaning[o] <=> o = Outcome(r.status)
    /\ \A o \in Outcomes : NoReply.status \notin Meaning[o]
<1>1. ASSUME NEW r \in Responses \cup {Failed}
      PROVE  r.status \in {"0", "2xx", "3xx", "4xx", "5xx"} /\ r # NoReply
  BY DEF Responses, Failed, NoReply
<1>2. ASSUME NEW status \in {"0", "2xx", "3xx", "4xx", "5xx"}
      PROVE  /\ Outcome(status) \in Outcomes
             /\ \A o \in Outcomes : status \in Meaning[o] <=> o = Outcome(status)
  <2>1. CASE status = "0"
    BY <2>1 DEF Outcome, Outcomes, Meaning
  <2>2. CASE status = "2xx"
    BY <2>2 DEF Outcome, Outcomes, Meaning
  <2>3. CASE status = "3xx"
    BY <2>3 DEF Outcome, Outcomes, Meaning
  <2>4. CASE status = "4xx"
    BY <2>4 DEF Outcome, Outcomes, Meaning
  <2>5. CASE status = "5xx"
    BY <2>5 DEF Outcome, Outcomes, Meaning
  <2> QED
    BY <2>1, <2>2, <2>3, <2>4, <2>5
<1>3. \A o \in Outcomes : NoReply.status \notin Meaning[o]
  BY DEF NoReply, Outcomes, Meaning
<1> QED
  BY <1>1, <1>2, <1>3

\* A verdict is one of the results.
LEMMA Verdicts ==
    ASSUME NEW r \in Responses \cup {Failed}
    PROVE  Verdict(r) \in {"error", "bad_gateway", "value", "3xx", "4xx", "5xx"}
BY DEF Verdict, Responses, Failed

----------------------------------------------------------------------------
(* Steps.                                                                  *)

LEMMA InitInv == Init => Inv
<1> SUFFICES ASSUME Init PROVE Inv
  OBVIOUS
<1>1. TypeOK
  BY DEF Init, TypeOK
<1>2. CallInv
  BY DEF Init, CallInv
<1>3. /\ Counted = {} /\ Classing = {} /\ Classed = {}
      /\ \A o : Of(o, Classed) = {} /\ Of(o, answered) = {}
  BY DEF Init, Counted, Classing, Classed, Of
<1>4. OutcomesAccounted /\ TotalInv
  BY <1>3, FS_EmptySet DEF Init, OutcomesAccounted, TotalInv, Classing, Classed, Total, Outcomes
<1>5. ScrapeInv
  BY <1>3, FS_EmptySet DEF Init, ScrapeInv, Order, Outcomes
<1> QED
  BY <1>1, <1>2, <1>4, <1>5 DEF Inv

\* A call that has not returned moves on: the scrape's account stands, because
\* counters only grow and an answered call keeps its reply.
LEMMA ScrapeKept ==
    ASSUME Inv, TypeOK', NEW c \in Calls, pc[c] # "returned",
           \A d \in Calls \ {c} : pc'[d] = pc[d] /\ reply'[d] = reply[d],
           UNCHANGED scrapeVars, upstreamRequests <= upstreamRequests',
           \A o \in Outcomes : byOutcome[o] <= byOutcome'[o]
    PROVE  ScrapeInv'
<1>1. c \notin answered /\ answered' = answered /\ answered \subseteq Calls
  BY DEF Inv, ScrapeInv, scrapeVars, TypeOK
<1>2. \A d \in answered : pc'[d] = "returned" /\ reply'[d] # NoReply /\ reply'[d] = reply[d]
  BY <1>1 DEF Inv, ScrapeInv
<1>3. \A o : Of(o, answered)' = Of(o, answered)
  BY <1>1, <1>2 DEF Of
<1>4. \A o \in Outcomes : prev'[o] <= seen'[o] /\ seen'[o] <= byOutcome'[o]
  BY DEF Inv, ScrapeInv, scrapeVars, TypeOK
<1>5. /\ prevTotal' <= seenTotal' /\ seenTotal' <= upstreamRequests'
      /\ seenTotal' >= Cardinality(answered')
  BY <1>1 DEF Inv, ScrapeInv, scrapeVars, TypeOK
<1>6. \A i \in 1 .. 4 : (reading' = 0 \/ i < reading') =>
          seen'[Order[i]] >= Cardinality(Of(Order[i], answered)')
  BY <1>3 DEF Inv, ScrapeInv, scrapeVars
<1> QED
  BY <1>1, <1>2, <1>4, <1>5, <1>6 DEF ScrapeInv

\* A step that moves no call between the sets and touches no counter.
LEMMA CountsKept ==
    ASSUME Inv, Counted' = Counted, Classing' = Classing,
           \A o \in Outcomes : Of(o, Classed)' = Of(o, Classed),
           UNCHANGED <<upstreamRequests, byOutcome>>
    PROVE  OutcomesAccounted' /\ TotalInv'
BY DEF Inv, OutcomesAccounted, TotalInv, Classing, Classed

LEMMA UnsendableInv == ASSUME Inv, NEW c \in Calls, Unsendable(c) PROVE Inv'
<1>1. TypeOK'
  BY DEF Inv, TypeOK, Unsendable, scrapeVars
<1>2. reply[c] = NoReply /\ reply' = reply
  BY DEF Inv, CallInv, Unsendable
<1>3. CallInv'
  BY <1>2 DEF Inv, TypeOK, CallInv, Unsendable
<1>4. Counted' = Counted /\ Classing' = Classing /\ Classed' = Classed \cup {c}
  BY <1>2 DEF Inv, TypeOK, Unsendable, Counted, Classing, Classed
<1>5. \A o \in Outcomes : Of(o, Classed)' = Of(o, Classed)
  BY <1>2, <1>4, Classes DEF Of
<1>6. OutcomesAccounted' /\ TotalInv'
  BY <1>4, <1>5, CountsKept DEF Unsendable
<1>7. ScrapeInv'
  BY <1>1, ScrapeKept DEF Inv, TypeOK, Unsendable
<1> QED
  BY <1>1, <1>3, <1>6, <1>7 DEF Inv

LEMMA DoInv == ASSUME Inv, NEW c \in Calls, Do(c) PROVE Inv'
<1>1. TypeOK'
  BY DEF Inv, TypeOK, Do, scrapeVars
<1>2. CallInv'
  BY DEF Inv, TypeOK, CallInv, Do
<1>3. Counted' = Counted /\ Classing' = Classing /\ Classed' = Classed
  BY DEF Inv, TypeOK, Do, Counted, Classing, Classed
<1>4. \A o \in Outcomes : Of(o, Classed)' = Of(o, Classed)
  BY <1>3 DEF Of, Do
<1>5. OutcomesAccounted' /\ TotalInv'
  BY <1>3, <1>4, CountsKept DEF Do
<1>6. ScrapeInv'
  BY <1>1, ScrapeKept DEF Inv, TypeOK, Do
<1> QED
  BY <1>1, <1>2, <1>5, <1>6 DEF Inv

LEMMA ReceiveInv ==
    ASSUME Inv, NEW c \in Calls, NEW r \in Responses \cup {Failed}, Receive(c, r)
    PROVE  Inv'
<1>1. TypeOK'
  BY Verdicts DEF Inv, TypeOK, Receive, scrapeVars
<1>2. CallInv'
  BY Classes DEF Inv, TypeOK, CallInv, Receive
<1>3. Counted' = Counted /\ Classing' = Classing /\ Classed' = Classed
  BY DEF Inv, TypeOK, Receive, Counted, Classing, Classed
<1>4. \A d \in Classed : reply'[d] = reply[d]
  BY DEF Inv, TypeOK, Receive, Classed
<1>5. \A o \in Outcomes : Of(o, Classed)' = Of(o, Classed)
  BY <1>3, <1>4 DEF Of
<1>6. OutcomesAccounted' /\ TotalInv'
  BY <1>3, <1>5, CountsKept DEF Receive
<1>7. ScrapeInv'
  BY <1>1, ScrapeKept DEF Inv, TypeOK, Receive
<1> QED
  BY <1>1, <1>2, <1>6, <1>7 DEF Inv

LEMMA CountRequestInv == ASSUME Inv, NEW c \in Calls, CountRequest(c) PROVE Inv'
<1>1. TypeOK'
  BY DEF Inv, TypeOK, CountRequest, scrapeVars
<1>2. CallInv'
  BY DEF Inv, TypeOK, CallInv, CountRequest
<1>3. /\ c \notin Counted /\ Counted' = Counted \cup {c}
      /\ c \notin Classing /\ Classing' = Classing \cup {c}
      /\ Classed' = Classed
  BY DEF Inv, TypeOK, CallInv, CountRequest, Counted, Classing, Classed
<1>4. \A o \in Outcomes : Of(o, Classed)' = Of(o, Classed)
  BY <1>3 DEF Of, CountRequest
<1>5. /\ Cardinality(Counted') = Cardinality(Counted) + 1
      /\ Cardinality(Classing') = Cardinality(Classing) + 1
      /\ Cardinality(Classing) \in Nat
  BY <1>3, OneMore, Finite, CountedSets
<1>6. Total(byOutcome) \in Nat /\ upstreamRequests \in Nat
  BY DEF Inv, TypeOK, Total, Outcomes
<1>7. upstreamRequests = Total(byOutcome) + Cardinality(Classing)
  BY DEF Inv, OutcomesAccounted, Classing
<1>8. upstreamRequests' = Total(byOutcome) + Cardinality(Classing')
  BY <1>5, <1>6, <1>7 DEF CountRequest
<1>9. OutcomesAccounted'
  BY <1>4, <1>8 DEF Inv, OutcomesAccounted, CountRequest, Classing, Classed
<1>10. TotalInv'
  BY <1>5 DEF Inv, TotalInv, CountRequest
<1>11. ScrapeInv'
  BY <1>1, ScrapeKept DEF Inv, TypeOK, CountRequest
<1> QED
  BY <1>1, <1>2, <1>9, <1>10, <1>11 DEF Inv

LEMMA CountOutcomeInv == ASSUME Inv, NEW c \in Calls, CountOutcome(c) PROVE Inv'
<1> DEFINE k == Outcome(reply[c].status)
<1>0. reply[c] \in Responses \cup {Failed} /\ reply' = reply
  BY DEF Inv, TypeOK, CallInv, CountOutcome
<1>1. k \in Outcomes /\ \A o \in Outcomes : reply[c].status \in Meaning[o] <=> o = k
  BY <1>0, Classes
<1>2. byOutcome' = [byOutcome EXCEPT ![k] = @ + 1]
  BY DEF CountOutcome
<1> HIDE DEF k
<1>3. TypeOK'
  BY <1>1, <1>2 DEF Inv, TypeOK, CountOutcome, scrapeVars
<1>4. CallInv'
  BY DEF Inv, TypeOK, CallInv, CountOutcome
<1>5. /\ Counted' = Counted
      /\ c \in Classing /\ Classing' = Classing \ {c}
      /\ c \notin Classed /\ Classed' = Classed \cup {c}
  BY DEF Inv, TypeOK, CallInv, CountOutcome, Counted, Classing, Classed
<1>6. ASSUME NEW o \in Outcomes
      PROVE  byOutcome'[o] = Cardinality(Of(o, Classed)')
  <2>1. byOutcome[o] = Cardinality(Of(o, Classed))
    BY DEF Inv, OutcomesAccounted, Classed
  <2>2. CASE o = k
    <3>1. c \notin Of(o, Classed) /\ Of(o, Classed)' = Of(o, Classed) \cup {c}
      BY <1>0, <1>1, <1>5, <2>2 DEF Of
    <3>2. Cardinality(Of(o, Classed)') = Cardinality(Of(o, Classed)) + 1
      BY <3>1, OneMore, CountedSets
    <3> QED
      BY <1>2, <2>1, <2>2, <3>2 DEF Inv, TypeOK
  <2>3. CASE o # k
    <3>1. Of(o, Classed)' = Of(o, Classed)
      BY <1>0, <1>1, <1>5, <2>3 DEF Of
    <3> QED
      BY <1>2, <2>1, <2>3, <3>1 DEF Inv, TypeOK
  <2> QED
    BY <2>2, <2>3
<1>7. Total(byOutcome') = Total(byOutcome) + 1 /\ Total(byOutcome) \in Nat
  BY <1>1, <1>2 DEF Inv, TypeOK, Total, Outcomes
<1>8. Cardinality(Classing') = Cardinality(Classing) - 1 /\ Cardinality(Classing) \in Nat
  BY <1>5, OneLess, Finite, CountedSets
<1>9. upstreamRequests = Total(byOutcome) + Cardinality(Classing)
  BY DEF Inv, OutcomesAccounted, Classing
<1>10. upstreamRequests' = Total(byOutcome') + Cardinality(Classing')
  BY <1>7, <1>8, <1>9 DEF CountOutcome
<1>11. OutcomesAccounted'
  BY <1>6, <1>10 DEF OutcomesAccounted, Classing, Classed
<1>12. TotalInv'
  BY <1>5 DEF Inv, TotalInv, CountOutcome
<1>13. \A o \in Outcomes : byOutcome[o] <= byOutcome'[o]
  BY <1>1, <1>2 DEF Inv, TypeOK
<1>14. ScrapeInv'
  BY <1>3, <1>13, ScrapeKept DEF Inv, TypeOK, CountOutcome
<1> QED
  BY <1>3, <1>4, <1>11, <1>12, <1>14 DEF Inv

LEMMA TypedInv == ASSUME Inv, NEW c \in Calls, Typed(c) PROVE Inv'
<1>1. TypeOK'
  BY DEF Inv, TypeOK, Typed, scrapeVars
<1>2. CallInv'
  BY DEF Inv, TypeOK, CallInv, Typed, Observed, Final
<1>3. Counted' = Counted /\ Classing' = Classing /\ Classed' = Classed
  BY DEF Inv, TypeOK, Typed, Observed, Counted, Classing, Classed
<1>4. \A o \in Outcomes : Of(o, Classed)' = Of(o, Classed)
  BY <1>3 DEF Of, Typed
<1>5. OutcomesAccounted' /\ TotalInv'
  BY <1>3, <1>4, CountsKept DEF Typed
<1>6. ScrapeInv'
  BY <1>1, ScrapeKept DEF Inv, TypeOK, Typed, Observed
<1> QED
  BY <1>1, <1>2, <1>5, <1>6 DEF Inv

LEMMA ReadTotalInv == ASSUME Inv, ReadTotal PROVE Inv'
<1>1. TypeOK'
  BY DEF Inv, TypeOK, ReadTotal
<1>2. CallInv' /\ UNCHANGED <<Counted, Classing, Classed>>
  BY DEF Inv, CallInv, ReadTotal, Counted, Classing, Classed
<1>3. \A o \in Outcomes : Of(o, Classed)' = Of(o, Classed)
  BY <1>2 DEF Of, ReadTotal
<1>4. OutcomesAccounted' /\ TotalInv'
  BY <1>2, <1>3, CountsKept DEF ReadTotal
<1>5. answered' \subseteq Counted
  BY DEF ReadTotal, Counted
<1>6. Cardinality(answered') <= Cardinality(Counted)
  BY <1>5, Part, CountedSets
<1>7. seenTotal' >= Cardinality(answered') /\ seenTotal' <= upstreamRequests'
  BY <1>6 DEF Inv, TypeOK, TotalInv, ReadTotal
<1>8. \A d \in answered' : pc'[d] = "returned" /\ reply'[d] # NoReply
  BY DEF ReadTotal
<1>9. /\ prevTotal' <= seenTotal'
      /\ \A o \in Outcomes : prev'[o] <= seen'[o] /\ seen'[o] <= byOutcome'[o]
  BY DEF Inv, TypeOK, ScrapeInv, ReadTotal
<1>10. \A i \in 1 .. 4 : ~(reading' = 0 \/ i < reading')
  BY DEF ReadTotal
<1>11. ScrapeInv'
  BY <1>7, <1>8, <1>9, <1>10 DEF ScrapeInv
<1> QED
  BY <1>1, <1>2, <1>4, <1>11 DEF Inv

LEMMA ReadOutcomeInv == ASSUME Inv, ReadOutcome PROVE Inv'
<1> DEFINE k == Order[reading]
<1>0. reading \in 1 .. 4
  BY DEF Inv, TypeOK, ReadOutcome
<1>1. /\ k \in Outcomes /\ reading' = (reading + 1) % 5
      /\ seen' = [seen EXCEPT ![k] = byOutcome[k]]
      /\ byOutcome' = byOutcome
  BY <1>0 DEF Inv, TypeOK, ReadOutcome, LeftByLoad, Order, Outcomes
<1>2. \A i \in 1 .. 4 : Order[i] \in Outcomes /\ (Order[i] = k <=> i = reading)
  BY <1>0 DEF Order, Outcomes
<1>a. UNCHANGED <<pc, reply, result, upstreamRequests, scrapes, seenTotal,
                  prevTotal, prev, answered>>
  BY DEF ReadOutcome
<1> HIDE DEF k
<1>b. reading' \in 0 .. 4
  BY <1>0, <1>1
<1>c. byOutcome \in [Outcomes -> Nat] /\ seen \in [Outcomes -> Nat]
  BY DEF Inv, TypeOK
<1>d. /\ seen' \in [Outcomes -> Nat]
      /\ \A o \in Outcomes : seen'[o] = IF o = k THEN byOutcome[o] ELSE seen[o]
  BY <1>1, <1>c
<1>3. TypeOK'
  BY <1>1, <1>a, <1>b, <1>d DEF Inv, TypeOK
<1>4. CallInv' /\ UNCHANGED <<Counted, Classing, Classed>>
  BY DEF Inv, CallInv, ReadOutcome, Counted, Classing, Classed
<1>5. \A o, S : Of(o, S)' = Of(o, S)
  BY DEF Of, ReadOutcome
<1>6. OutcomesAccounted' /\ TotalInv'
  BY <1>1, <1>4, CountsKept DEF Of, ReadOutcome
<1>7. \A o \in Outcomes : prev'[o] <= seen'[o] /\ seen'[o] <= byOutcome'[o]
  <2>1. ASSUME NEW o \in Outcomes
        PROVE  /\ prev[o] <= seen[o] /\ seen[o] <= byOutcome[o]
               /\ prev[o] \in Nat /\ seen[o] \in Nat /\ byOutcome[o] \in Nat
    BY DEF Inv, TypeOK, ScrapeInv
  <2> QED
    BY <1>1, <1>a, <1>d, <2>1
<1>8. Of(k, answered) \subseteq Of(k, Classed)
  BY DEF Inv, TypeOK, ScrapeInv, Of, Classed
<1>9. Cardinality(Of(k, answered)) <= byOutcome[k]
  BY <1>1, <1>8, Part, CountedSets DEF Inv, OutcomesAccounted, Classed
<1>10. ASSUME NEW i \in 1 .. 4, reading' = 0 \/ i < reading'
       PROVE  seen'[Order[i]] >= Cardinality(Of(Order[i], answered))
  <2>1. CASE i = reading
    BY <1>1, <1>2, <1>9, <2>1, Finite, CountedSets DEF Inv, TypeOK
  <2>2. CASE i # reading
    <3>1. i < reading
      BY <1>0, <1>1, <1>10, <2>2
    <3> QED
      BY <1>1, <1>2, <2>2, <3>1 DEF Inv, TypeOK, ScrapeInv
  <2> QED
    BY <2>1, <2>2
<1>11. ScrapeInv'
  BY <1>7, <1>10 DEF Inv, ScrapeInv, ReadOutcome, Of
<1> QED
  BY <1>3, <1>4, <1>6, <1>11 DEF Inv

LEMMA NextInv == Inv /\ [Next]_vars => Inv'
<1> SUFFICES ASSUME Inv, [Next]_vars PROVE Inv'
  OBVIOUS
<1>1. CASE ReadTotal \/ ReadOutcome
  BY <1>1, ReadTotalInv, ReadOutcomeInv
<1>2. ASSUME NEW c \in Calls,
             \/ Unsendable(c) \/ Do(c)
             \/ \E r \in Responses \cup {Failed} : Receive(c, r)
             \/ CountRequest(c) \/ CountOutcome(c) \/ Typed(c)
      PROVE  Inv'
  BY <1>2, UnsendableInv, DoInv, ReceiveInv, CountRequestInv, CountOutcomeInv, TypedInv
<1>3. CASE UNCHANGED vars
  BY <1>3 DEF vars, Inv, TypeOK, CallInv, OutcomesAccounted, TotalInv, ScrapeInv,
              Counted, Of
<1> QED
  BY <1>1, <1>2, <1>3 DEF Next

THEOREM InvHolds == Spec => []Inv
BY InitInv, NextInv, PTL DEF Spec

----------------------------------------------------------------------------
(* What the runs check on two calls and two scrapes.                       *)

\* However many calls interleave, each one that reached the network is in the
\* total once and in the class of its real status once.
THEOREM AccountedHolds == Spec => []OutcomesAccounted
<1>1. Inv => OutcomesAccounted
  BY DEF Inv
<1> QED
  BY <1>1, InvHolds, PTL

\* Any scrape shows every call that was answered before it began.
THEOREM AnsweredHolds == Spec => []AnsweredSeen
<1>1. ASSUME Inv, reading = 0
      PROVE  \A o \in Outcomes : seen[o] >= Cardinality(Of(o, answered))
  BY <1>1 DEF Inv, ScrapeInv, Order, Outcomes
<1>2. Inv => AnsweredSeen
  BY <1>1 DEF Inv, ScrapeInv, AnsweredSeen
<1> QED
  BY <1>2, InvHolds, PTL

\* No number of a scrape is below the one of the scrape before, and the
\* outcomes of a scrape never exceed the calls counted by its end.
THEOREM ScrapesHold == Spec => []ScrapesGrow
<1>1. ASSUME Inv PROVE ScrapesGrow
  <2>1. Total(seen) <= Total(byOutcome) /\ Total(byOutcome) \in Nat /\ Total(seen) \in Nat
    BY <1>1 DEF Inv, TypeOK, ScrapeInv, Total, Outcomes
  <2>2. Cardinality(Classing) \in Nat /\ upstreamRequests \in Nat
    BY <1>1, Finite, CountedSets DEF Inv, TypeOK
  <2>3. upstreamRequests = Total(byOutcome) + Cardinality(Classing)
    BY <1>1 DEF Inv, OutcomesAccounted, Classing
  <2>4. Total(seen) <= upstreamRequests
    BY <2>1, <2>2, <2>3
  <2> QED
    BY <1>1, <2>4 DEF Inv, TypeOK, ScrapeInv, ScrapesGrow
<1> QED
  BY <1>1, InvHolds, PTL

\* A tool gets a value exactly for a complete, bounded 2xx object of its shape.
THEOREM FaithfulHolds == Spec => []ResultsFaithful
<1>1. ASSUME NEW r \in Responses \cup {Failed}
      PROVE  /\ Final(r) = "value" <=> r = [status |-> "2xx", body |-> "object"]
             /\ (r.status \in {"3xx", "4xx", "5xx"} /\ r.body \notin {"broken", "oversized"})
                 => Final(r) = r.status
  BY DEF Final, Verdict, Conforms, Responses, Failed
<1>2. Inv => ResultsFaithful
  BY <1>1 DEF Inv, TypeOK, CallInv, ResultsFaithful
<1> QED
  BY <1>2, InvHolds, PTL
====
