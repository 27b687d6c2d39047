---- MODULE GatewayProofs ----
(***************************************************************************)
(* Theorems about Gateway, for every number of requests and principals and *)
(* every pair of limits, with and without OAuth and the rate limiter: the  *)
(* accounting of the two concurrency limits, and that the chain implements *)
(* Capacity.                                                               *)
(***************************************************************************)
EXTENDS Gateway, FiniteSetTheorems, TLAPS

\* The type of what a scrape has read.
ScrapeType ==
    /\ loaded \in [Scrapers -> 0 .. 5]
    /\ page \in [Scrapers -> [Figures -> Nat]]
    /\ settled \in [Scrapers -> SUBSET Requests]

Chained == {"rating", "entering", "refusing", "serving", "leaving"}

\* What the accounting needs besides: the channel never overfills, and a
\* request past protectMCP is known by its principal.
Inv ==
    /\ TypeOK
    /\ SlotsAccounted
    /\ slots <= MaxConcurrent
    /\ \A r \in Requests :
          /\ stage[r] \in Chained => caller[r] \in Principals
          /\ OAuth /\ stage[r] = "protecting" => caller[r] \in Principals

----------------------------------------------------------------------------
(* Finite sets of requests.                                                *)

\* Sets of requests are finite and have a cardinality.
LEMMA Finite ==
    ASSUME NEW A \in SUBSET Requests
    PROVE  IsFiniteSet(A) /\ Cardinality(A) \in Nat
<1>1. IsFiniteSet(A)
  BY GatewayAssumption, FS_Subset
<1> QED
  BY <1>1, FS_CardinalityType

\* One request more.
LEMMA OneMore ==
    ASSUME NEW A \in SUBSET Requests, NEW B, NEW r \in Requests,
           r \notin A, B = A \cup {r}
    PROVE  Cardinality(B) = Cardinality(A) + 1
BY Finite, FS_AddElement

\* One request less.
LEMMA OneLess ==
    ASSUME NEW A \in SUBSET Requests, NEW B, NEW r \in Requests,
           r \in A, B = A \ {r}
    PROVE  Cardinality(B) = Cardinality(A) - 1 /\ Cardinality(A) > 0
<1>1. IsFiniteSet(A) /\ Cardinality(A) \in Nat
  BY Finite
<1>2. IsFiniteSet(B) /\ Cardinality(B) = Cardinality(A) - 1
  BY <1>1, FS_RemoveElement
<1>3. Cardinality(B) \in Nat
  BY <1>2, FS_CardinalityType
<1> QED
  BY <1>1, <1>2, <1>3

\* The sets the accounting counts are sets of requests.
LEMMA CountedSets ==
    /\ Holding \in SUBSET Requests /\ Active \in SUBSET Requests
    /\ Running \in SUBSET Requests
    /\ \A p : RunningFor(p) \in SUBSET Requests
BY DEF Holding, Active, Running, RunningFor

----------------------------------------------------------------------------
(* Steps of the chain.                                                     *)

\* A step of one request from one stage to another moves it in or out of the
\* counted sets, and nobody else.
LEMMA Moves ==
    ASSUME TypeOK, NEW r \in Requests, NEW from, NEW to, Goto(r, from, to),
           \A s \in Requests \ {r} : caller'[s] = caller[s]
    PROVE  /\ Holding' = IF to \in SlotStages THEN Holding \cup {r}
                                              ELSE Holding \ {r}
           /\ Active' = IF to \in {"new", "counted", "done"} THEN Active \ {r}
                                                  ELSE Active \cup {r}
           /\ \A p : RunningFor(p)' =
                        IF to \in RunStages /\ caller'[r] = p
                        THEN RunningFor(p) \cup {r} ELSE RunningFor(p) \ {r}
           /\ r \in Holding <=> from \in SlotStages
           /\ r \in Active <=> from \notin {"new", "counted", "done"}
           /\ \A p : r \in RunningFor(p) <=> from \in RunStages /\ caller[r] = p
<1>1. /\ stage[r] = from /\ stage'[r] = to
      /\ \A s \in Requests \ {r} : stage'[s] = stage[s]
  BY DEF Goto, TypeOK
<1>2. /\ r \in Holding <=> from \in SlotStages
      /\ r \in Active <=> from \notin {"new", "counted", "done"}
      /\ \A p : r \in RunningFor(p) <=> from \in RunStages /\ caller[r] = p
  BY <1>1 DEF Holding, Active, Running, RunningFor
<1>3. Holding' = IF to \in SlotStages THEN Holding \cup {r} ELSE Holding \ {r}
  BY <1>1 DEF Holding
<1>4. Active' = IF to \in {"new", "counted", "done"} THEN Active \ {r}
                                          ELSE Active \cup {r}
  BY <1>1 DEF Active
<1>5. ASSUME NEW p
      PROVE  RunningFor(p)' = IF to \in RunStages /\ caller'[r] = p
                              THEN RunningFor(p) \cup {r}
                              ELSE RunningFor(p) \ {r}
  BY <1>1 DEF Running, RunningFor
<1> QED
  BY <1>2, <1>3, <1>4, <1>5

\* A step that crosses none of the three boundaries keeps the accounting.
LEMMA QuietStep ==
    ASSUME Inv, NEW r \in Requests, NEW from, NEW to, Goto(r, from, to),
           \A s \in Requests \ {r} : caller'[s] = caller[s],
           from \in SlotStages <=> to \in SlotStages,
           from \in RunStages <=> to \in RunStages,
           from \in {"new", "counted", "done"} <=> to \in {"new", "counted", "done"},
           from \in RunStages => caller'[r] = caller[r],
           UNCHANGED <<slots, inflight, httpInflight>>
    PROVE  SlotsAccounted'
<1>0. TypeOK
  BY DEF Inv
<1>1. Holding' = Holding
  BY <1>0, Moves
<1>2. Active' = Active
  BY <1>0, Moves
<1>3. ASSUME NEW p PROVE RunningFor(p)' = RunningFor(p)
  <2>1. /\ RunningFor(p)' = IF to \in RunStages /\ caller'[r] = p
                            THEN RunningFor(p) \cup {r} ELSE RunningFor(p) \ {r}
        /\ r \in RunningFor(p) <=> from \in RunStages /\ caller[r] = p
    BY <1>0, Moves
  <2> QED
    BY <2>1
<1> QED
  BY <1>1, <1>2, <1>3 DEF Inv, SlotsAccounted, Inflight

\* limitConcurrentPerPrincipal lets a request in.
LEMMA EnterInv == ASSUME Inv, NEW r \in Requests, Enter(r) PROVE Inv'
<1>a. caller[r] \in Principals
  BY DEF Inv, Enter, Goto, Chained, EnterBelow
<1>b. PICK c \in Principals : c = caller[r]
  BY <1>a
<1>0. TypeOK /\ caller' = caller /\ Goto(r, "entering", "serving")
  BY DEF Inv, Enter, EnterBelow
<1>c. UNCHANGED <<answer, slots, httpRequests, httpInflight, httpRejected,
                  httpPrincipalRejected, rateRejected, loaded, page, settled>>
  BY DEF Enter, stats, scrapeVars, limiterVars, EnterBelow
<1>d. Holding' = Holding
  BY <1>0, Moves DEF SlotStages
<1>e. Active' = Active
  BY <1>0, Moves
<1>1. Holding' = Holding /\ Active' = Active
  BY <1>d, <1>e
<1>2. /\ RunningFor(c)' = RunningFor(c) \cup {r} /\ r \notin RunningFor(c)
      /\ \A p : p # c => RunningFor(p)' = RunningFor(p)
  <2>1. \A p : /\ RunningFor(p)' = IF "serving" \in RunStages /\ caller'[r] = p
                            THEN RunningFor(p) \cup {r} ELSE RunningFor(p) \ {r}
               /\ r \in RunningFor(p) <=> "entering" \in RunStages /\ caller[r] = p
    BY <1>0, Moves
  <2> QED
    BY <1>0, <1>b, <2>1 DEF RunStages
<1>3. Cardinality(RunningFor(c)') = Cardinality(RunningFor(c)) + 1
  <2>1. RunningFor(c) \in SUBSET Requests
    BY CountedSets
  <2> QED
    BY <1>2, <2>1, OneMore
<1>4. Inflight(c) \in Nat /\ Inflight(c) = Cardinality(RunningFor(c))
  BY <1>0 DEF Inv, TypeOK, SlotsAccounted, Inflight
<1>5. /\ DOMAIN inflight' = DOMAIN inflight \cup {c}
      /\ inflight'[c] = Inflight(c) + 1
      /\ \A p \in DOMAIN inflight \ {c} : inflight'[p] = inflight[p]
      /\ inflight' = [p \in DOMAIN inflight' |-> inflight'[p]]
  BY <1>b DEF Enter, EnterBelow
<1>6. TypeOK'
  BY <1>0, <1>c, <1>4, <1>5 DEF Goto, TypeOK, Stages
<1>7. ASSUME NEW p \in Principals
      PROVE  Inflight(p)' = Cardinality(RunningFor(p)')
  <2>1. CASE p = c
    BY <1>3, <1>4, <1>5, <2>1 DEF Inflight
  <2>2. CASE p # c
    BY <1>0, <1>2, <1>5, <2>2 DEF Inflight, Inv, SlotsAccounted
  <2> QED
    BY <2>1, <2>2
<1>8. \A p \in DOMAIN inflight' : inflight'[p] > 0
  BY <1>4, <1>5 DEF Inv, SlotsAccounted
<1>9. SlotsAccounted'
  BY <1>0, <1>c, <1>1, <1>7, <1>8 DEF Inv, SlotsAccounted
<1>10. slots' <= MaxConcurrent
  BY DEF Inv, Enter, EnterBelow
<1>11. \A s \in Requests :
          /\ stage'[s] \in Chained => caller'[s] \in Principals
          /\ OAuth /\ stage'[s] = "protecting" => caller'[s] \in Principals
  BY <1>0, <1>a DEF Inv, Goto, TypeOK, Chained
<1> QED
  BY <1>6, <1>9, <1>10, <1>11 DEF Inv

\* The deferred decrement.
LEMMA LeaveInv == ASSUME Inv, NEW r \in Requests, Leave(r) PROVE Inv'
<1>a. caller[r] \in Principals
  BY DEF Inv, Leave, Goto, Chained
<1>b. PICK c \in Principals : c = caller[r]
  BY <1>a
<1> DEFINE left == Inflight(c) - 1
<1>0. TypeOK /\ caller' = caller /\ Goto(r, "leaving", "releasing")
  BY DEF Inv, Leave
<1>c. UNCHANGED <<answer, slots, httpRequests, httpInflight, httpRejected,
                  httpPrincipalRejected, rateRejected, loaded, page, settled>>
  BY DEF Leave, stats, scrapeVars, limiterVars
<1>d. Holding' = Holding
  <2>1. /\ Holding' = IF "releasing" \in SlotStages THEN Holding \cup {r} ELSE Holding \ {r}
        /\ r \in Holding <=> "leaving" \in SlotStages
    BY <1>0, Moves
  <2> QED
    BY <2>1 DEF SlotStages
<1>e. Active' = Active
  <2>1. /\ Active' = IF "releasing" \in {"new", "counted", "done"} THEN Active \ {r}
                                                              ELSE Active \cup {r}
        /\ r \in Active <=> "leaving" \notin {"new", "counted", "done"}
    BY <1>0, Moves
  <2> QED
    BY <2>1
<1>1. Holding' = Holding /\ Active' = Active
  BY <1>d, <1>e
<1>2. /\ RunningFor(c)' = RunningFor(c) \ {r} /\ r \in RunningFor(c)
      /\ \A p : p # c => RunningFor(p)' = RunningFor(p)
  <2>1. \A p : /\ RunningFor(p)' = IF "releasing" \in RunStages /\ caller'[r] = p
                            THEN RunningFor(p) \cup {r} ELSE RunningFor(p) \ {r}
               /\ r \in RunningFor(p) <=> "leaving" \in RunStages /\ caller[r] = p
    BY <1>0, Moves
  <2> QED
    BY <1>0, <1>b, <2>1 DEF RunStages
<1>3. /\ Cardinality(RunningFor(c)') = Cardinality(RunningFor(c)) - 1
      /\ Cardinality(RunningFor(c)) > 0
  <2>1. RunningFor(c) \in SUBSET Requests
    BY CountedSets
  <2> QED
    BY <1>2, <2>1, OneLess
<1>4. Inflight(c) \in Nat /\ Inflight(c) = Cardinality(RunningFor(c))
  BY <1>0 DEF Inv, TypeOK, SlotsAccounted, Inflight
<1>5. c \in DOMAIN inflight /\ left \in Nat
  BY <1>3, <1>4 DEF Inflight
<1>6. /\ DOMAIN inflight' = IF left = 0 THEN DOMAIN inflight \ {c}
                                        ELSE DOMAIN inflight
      /\ c \in DOMAIN inflight' => inflight'[c] = left
      /\ \A p \in DOMAIN inflight \ {c} :
            p \in DOMAIN inflight' /\ inflight'[p] = inflight[p]
      /\ inflight' = [p \in DOMAIN inflight' |-> inflight'[p]]
  BY <1>b, <1>5 DEF Leave
<1> HIDE DEF left
<1>7. TypeOK'
  BY <1>0, <1>c, <1>5, <1>6 DEF Goto, TypeOK, Stages
<1>8. ASSUME NEW p \in Principals
      PROVE  Inflight(p)' = Cardinality(RunningFor(p)')
  <2>1. CASE p = c
    <3>1. Inflight(c)' = left
      BY <1>5, <1>6 DEF Inflight
    <3> QED
      BY <1>3, <1>4, <2>1, <3>1 DEF left
  <2>2. CASE p # c
    BY <1>0, <1>2, <1>6, <2>2 DEF Inflight, Inv, SlotsAccounted
  <2> QED
    BY <2>1, <2>2
<1>9. \A p \in DOMAIN inflight' : inflight'[p] > 0
  BY <1>5, <1>6 DEF Inv, SlotsAccounted
<1>10. SlotsAccounted'
  BY <1>0, <1>c, <1>1, <1>8, <1>9 DEF Inv, SlotsAccounted
<1>11. slots' <= MaxConcurrent
  BY DEF Inv, Leave
<1>12. \A s \in Requests :
          /\ stage'[s] \in Chained => caller'[s] \in Principals
          /\ OAuth /\ stage'[s] = "protecting" => caller'[s] \in Principals
  BY <1>0 DEF Inv, Goto, TypeOK, Chained
<1> QED
  BY <1>7, <1>10, <1>11, <1>12 DEF Inv

\* The initial state satisfies the invariant.
LEMMA InitInv == Init => Inv
<1> SUFFICES ASSUME Init PROVE Inv
  OBVIOUS
<1>1. TypeOK
  BY DEF Init, Limiter!Init, TypeOK, Stages, Answers
<1>2. Holding = {} /\ Active = {} /\ \A p : RunningFor(p) = {}
  BY DEF Init, Holding, Active, Running, RunningFor, SlotStages, RunStages
<1>3. Cardinality(Holding) = 0 /\ Cardinality(Active) = 0
      /\ \A p : Cardinality(RunningFor(p)) = 0
  BY <1>2, FS_EmptySet
<1>4. SlotsAccounted
  BY <1>3 DEF Init, SlotsAccounted, Inflight
<1> QED
  BY <1>1, <1>4, GatewayAssumption DEF Init, Inv, Chained

\* What is left of the invariant once the accounting is settled.
LEMMA Rest ==
    ASSUME Inv, NEW r \in Requests, NEW from, NEW to \in Stages,
           Goto(r, from, to), SlotsAccounted',
           answer' \in [Requests -> Answers],
           caller' \in [Requests -> Principals \cup {Nobody}],
           \A s \in Requests \ {r} : caller'[s] = caller[s],
           to \in Chained => caller'[r] \in Principals,
           OAuth /\ to = "protecting" => caller'[r] \in Principals,
           slots' \in Nat, slots' <= MaxConcurrent,
           inflight' = inflight,
           httpRequests' \in Nat, httpInflight' \in Nat,
           httpRejected' \in Nat, httpPrincipalRejected' \in Nat,
           scrapeVars' = scrapeVars \/ ScrapeType',
           limiterVars' = limiterVars
    PROVE  Inv'
<1>0. ScrapeType' /\ rateRejected' = rateRejected
  BY DEF Inv, TypeOK, ScrapeType, scrapeVars, limiterVars
<1>1. TypeOK'
  BY <1>0 DEF Inv, TypeOK, Goto, ScrapeType
<1>2. \A s \in Requests :
          /\ stage'[s] \in Chained => caller'[s] \in Principals
          /\ OAuth /\ stage'[s] = "protecting" => caller'[s] \in Principals
  BY DEF Inv, TypeOK, Goto
<1> QED
  BY <1>1, <1>2 DEF Inv

\* Every step preserves the invariant: one case per action.
LEMMA NextInv == Inv /\ [Next]_vars => Inv'
<1> SUFFICES ASSUME Inv, [Next]_vars PROVE Inv'
  OBVIOUS
<1> USE DEF stats
<1>0. ASSUME UNCHANGED gatewayVars,
             UNCHANGED limiterVars \/ Tick \/ \E r \in Requests : RateStep(r)
      PROVE  Inv'
  <2>1. UNCHANGED <<stage, caller, answer, slots, inflight, httpRequests,
                    httpInflight, httpRejected, httpPrincipalRejected,
                    loaded, page, settled>>
    BY <1>0 DEF gatewayVars, scrapeVars
  <2>3. rateRejected' \in Nat
    BY <1>0 DEF limiterVars, Tick, RateStep, Limiter!Tick, Limiter!ReadClock,
       Limiter!Handle, Limiter!Lock, Limiter!RejectFull, Limiter!RejectLimit,
       Limiter!Admit, Limiter!Reject, Inv, TypeOK
  <2>2. Holding' = Holding /\ Active' = Active
        /\ \A p : RunningFor(p)' = RunningFor(p)
    BY <2>1 DEF Holding, Active, Running, RunningFor
  <2> QED
    BY <2>1, <2>2, <2>3 DEF Inv, TypeOK, SlotsAccounted, Inflight
<1>1. ASSUME NEW r \in Requests, AnswerDirectly(r) \/ Preflight(r) PROVE Inv'
  <2>1. Goto(r, "observed", "finishing")
    BY <1>1 DEF AnswerDirectly, Preflight, Respond
  <2>0. Respond(r, "observed", "finishing", "ok")
    BY <1>1 DEF AnswerDirectly, Preflight
  <2>2. SlotsAccounted'
    BY <2>0, <2>1, QuietStep DEF SlotStages, RunStages, Inv, TypeOK, Respond
  <2> QED
    BY <2>0, <2>1, <2>2, Rest DEF Answer, Inv, TypeOK, Stages, Answers,
       Chained, Goto, Respond
<1>2. ASSUME NEW r \in Requests, DenyOrigin(r) PROVE Inv'
  <2>1. Goto(r, "observed", "finishing")
    BY <1>2 DEF DenyOrigin, Respond
  <2>2. SlotsAccounted'
    BY <1>2, <2>1, QuietStep DEF DenyOrigin, SlotStages, RunStages, Inv, TypeOK, Respond
  <2> QED
    BY <1>2, <2>1, <2>2, Rest DEF DenyOrigin, Answer, Inv, TypeOK, Stages, Answers,
       Chained, Goto, Respond
<1>3. ASSUME NEW r \in Requests, RouteToMCP(r) PROVE Inv'
  <2>1. Goto(r, "observed", "arriving")
    BY <1>3 DEF RouteToMCP, Advance
  <2>2. SlotsAccounted'
    BY <1>3, <2>1, QuietStep DEF RouteToMCP, SlotStages, RunStages, Inv, TypeOK, Advance
  <2> QED
    BY <1>3, <2>1, <2>2, Rest DEF RouteToMCP, Answer, Inv, TypeOK, Stages, Answers,
       Chained, Goto, Advance
<1>4. ASSUME NEW r \in Requests, Shed(r) PROVE Inv'
  <2>1. Goto(r, "arriving", "finishing")
    BY <1>4 DEF Shed
  <2>2. SlotsAccounted'
    BY <1>4, <2>1, QuietStep DEF Shed, SlotStages, RunStages, Inv, TypeOK
  <2>3. /\ answer' \in [Requests -> Answers] /\ caller' = caller
        /\ slots' = slots /\ inflight' = inflight
    BY <1>4 DEF Shed, Answer, Inv, TypeOK, Answers
  <2>4. /\ httpRequests' \in Nat /\ httpInflight' \in Nat
        /\ httpRejected' \in Nat /\ httpPrincipalRejected' \in Nat
        /\ scrapeVars' = scrapeVars /\ limiterVars' = limiterVars
    BY <1>4 DEF Shed, Inv, TypeOK
  <2> QED
    BY <2>1, <2>2, <2>3, <2>4, Rest DEF Inv, TypeOK, Stages, Chained
<1>5. ASSUME NEW r \in Requests, NEW p \in Principals, Authenticate(r, p) PROVE Inv'
  <2>1. Goto(r, "authenticating", "protecting")
    BY <1>5 DEF Authenticate
  <2>2. SlotsAccounted'
    BY <1>5, <2>1, QuietStep DEF Authenticate, SlotStages, RunStages, Inv, TypeOK
  <2>3. /\ caller'[r] \in Principals
        /\ caller' \in [Requests -> Principals \cup {Nobody}]
        /\ \A s \in Requests \ {r} : caller'[s] = caller[s]
    BY <1>5 DEF Authenticate, Inv, TypeOK
  <2>4. UNCHANGED <<answer, slots, inflight, httpRequests, httpInflight,
                    httpRejected, httpPrincipalRejected, scrapeVars,
                    limiterVars>>
    BY <1>5 DEF Authenticate
  <2> QED
    BY <2>1, <2>2, <2>3, <2>4, Rest DEF Inv, TypeOK, Stages
<1>6. ASSUME NEW r \in Requests, RefuseToken(r) PROVE Inv'
  <2>1. Goto(r, "authenticating", "releasing")
    BY <1>6 DEF RefuseToken, Respond
  <2>2. SlotsAccounted'
    BY <1>6, <2>1, QuietStep DEF RefuseToken, SlotStages, RunStages, Inv, TypeOK, Respond
  <2> QED
    BY <1>6, <2>1, <2>2, Rest DEF RefuseToken, Answer, Inv, TypeOK, Stages, Answers,
       Chained, Goto, Respond
<1>7. ASSUME NEW r \in Requests, NEW a \in {"denied", "unauthorized"}, RefuseRequest(r, a) PROVE Inv'
  <2>1. Goto(r, "protecting", "releasing")
    BY <1>7 DEF RefuseRequest, Respond
  <2>2. SlotsAccounted'
    BY <1>7, <2>1, QuietStep DEF RefuseRequest, SlotStages, RunStages, Inv, TypeOK, Respond
  <2> QED
    BY <1>7, <2>1, <2>2, Rest DEF RefuseRequest, Answer, Inv, TypeOK, Stages, Answers,
       Chained, Goto, Respond
<1>8. ASSUME NEW r \in Requests, RatePass(r) PROVE Inv'
  <2>1. Goto(r, "rating", "entering")
    BY <1>8 DEF RatePass, Advance
  <2>2. SlotsAccounted'
    BY <1>8, <2>1, QuietStep DEF RatePass, SlotStages, RunStages, Inv, TypeOK, Advance
  <2> QED
    BY <1>8, <2>1, <2>2, Rest DEF RatePass, Answer, Inv, TypeOK, Stages, Answers,
       Chained, Goto, Advance
<1>9. ASSUME NEW r \in Requests, RateRefused(r) PROVE Inv'
  <2>1. Goto(r, "rating", "releasing")
    BY <1>9 DEF RateRefused, Respond
  <2>2. SlotsAccounted'
    BY <1>9, <2>1, QuietStep DEF RateRefused, SlotStages, RunStages, Inv, TypeOK, Respond
  <2> QED
    BY <1>9, <2>1, <2>2, Rest DEF RateRefused, Answer, Inv, TypeOK, Stages, Answers,
       Chained, Goto, Respond
<1>10. ASSUME NEW r \in Requests, RefuseBusy(r) PROVE Inv'
  <2>1. Goto(r, "entering", "refusing")
    BY <1>10 DEF RefuseBusy, Advance
  <2>2. SlotsAccounted'
    BY <1>10, <2>1, QuietStep DEF RefuseBusy, SlotStages, RunStages, Inv, TypeOK, Advance
  <2> QED
    BY <1>10, <2>1, <2>2, Rest DEF RefuseBusy, Answer, Inv, TypeOK, Stages, Answers,
       Chained, Goto, Advance
<1>11. ASSUME NEW r \in Requests, CountBusy(r) PROVE Inv'
  <2>1. Goto(r, "refusing", "releasing")
    BY <1>11 DEF CountBusy
  <2>2. SlotsAccounted'
    BY <1>11, <2>1, QuietStep DEF CountBusy, SlotStages, RunStages, Inv, TypeOK
  <2>3. /\ answer' \in [Requests -> Answers] /\ caller' = caller
        /\ slots' = slots /\ inflight' = inflight
    BY <1>11 DEF CountBusy, Answer, Inv, TypeOK, Answers
  <2>4. /\ httpRequests' \in Nat /\ httpInflight' \in Nat
        /\ httpRejected' \in Nat /\ httpPrincipalRejected' \in Nat
        /\ scrapeVars' = scrapeVars /\ limiterVars' = limiterVars
    BY <1>11 DEF CountBusy, Inv, TypeOK
  <2> QED
    BY <2>1, <2>2, <2>3, <2>4, Rest DEF Inv, TypeOK, Stages, Chained
<1>12. ASSUME NEW r \in Requests, Return(r) PROVE Inv'
  <2>1. Goto(r, "serving", "leaving")
    BY <1>12 DEF Return, Respond
  <2>2. SlotsAccounted'
    BY <1>12, <2>1, QuietStep DEF Return, SlotStages, RunStages, Inv, TypeOK, Respond
  <2> QED
    BY <1>12, <2>1, <2>2, Rest DEF Return, Answer, Inv, TypeOK, Stages, Answers,
       Chained, Goto, Respond
<1>13. ASSUME NEW r \in Requests, Panic(r) PROVE Inv'
  <2>1. Goto(r, "serving", "leaving")
    BY <1>13 DEF Panic, Respond
  <2>2. SlotsAccounted'
    BY <1>13, <2>1, QuietStep DEF Panic, SlotStages, RunStages, Inv, TypeOK, Respond
  <2> QED
    BY <1>13, <2>1, <2>2, Rest DEF Panic, Answer, Inv, TypeOK, Stages, Answers,
       Chained, Goto, Respond
<1>14. ASSUME NEW r \in Requests, NEW p \in Principals, Protect(r, p) PROVE Inv'
  <2>1. PICK to \in {"rating", "entering"} : Goto(r, "protecting", to)
    BY <1>14 DEF Protect, Goto
  <2>2. SlotsAccounted'
    BY <1>14, <2>1, QuietStep DEF Protect, SlotStages, RunStages, Inv, TypeOK
  <2>3. /\ caller'[r] \in Principals
        /\ caller' \in [Requests -> Principals \cup {Nobody}]
        /\ \A s \in Requests \ {r} : caller'[s] = caller[s]
    BY <1>14 DEF Protect, Inv, TypeOK
  <2>4. UNCHANGED <<answer, slots, inflight, httpRequests, httpInflight,
                    httpRejected, httpPrincipalRejected, scrapeVars,
                    limiterVars>>
    BY <1>14 DEF Protect
  <2> QED
    BY <2>1, <2>2, <2>3, <2>4, Rest DEF Inv, TypeOK, Stages
<1>15. ASSUME NEW r \in Requests, ObserveInflight(r) PROVE Inv'
  <2>1. Goto(r, "counted", "observed") /\ caller' = caller /\ TypeOK
    BY <1>15 DEF ObserveInflight, Inv
  <2>2. Holding' = Holding /\ \A p : RunningFor(p)' = RunningFor(p)
    BY <2>1, Moves DEF SlotStages, RunStages
  <2>3. Active' = Active \cup {r} /\ r \notin Active
    BY <2>1, Moves
  <2>4. Cardinality(Active') = Cardinality(Active) + 1
    BY <2>3, CountedSets, OneMore
  <2>5. SlotsAccounted'
    BY <1>15, <2>2, <2>4 DEF ObserveInflight, Inv, SlotsAccounted, Inflight
  <2> QED
    BY <1>15, <2>1, <2>5, Rest DEF ObserveInflight, Inv, TypeOK, Stages, Chained
<1>16. ASSUME NEW r \in Requests, AcquireSlot(r) PROVE Inv'
  <2>1. PICK to \in {"authenticating", "protecting"} :
           Goto(r, "arriving", to) /\ (to = "protecting" => ~OAuth)
    BY <1>16, GatewayAssumption DEF AcquireSlot, Goto
  <2>2. caller' = caller /\ TypeOK
    BY <1>16 DEF AcquireSlot, Inv
  <2>3. Active' = Active /\ \A p : RunningFor(p)' = RunningFor(p)
    BY <2>1, <2>2, Moves DEF RunStages
  <2>4. Holding' = Holding \cup {r} /\ r \notin Holding
    BY <2>1, <2>2, Moves DEF SlotStages
  <2>5. Cardinality(Holding') = Cardinality(Holding) + 1
    BY <2>4, CountedSets, OneMore
  <2>6. SlotsAccounted'
    BY <1>16, <2>3, <2>5 DEF AcquireSlot, Inv, SlotsAccounted, Inflight
  <2>7. slots' \in Nat /\ slots' <= MaxConcurrent
    BY <1>16, GatewayAssumption DEF AcquireSlot, Inv, TypeOK
  <2> QED
    BY <1>16, <2>1, <2>6, <2>7, Rest DEF AcquireSlot, Inv, TypeOK, Stages, Chained
<1>17. ASSUME NEW r \in Requests, Release(r) PROVE Inv'
  <2>1. Goto(r, "releasing", "finishing") /\ caller' = caller /\ TypeOK
    BY <1>17 DEF Release, Inv
  <2>2. Active' = Active /\ \A p : RunningFor(p)' = RunningFor(p)
    BY <2>1, Moves DEF RunStages
  <2>3. Holding' = Holding \ {r} /\ r \in Holding
    BY <2>1, Moves DEF SlotStages
  <2>4. Cardinality(Holding') = Cardinality(Holding) - 1 /\ Cardinality(Holding) > 0
    BY <2>3, CountedSets, OneLess
  <2>5. SlotsAccounted'
    BY <1>17, <2>2, <2>4 DEF Release, Inv, SlotsAccounted, Inflight
  <2>6. slots' \in Nat /\ slots' <= MaxConcurrent
    BY <1>17, <2>4, GatewayAssumption DEF Release, Inv, TypeOK, SlotsAccounted
  <2> QED
    BY <1>17, <2>1, <2>5, <2>6, Rest DEF Release, Inv, TypeOK, Stages, Chained
<1>18. ASSUME NEW r \in Requests, Finish(r) PROVE Inv'
  <2>1. Goto(r, "finishing", "done") /\ caller' = caller /\ TypeOK
    BY <1>18 DEF Finish, Inv
  <2>2. Holding' = Holding /\ \A p : RunningFor(p)' = RunningFor(p)
    BY <2>1, Moves DEF SlotStages, RunStages
  <2>3. Active' = Active \ {r} /\ r \in Active
    BY <2>1, Moves
  <2>4. Cardinality(Active') = Cardinality(Active) - 1 /\ Cardinality(Active) > 0
    BY <2>3, CountedSets, OneLess
  <2>5. SlotsAccounted' /\ httpInflight' \in Nat
    BY <1>18, <2>2, <2>4 DEF Finish, Inv, TypeOK, SlotsAccounted, Inflight
  <2> QED
    BY <1>18, <2>1, <2>5, Rest DEF Finish, Inv, TypeOK, Stages, Chained
<1>19. CASE Tick \/ (\E r \in Requests : RateStep(r)) \/ UNCHANGED vars
  BY <1>0, <1>19 DEF Tick, RateStep, vars
<1>21. ASSUME NEW r \in Requests, Observe(r) PROVE Inv'
  <2>1. Goto(r, "new", "counted") /\ caller' = caller
    BY <1>21 DEF Observe
  <2>2. SlotsAccounted'
    BY <1>21, <2>1, QuietStep DEF Observe, SlotStages, RunStages, Inv, TypeOK
  <2> QED
    BY <1>21, <2>1, <2>2, Rest DEF Observe, Inv, TypeOK, Stages, Chained
<1>22. ASSUME NEW r \in Requests, Scrape(r) PROVE Inv'
  <2>1. Goto(r, "observed", "scraping") /\ caller' = caller
    BY <1>22 DEF Scrape
  <2>2. SlotsAccounted'
    BY <1>22, <2>1, QuietStep DEF Scrape, SlotStages, RunStages, Inv, TypeOK
  <2>3. ScrapeType'
    BY <1>22 DEF Scrape, Inv, TypeOK, ScrapeType, Done
  <2> QED
    BY <1>22, <2>1, <2>2, <2>3, Rest DEF Scrape, Inv, TypeOK, Stages, Chained
<1>23. ASSUME NEW r \in Requests, Load(r) PROVE Inv'
  <2>1. UNCHANGED <<stage, caller, answer, slots, inflight, httpRequests,
                    httpInflight, httpRejected, httpPrincipalRejected, settled,
                    rateRejected>>
    BY <1>23 DEF Load, limiterVars
  <2>2. Holding' = Holding /\ Active' = Active
        /\ \A p : RunningFor(p)' = RunningFor(p)
    BY <2>1 DEF Holding, Active, Running, RunningFor
  <2>3. loaded' \in [Scrapers -> 0 .. 5]
    BY <1>23 DEF Load, Inv, TypeOK
  <2>4. page' \in [Scrapers -> [Figures -> Nat]]
    <3>1. loaded[r] + 1 \in Figures /\ r \in Scrapers
      BY <1>23 DEF Load, Inv, TypeOK, Figures
    <3>2. Metrics[loaded[r] + 1] \in Nat
      BY <3>1 DEF Metrics, Inv, TypeOK, Figures
    <3> QED
      BY <1>23, <3>1, <3>2 DEF Load, Inv, TypeOK
  <2> QED
    BY <2>1, <2>2, <2>3, <2>4 DEF Inv, TypeOK, SlotsAccounted, Inflight
<1>24. ASSUME NEW r \in Requests, Scraped(r) PROVE Inv'
  <2>1. Goto(r, "scraping", "finishing")
    BY <1>24 DEF Scraped, Respond
  <2>2. SlotsAccounted'
    BY <1>24, <2>1, QuietStep DEF Scraped, SlotStages, RunStages, Inv, TypeOK, Respond
  <2> QED
    BY <1>24, <2>1, <2>2, Rest DEF Scraped, Answer, Inv, TypeOK, Stages, Answers,
       Chained, Goto, Respond
<1>20. \/ Tick \/ UNCHANGED vars
       \/ \E r \in Requests : Observe(r) \/ Step(r)
  BY DEF Next
<1> QED
  BY <1>1, <1>2, <1>3, <1>4, <1>5, <1>6, <1>7, <1>8, <1>9,
     <1>10, <1>11, <1>12, <1>13, <1>14, <1>15, <1>16, <1>17, <1>18, <1>19, <1>20,
     <1>21, <1>22, <1>23, <1>24, EnterInv, LeaveInv DEF Step

----------------------------------------------------------------------------
(* The theorems.                                                           *)

\* Every behaviour of the chain satisfies the inductive invariant.
THEOREM InvHolds == Spec => []Inv
<1> QED
  BY InitInv, NextInv, PTL DEF Spec

\* The state of the chain keeps its type; no counter goes below zero.
THEOREM TypeCorrect == Spec => []TypeOK
<1>1. Inv => TypeOK
  BY DEF Inv
<1> QED
  BY <1>1, InvHolds, PTL

\* Channel, map and gauge count exactly the requests they stand for, in every
\* interleaving of any number of requests.
THEOREM AccountingHolds == Spec => []SlotsAccounted
<1>1. Inv => SlotsAccounted
  BY DEF Inv
<1> QED
  BY <1>1, InvHolds, PTL

\* Nobody is refused for requests that are no longer there.
THEOREM RefusalsHold == Spec => RefusalsJustified
<1>1. ASSUME Inv, [Next]_vars
      PROVE  \A r \in Requests :
                /\ (stage[r] = "arriving" /\ stage'[r] = "finishing") =>
                      Cardinality(Holding) >= MaxConcurrent
                /\ (stage[r] = "entering" /\ stage'[r] = "refusing") =>
                      Cardinality(RunningFor(caller[r])) >= PerPrincipal
  <2> SUFFICES ASSUME NEW r \in Requests
               PROVE  /\ (stage[r] = "arriving" /\ stage'[r] = "finishing") =>
                            Cardinality(Holding) >= MaxConcurrent
                      /\ (stage[r] = "entering" /\ stage'[r] = "refusing") =>
                            Cardinality(RunningFor(caller[r])) >= PerPrincipal
    OBVIOUS
  <2>1. ASSUME stage[r] = "arriving", stage'[r] = "finishing"
        PROVE  slots >= MaxConcurrent
    BY <1>1, <2>1 DEF Inv, TypeOK, Next, Step, vars, gatewayVars, Goto, Tick,
       Observe, ObserveInflight, AnswerDirectly, Scrape, Load, Scraped, Preflight,
       DenyOrigin, RouteToMCP, AcquireSlot, Shed,
       Authenticate, RefuseToken, Protect, RefuseRequest, RateStep, RatePass,
       RateRefused, Enter, RefuseBusy, CountBusy, Return, Panic, Leave,
       Release, Finish, Respond, Advance, EnterBelow
  <2>2. ASSUME stage[r] = "entering", stage'[r] = "refusing"
        PROVE  Inflight(caller[r]) >= PerPrincipal
    BY <1>1, <2>2 DEF Inv, TypeOK, Next, Step, vars, gatewayVars, Goto, Tick,
       Observe, ObserveInflight, AnswerDirectly, Scrape, Load, Scraped, Preflight,
       DenyOrigin, RouteToMCP, AcquireSlot, Shed,
       Authenticate, RefuseToken, Protect, RefuseRequest, RateStep, RatePass,
       RateRefused, Enter, RefuseBusy, CountBusy, Return, Panic, Leave,
       Release, Finish, Respond, Advance, EnterBelow
  <2>3. stage[r] = "entering" => caller[r] \in Principals
    BY <1>1 DEF Inv, Chained
  <2> QED
    BY <1>1, <2>1, <2>2, <2>3 DEF Inv, SlotsAccounted
<1> QED
  BY <1>1, InvHolds, PTL DEF Spec, RefusalsJustified

\* Counting means the same in both specifications.
LEMMA SameCardinality ==
    ASSUME NEW S
    PROVE  Abstract!Cardinality(S) = Cardinality(S)
BY Zenon DEF Cardinality, Abstract!Cardinality

\* Entering the MCP handler is a Start of the abstract specification: with r
\* not yet among the running, they are fewer than the places it shares.
LEMMA EnterStarts ==
    ASSUME Inv, NEW r \in Requests, Enter(r)
    PROVE  Abstract!CapacityNext
<1>a. caller[r] \in Principals
  BY DEF Inv, Enter, Goto, Chained, EnterBelow
<1>b. PICK c \in Principals : c = caller[r]
  BY <1>a
<1>1. /\ stage[r] = "entering" /\ caller' = caller /\ TypeOK
      /\ stage' = [stage EXCEPT ![r] = "serving"]
  BY DEF Enter, Goto, Inv, EnterBelow
<1>2. Running' = Running \cup {r} /\ r \notin Running
  BY <1>1 DEF Running, RunStages, TypeOK
<1>3. Cardinality(Running) < MaxConcurrent
  <2>1. /\ Running \subseteq Holding \ {r} /\ r \in Holding
        /\ Holding \in SUBSET Requests
    BY <1>1, <1>2 DEF Running, Holding, RunStages, SlotStages
  <2>2. /\ Cardinality(Holding \ {r}) = Cardinality(Holding) - 1
        /\ Cardinality(Holding) \in Nat
    BY <2>1, OneLess, Finite
  <2>3. IsFiniteSet(Holding \ {r})
    BY <2>1, Finite
  <2>4. /\ Cardinality(Running) <= Cardinality(Holding \ {r})
        /\ Cardinality(Running) \in Nat
    BY <2>1, <2>3, FS_Subset, FS_CardinalityType
  <2>5. Cardinality(Holding) <= MaxConcurrent
    BY DEF Inv, SlotsAccounted
  <2> QED
    BY <2>2, <2>4, <2>5, GatewayAssumption
<1>4. Abstract!RunningFor(c) = RunningFor(c) /\ DOMAIN HandlersOf = Running
  BY DEF RunningFor, HandlersOf, Abstract!RunningFor
<1>5. Cardinality(RunningFor(c)) < PerPrincipal
  BY <1>b DEF Enter, Inv, SlotsAccounted, EnterBelow
<1>6. HandlersOf' = [s \in DOMAIN HandlersOf \cup {r} |->
                       IF s = r THEN c ELSE HandlersOf[s]]
  BY <1>b, <1>1, <1>2 DEF HandlersOf
<1>7. Abstract!Start(r, c)
  BY <1>2, <1>3, <1>4, <1>5, <1>6, SameCardinality DEF Abstract!Start
<1> QED
  BY <1>7 DEF Abstract!CapacityNext

\* Leaving it is a Stop.
LEMMA LeaveStops ==
    ASSUME Inv, NEW r \in Requests, Leave(r)
    PROVE  Abstract!CapacityNext
<1>1. /\ stage[r] = "leaving" /\ caller' = caller /\ TypeOK
      /\ stage' = [stage EXCEPT ![r] = "releasing"]
  BY DEF Leave, Goto, Inv
<1>2. Running' = Running \ {r} /\ r \in Running
  BY <1>1 DEF Running, RunStages, TypeOK
<1>3. HandlersOf' = [s \in DOMAIN HandlersOf \ {r} |-> HandlersOf[s]]
  BY <1>1, <1>2 DEF HandlersOf
<1>4. Abstract!Stop(r)
  BY <1>2, <1>3 DEF Abstract!Stop, HandlersOf
<1> QED
  BY <1>4 DEF Abstract!CapacityNext

\* Every other step leaves the running handlers and their principals alone.
LEMMA OthersStutter ==
    ASSUME Inv, [Next]_vars,
           ~ \E r \in Requests : Enter(r) \/ Leave(r)
    PROVE  UNCHANGED HandlersOf
<1>1. ASSUME NEW r \in Requests, NEW from, NEW to, Goto(r, from, to),
             from \in RunStages <=> to \in RunStages,
             \A s \in Requests \ {r} : caller'[s] = caller[s],
             from \in RunStages => caller'[r] = caller[r]
      PROVE  UNCHANGED HandlersOf
  <2>1. Running' = Running
    BY <1>1 DEF Inv, TypeOK, Goto, Running
  <2>2. \A s \in Running : caller'[s] = caller[s]
    BY <1>1 DEF Running, Goto
  <2> QED
    BY <2>1, <2>2 DEF HandlersOf
<1>2. CASE UNCHANGED gatewayVars
  BY <1>2 DEF gatewayVars, Running, HandlersOf
<1>3. ASSUME NEW r \in Requests, NEW p \in Principals,
             Authenticate(r, p) \/ Protect(r, p)
      PROVE  UNCHANGED HandlersOf
  <2>1. PICK from \in {"authenticating", "protecting"},
             to \in {"protecting", "rating", "entering"} : Goto(r, from, to)
    BY <1>3 DEF Authenticate, Protect, Goto
  <2>2. \A s \in Requests \ {r} : caller'[s] = caller[s]
    BY <1>3 DEF Authenticate, Protect, Inv, TypeOK
  <2> QED
    BY <1>1, <2>1, <2>2 DEF RunStages
<1>4. ASSUME NEW r \in Requests, caller' = caller,
             \/ Observe(r) \/ ObserveInflight(r) \/ AnswerDirectly(r)
             \/ Scrape(r) \/ Scraped(r) \/ Preflight(r) \/ DenyOrigin(r)
             \/ RouteToMCP(r) \/ AcquireSlot(r) \/ Shed(r) \/ RefuseToken(r)
             \/ \E a \in {"denied", "unauthorized"} : RefuseRequest(r, a)
             \/ RatePass(r) \/ RateRefused(r) \/ RefuseBusy(r) \/ CountBusy(r)
             \/ Return(r) \/ Panic(r) \/ Release(r) \/ Finish(r)
      PROVE  UNCHANGED HandlersOf
  <2>1. PICK from, to : /\ Goto(r, from, to)
                        /\ from \in RunStages <=> to \in RunStages
    BY <1>4 DEF Observe, ObserveInflight, AnswerDirectly, Scrape, Scraped,
       Preflight, DenyOrigin, RouteToMCP, AcquireSlot,
       Shed, RefuseToken, RefuseRequest, RatePass, RateRefused, RefuseBusy,
       CountBusy, Return, Panic, Release, Finish, RunStages, Respond, Advance
  <2> QED
    BY <1>1, <1>4, <2>1
<1>6. ASSUME NEW r \in Requests, Load(r) PROVE UNCHANGED HandlersOf
  BY <1>6 DEF Load, Running, HandlersOf
<1>5. \/ UNCHANGED gatewayVars
      \/ \E r \in Requests :
            \/ Observe(r) \/ ObserveInflight(r) \/ AnswerDirectly(r)
            \/ Scrape(r) \/ Load(r) \/ Scraped(r) \/ Preflight(r) \/ DenyOrigin(r)
            \/ RouteToMCP(r) \/ AcquireSlot(r) \/ Shed(r) \/ RefuseToken(r)
            \/ \E p \in Principals : Authenticate(r, p) \/ Protect(r, p)
            \/ \E a \in {"denied", "unauthorized"} : RefuseRequest(r, a)
            \/ RatePass(r) \/ RateRefused(r) \/ RefuseBusy(r) \/ CountBusy(r)
            \/ Return(r) \/ Panic(r) \/ Release(r) \/ Finish(r)
  BY DEF Next, Step, vars, Tick, RateStep
<1> QED
  BY <1>2, <1>3, <1>4, <1>5, <1>6 DEF Observe, ObserveInflight, AnswerDirectly,
     Scrape, Scraped, Preflight, DenyOrigin, RouteToMCP,
     AcquireSlot, Shed, RefuseToken, RefuseRequest, RatePass, RateRefused,
     RefuseBusy, CountBusy, Return, Panic, Release, Finish, Respond, Advance

\* The chain implements the abstract specification of the two limits.
THEOREM CapacityHolds == Spec => CapacityRefined
<1>1. Init => Abstract!CapacityInit
  <2> SUFFICES ASSUME Init PROVE Abstract!CapacityInit
    OBVIOUS
  <2>1. Running = {}
    BY DEF Init, Running, RunStages
  <2> QED
    BY <2>1 DEF Abstract!CapacityInit, HandlersOf
<1>2. ASSUME Inv, [Next]_vars
      PROVE  Abstract!CapacityNext \/ UNCHANGED HandlersOf
  BY <1>2, EnterStarts, LeaveStops, OthersStutter
<1> QED
  BY <1>1, <1>2, InvHolds, PTL DEF Spec, CapacityRefined, Abstract!CapacitySpec

----------------------------------------------------------------------------
(* The rate limiter inside the chain.                                      *)

\* A step of the chain is a step of the limiter or leaves it alone: the only
\* principals that reach it are authenticated ones.
LEMMA LimiterStep ==
    ASSUME Inv, [Next]_vars
    PROVE  [Limiter!Next]_(Limiter!vars)
<1>1. CASE UNCHANGED limiterVars
  BY <1>1 DEF limiterVars, Limiter!vars
<1>2. CASE Limiter!Tick
  BY <1>2 DEF Limiter!Next
<1>3. ASSUME NEW r \in Requests, RateStep(r) PROVE Limiter!Next
  <2>1. caller[r] \in Principals
    BY <1>3 DEF Inv, RateStep, Chained
  <2>2. Limiter!ReadClock(r, caller[r]) \/ Limiter!Handle(r)
    BY <1>3 DEF RateStep
  <2> QED
    BY <2>1, <2>2 DEF Limiter!Next
<1>4. \/ UNCHANGED limiterVars \/ Limiter!Tick
      \/ \E r \in Requests : RateStep(r)
  BY DEF Next, Step, vars, Tick, Observe, ObserveInflight, AnswerDirectly, Scrape,
     Load, Scraped, Preflight, DenyOrigin,
     RouteToMCP, AcquireSlot, Shed, Authenticate, RefuseToken, Protect,
     RefuseRequest, RatePass, RateRefused, Enter, RefuseBusy, CountBusy, Return,
     Panic, Leave, Release, Finish, Respond, Advance, EnterBelow
<1> QED
  BY <1>1, <1>2, <1>3, <1>4

\* The chain implements the limiter's own specification.
THEOREM LimiterHolds == Spec => LimiterRefined
<1>1. Init => Limiter!Init
  BY DEF Init
<1>2. Inv /\ [Next]_vars => [Limiter!Next]_(Limiter!vars)
  BY LimiterStep
<1> QED
  BY <1>1, <1>2, InvHolds, PTL DEF Spec, LimiterRefined, Limiter!Spec

\* The limiter's theorems, for the limiter of the chain.
Alone == INSTANCE RateLimiterProofs

\* The constants of the chain meet the limiter's assumptions.
LEMMA AloneAssumptions == Alone!RateAssumption /\ Alone!StaleAssumption
BY LimiterAssumption, GatewayAssumption DEF Alone!RateAssumption, Alone!StaleAssumption

\* The two instances of the limiter are the same specification.
LEMMA SameInit == Limiter!Init => Alone!Init
BY DEF Limiter!Init, Alone!Init, Limiter!Fresh, Alone!Fresh

\* Both count alike.
LEMMA SameCount ==
    ASSUME NEW S
    PROVE  /\ Limiter!Cardinality(S) = Alone!Cardinality(S)
           /\ Alone!Cardinality(S) = Cardinality(S)
<1>1. Limiter!Cardinality(S) = Alone!Cardinality(S)
  BY Zenon DEF Limiter!Cardinality, Alone!Cardinality
<1>2. Alone!Cardinality(S) = Cardinality(S)
  BY Zenon DEF Cardinality, Alone!Cardinality
<1> QED
  BY <1>1, <1>2

\* The operators on the table agree as well.
LEMMA SameTable ==
    ASSUME NEW ws, NEW p, NEW t
    PROVE  /\ Limiter!Settled(ws, p, t) = Alone!Settled(ws, p, t)
           /\ Limiter!NoRoom(ws, p, t) <=> Alone!NoRoom(ws, p, t)
           /\ Limiter!Current(ws, p, t) = Alone!Current(ws, p, t)
           /\ Limiter!Exhausted(ws, p, t) <=> Alone!Exhausted(ws, p, t)
           /\ Limiter!Counted(ws, p, t) = Alone!Counted(ws, p, t)
<1>1. Limiter!OwnDropped(ws, p, t) = Alone!OwnDropped(ws, p, t)
  BY DEF Limiter!OwnDropped, Alone!OwnDropped, Limiter!Expired, Alone!Expired,
         Limiter!Without, Alone!Without
<1>2. \A v : /\ Limiter!Swept(v, t) = Alone!Swept(v, t)
             /\ Limiter!IsFull(v) <=> Alone!IsFull(v)
  BY SameCount DEF Limiter!Swept, Alone!Swept, Limiter!Expired, Alone!Expired,
         Limiter!Without, Alone!Without, Limiter!IsFull, Alone!IsFull
<1>3. Limiter!Settled(ws, p, t) = Alone!Settled(ws, p, t)
  BY <1>1, <1>2 DEF Limiter!Settled, Alone!Settled
<1>4. Limiter!Tracked(ws, p, t) <=> Alone!Tracked(ws, p, t)
  BY <1>1 DEF Limiter!Tracked, Alone!Tracked
<1>5. Limiter!NoRoom(ws, p, t) <=> Alone!NoRoom(ws, p, t)
  BY <1>2, <1>3, <1>4 DEF Limiter!NoRoom, Alone!NoRoom
<1>6. Limiter!Current(ws, p, t) = Alone!Current(ws, p, t)
  BY <1>3, <1>4 DEF Limiter!Current, Alone!Current, Limiter!Fresh, Alone!Fresh
<1>7. Limiter!Exhausted(ws, p, t) <=> Alone!Exhausted(ws, p, t)
  BY <1>5, <1>6 DEF Limiter!Exhausted, Alone!Exhausted
<1>8. Limiter!Counted(ws, p, t) = Alone!Counted(ws, p, t)
  BY <1>3, <1>6 DEF Limiter!Counted, Alone!Counted
<1> QED
  BY <1>3, <1>5, <1>6, <1>7, <1>8

\* So every step of one is a step of the other.
LEMMA SameNext == [Limiter!Next]_(Limiter!vars) => [Alone!Next]_(Alone!vars)
<1>1. ASSUME NEW w, NEW t PROVE Limiter!RetryAfter(w, t) = Alone!RetryAfter(w, t)
  BY DEF Limiter!RetryAfter, Alone!RetryAfter
<1>2. ASSUME NEW r \in Requests
      PROVE  /\ Limiter!Unidentified(r) => Alone!Unidentified(r)
             /\ \A p : Limiter!ReadClock(r, p) => Alone!ReadClock(r, p)
             /\ Limiter!Lock(r) => Alone!Lock(r)
             /\ Limiter!Reject(r) => Alone!Reject(r)
  BY DEF Limiter!Unidentified, Alone!Unidentified, Limiter!ReadClock,
         Alone!ReadClock, Limiter!Lock, Alone!Lock, Limiter!Reject, Alone!Reject
<1>3. ASSUME NEW r \in Requests PROVE Limiter!RejectFull(r) => Alone!RejectFull(r)
  BY SameTable DEF Limiter!RejectFull, Alone!RejectFull
<1>4. ASSUME NEW r \in Requests PROVE Limiter!RejectLimit(r) => Alone!RejectLimit(r)
  <2> DEFINE w == Alone!Current(windows, principal[r], now[r])
  <2>1. /\ Limiter!Current(windows, principal[r], now[r]) = w
        /\ Limiter!Settled(windows, principal[r], now[r])
             = Alone!Settled(windows, principal[r], now[r])
        /\ Limiter!Exhausted(windows, principal[r], now[r])
             <=> Alone!Exhausted(windows, principal[r], now[r])
    BY SameTable
  <2> HIDE DEF w
  <2>2. Limiter!RetryAfter(w, now[r]) = Alone!RetryAfter(w, now[r])
    BY <1>1
  <2> QED
    BY <2>1, <2>2 DEF Limiter!RejectLimit, Alone!RejectLimit, w
<1>5. ASSUME NEW r \in Requests PROVE Limiter!Admit(r) => Alone!Admit(r)
  BY SameTable DEF Limiter!Admit, Alone!Admit
<1>6. Limiter!Tick => Alone!Tick
  BY DEF Limiter!Tick, Alone!Tick
<1>7. Limiter!vars = Alone!vars /\ Limiter!vars' = Alone!vars'
  BY DEF Limiter!vars, Alone!vars
<1> QED
  BY <1>2, <1>3, <1>4, <1>5, <1>6, <1>7
     DEF Limiter!Next, Alone!Next, Limiter!Handle, Alone!Handle

\* The limiter of the chain takes the steps of the limiter alone.
LEMMA AloneRuns == Spec => Alone!Spec
BY SameInit, SameNext, LimiterHolds, PTL
   DEF LimiterRefined, Limiter!Spec, Alone!Spec

\* What is proved of the limiter on its own holds of it in the chain: its
\* inductive invariants ...
THEOREM LimiterInherits == Spec => [](Alone!Inv /\ Alone!HistoryInv)
BY AloneRuns, AloneAssumptions, Alone!InvHolds, Alone!HistoryHolds, PTL

\* ... and so what it promises a principal and an operator: fewer than two quotas
\* in any interval of a window, a Retry-After that is enough, a window that is
\* not lost before it has ended.
THEOREM LimitsInherited ==
    Spec => [](Alone!QuotaAndCapacity /\ Alone!BurstBound /\ Alone!RetryAfterIsEnough)
            /\ Alone!NoEarlyEviction
BY AloneRuns, AloneAssumptions, Alone!QuotaHolds, Alone!BurstHolds, Alone!RetryHolds,
   Alone!EvictionHolds, PTL

----------------------------------------------------------------------------
(* Progress of a request against its answer and against the limiter.       *)

Unanswered == {"new", "counted", "observed", "scraping", "arriving",
               "authenticating", "protecting", "rating", "entering", "refusing",
               "serving"}
Unrated == {"new", "counted", "observed", "scraping", "arriving",
            "authenticating", "protecting"}
Rated == {"entering", "refusing", "serving", "leaving"}

\* A request has no answer before the layer that gives it, is not known to the
\* limiter before it gets there, and is known there under its caller's name.
Phase(r) ==
    /\ stage[r] \in Unanswered => answer[r] = "none"
    /\ stage[r] \in Unrated => pc[r] = "idle"
    /\ stage[r] = "rating" /\ pc[r] # "idle" => principal[r] = caller[r]
    /\ RateEnabled /\ stage[r] \in Rated =>
          pc[r] = "forwarded" /\ principal[r] = caller[r]

PhaseInv ==
    /\ pc \in [Requests -> Limiter!PCs]
    /\ principal \in [Requests -> Principals \cup {Nobody}]
    /\ \A r \in Requests : Phase(r)

\* A step of the chain outside the limiter moves r along, and nobody else.
LEMMA PhaseGoto ==
    ASSUME TypeOK, PhaseInv, NEW r \in Requests, NEW from, NEW to,
           Goto(r, from, to), UNCHANGED limiterVars,
           \A s \in Requests \ {r} : caller'[s] = caller[s] /\ answer'[s] = answer[s],
           to \in Unanswered => from \in Unanswered /\ answer'[r] = answer[r],
           to \in Unrated => from \in Unrated,
           to = "rating" => from \in Unrated,
           RateEnabled /\ to \in Rated =>
               /\ caller'[r] = caller[r]
               /\ from \in Rated \/ (from = "rating" /\ pc[r] = "forwarded")
    PROVE  PhaseInv'
<1>1. /\ stage[r] = from /\ stage'[r] = to
      /\ \A s \in Requests \ {r} : stage'[s] = stage[s]
  BY DEF Goto, TypeOK
<1>2. pc' = pc /\ principal' = principal
  BY DEF limiterVars
<1>3. ASSUME NEW s \in Requests, s # r PROVE Phase(s)'
  BY <1>1, <1>2, <1>3 DEF Phase, PhaseInv
<1>4. Phase(r)'
  BY <1>1, <1>2 DEF Phase, PhaseInv, Unrated, Rated
<1> QED
  BY <1>2, <1>3, <1>4 DEF PhaseInv

\* The limiter's steps on behalf of r concern r alone.
LEMMA PhaseRate ==
    ASSUME TypeOK, PhaseInv, NEW r \in Requests, RateStep(r)
    PROVE  PhaseInv'
<1>1. /\ stage[r] = "rating" /\ UNCHANGED <<stage, caller, answer>>
      /\ Limiter!ReadClock(r, caller[r]) \/ Limiter!Handle(r)
  BY DEF RateStep, gatewayVars
<1>2. /\ pc' \in [Requests -> Limiter!PCs]
      /\ principal' \in [Requests -> Principals \cup {Nobody}]
      /\ \A s \in Requests \ {r} : pc'[s] = pc[s] /\ principal'[s] = principal[s]
      /\ \/ principal'[r] = caller[r]
         \/ pc[r] # "idle" /\ principal'[r] = principal[r]
  BY <1>1 DEF TypeOK, PhaseInv, Limiter!ReadClock, Limiter!Handle, Limiter!Lock,
     Limiter!RejectFull, Limiter!RejectLimit, Limiter!Admit, Limiter!Reject,
     Limiter!PCs
<1>3. ASSUME NEW s \in Requests PROVE Phase(s)'
  BY <1>1, <1>2 DEF Phase, PhaseInv, Unanswered, Unrated, Rated
<1> QED
  BY <1>2, <1>3 DEF PhaseInv

\* Nobody has started.
LEMMA PhaseInit == Init => PhaseInv
BY DEF Init, PhaseInv, Phase, Limiter!Init, Limiter!PCs, Unanswered, Unrated, Rated

\* Every step keeps the phases.
LEMMA PhaseNext == TypeOK /\ PhaseInv /\ [Next]_vars => PhaseInv'
<1> SUFFICES ASSUME TypeOK, PhaseInv, [Next]_vars PROVE PhaseInv'
  OBVIOUS
<1> USE DEF stats, Unanswered, Unrated, Rated
<1>1. ASSUME NEW r \in Requests,
             \/ Observe(r) \/ ObserveInflight(r) \/ Scrape(r) \/ RouteToMCP(r)
             \/ AcquireSlot(r) \/ RefuseBusy(r)
             \/ Enter(r) \/ Leave(r) \/ Release(r) \/ Finish(r)
      PROVE  PhaseInv'
  <2>1. UNCHANGED <<caller, answer>> /\ UNCHANGED limiterVars
    BY <1>1 DEF Observe, ObserveInflight, Scrape, RouteToMCP, AcquireSlot, RefuseBusy, Enter, EnterBelow,
                Leave, Release, Finish, Advance
  <2>2. PICK from, to :
           /\ Goto(r, from, to)
           /\ <<from, to>> \in {<<"new", "counted">>, <<"counted", "observed">>,
                 <<"observed", "scraping">>, <<"observed", "arriving">>,
                 <<"arriving", "authenticating">>, <<"arriving", "protecting">>,
                 <<"entering", "refusing">>, <<"entering", "serving">>,
                 <<"leaving", "releasing">>, <<"releasing", "finishing">>,
                 <<"finishing", "done">>}
    BY <1>1 DEF Observe, ObserveInflight, Scrape, RouteToMCP, AcquireSlot, RefuseBusy, Enter, EnterBelow,
                Leave, Release, Finish, Advance
  <2> QED
    BY <2>1, <2>2, PhaseGoto
<1>2. ASSUME NEW r \in Requests,
             \/ AnswerDirectly(r) \/ Scraped(r) \/ Preflight(r) \/ DenyOrigin(r) \/ Shed(r)
             \/ RefuseToken(r) \/ CountBusy(r) \/ Return(r) \/ Panic(r)
             \/ RateRefused(r) \/ \E a \in {"denied", "unauthorized"} : RefuseRequest(r, a)
      PROVE  PhaseInv'
  <2>1. /\ caller' = caller /\ UNCHANGED limiterVars
        /\ \A s \in Requests \ {r} : answer'[s] = answer[s]
    BY <1>2 DEF AnswerDirectly, Scraped, Preflight, DenyOrigin, Shed, RefuseToken,
       CountBusy, Return, Panic, RateRefused, RefuseRequest, Respond, Answer, TypeOK
  <2>2. PICK from, to :
           /\ Goto(r, from, to)
           /\ <<from, to>> \in {<<"observed", "finishing">>, <<"scraping", "finishing">>,
                 <<"arriving", "finishing">>,
                 <<"authenticating", "releasing">>, <<"protecting", "releasing">>,
                 <<"rating", "releasing">>, <<"refusing", "releasing">>,
                 <<"serving", "leaving">>}
    BY <1>2 DEF AnswerDirectly, Scraped, Preflight, DenyOrigin, Shed, RefuseToken,
       CountBusy, Return, Panic, RateRefused, RefuseRequest, Respond
  <2> QED
    BY <2>1, <2>2, PhaseGoto
<1>3. ASSUME NEW r \in Requests, NEW p \in Principals,
             Authenticate(r, p) \/ Protect(r, p)
      PROVE  PhaseInv'
  <2>1. /\ UNCHANGED answer /\ UNCHANGED limiterVars
        /\ \A s \in Requests \ {r} : caller'[s] = caller[s]
    BY <1>3 DEF Authenticate, Protect, TypeOK
  <2>2. PICK from, to :
           /\ Goto(r, from, to)
           /\ \/ <<from, to>> \in {<<"authenticating", "protecting">>,
                                   <<"protecting", "rating">>}
              \/ ~RateEnabled /\ <<from, to>> = <<"protecting", "entering">>
    BY <1>3, GatewayAssumption DEF Authenticate, Protect
  <2> QED
    BY <2>1, <2>2, PhaseGoto
<1>4. ASSUME NEW r \in Requests, RatePass(r) PROVE PhaseInv'
  BY <1>4, PhaseGoto DEF RatePass, Advance
<1>5. ASSUME NEW r \in Requests, RateStep(r) PROVE PhaseInv'
  BY <1>5, PhaseRate
<1>6. CASE Tick \/ UNCHANGED vars \/ \E r \in Requests : Load(r)
  <2>1. UNCHANGED <<stage, caller, answer, pc, principal>>
    BY <1>6 DEF Tick, Limiter!Tick, Load, vars, gatewayVars, limiterVars
  <2> QED
    BY <2>1 DEF PhaseInv, Phase
<1> QED
  BY <1>1, <1>2, <1>3, <1>4, <1>5, <1>6 DEF Next, Step

\* Every behaviour of the chain keeps the phases.
THEOREM PhaseHolds == Spec => []PhaseInv
<1>1. Inv => TypeOK
  BY DEF Inv
<1> QED
  BY <1>1, PhaseInit, PhaseNext, InvHolds, PTL DEF Spec

\* Whoever is past the limiter is one of at most Limit requests that a window
\* of its own principal has let through.
THEOREM QuotaServed == Spec => []ServedWithinQuota
<1>1. Alone!HistoryInv /\ PhaseInv => ServedWithinQuota
  <2> SUFFICES ASSUME Alone!HistoryInv, PhaseInv, RateEnabled, NEW r \in Requests,
                      stage[r] \in {"entering", "refusing", "serving", "leaving"}
               PROVE  /\ r \in Limiter!CountedIn(caller[r], decidedBy[r])
                      /\ Cardinality(Limiter!CountedIn(caller[r], decidedBy[r])) <= Limit
    BY DEF ServedWithinQuota
  <2>1. pc[r] = "forwarded" /\ principal[r] = caller[r]
    BY DEF PhaseInv, Phase, Rated
  <2>2. Alone!Recorded(r)
    BY <2>1 DEF Alone!HistoryInv
  <2>3. Limiter!CountedIn(caller[r], decidedBy[r]) = Alone!Peers(r)
    BY <2>1 DEF Limiter!CountedIn, Alone!Peers, Alone!CountedIn
  <2>4. Cardinality(Alone!Peers(r)) <= Limit
    BY <2>2, SameCount DEF Alone!Recorded
  <2> QED
    BY <2>1, <2>3, <2>4 DEF Limiter!CountedIn
<1> QED
  BY <1>1, LimiterInherits, PhaseHolds, PTL

----------------------------------------------------------------------------
(* The counters served by /metrics.                                        *)

\* The sets the telemetry counts are sets of requests.
LEMMA TelemetrySets ==
    /\ Counted \in SUBSET Requests /\ Uncounted \in SUBSET Requests
    /\ Done \in SUBSET Requests /\ RateRejected \in SUBSET Requests
    /\ \A a : Answered(a) \in SUBSET Requests
BY DEF Counted, Uncounted, Done, RateRejected, Answered

\* Between the two ends of observeRequests a step changes no set of stages.
LEMMA SameStages ==
    ASSUME TypeOK, NEW r \in Requests, NEW from, NEW to, Goto(r, from, to),
           from \notin {"new", "counted", "done"}, to \notin {"new", "counted", "done"}
    PROVE  Counted' = Counted /\ Uncounted' = Uncounted /\ Done' = Done
<1>1. /\ stage[r] = from /\ stage'[r] = to
      /\ \A s \in Requests \ {r} : stage'[s] = stage[s]
  BY DEF Goto, TypeOK
<1> QED
  BY <1>1 DEF Counted, Uncounted, Done

\* An answer joins the set of its kind and leaves the others alone.
LEMMA AnswerMoves ==
    ASSUME TypeOK, NEW r \in Requests, NEW a \in Answers \ {"none"},
           answer[r] = "none", Answer(r, a)
    PROVE  /\ Answered(a)' = Answered(a) \cup {r} /\ r \notin Answered(a)
           /\ \A b \in Answers \ {"none", a} : Answered(b)' = Answered(b)
BY DEF TypeOK, Answer, Answered

\* A step that answers with none of the counted kinds, or not at all, and
\* touches no counter keeps the telemetry.
LEMMA QuietTelemetry ==
    ASSUME TypeOK, TelemetryAgrees, NEW r \in Requests, NEW from, NEW to,
           Goto(r, from, to), from \notin {"new", "counted", "done"},
           to \notin {"new", "counted", "done"},
           \A a \in {"shed", "busy", "limited"} : Answered(a)' = Answered(a),
           UNCHANGED <<stats, pc, rateRejected>>
    PROVE  TelemetryAgrees'
<1>1. Counted' = Counted /\ Uncounted' = Uncounted /\ Done' = Done
  BY SameStages
<1>2. RateRejected' = RateRejected
  BY DEF RateRejected
<1> QED
  BY <1>1, <1>2 DEF TelemetryAgrees, stats

\* The limiter counts a refusal in the step that gives it.
LEMMA RateTelemetry ==
    ASSUME TypeOK, PhaseInv, TelemetryAgrees, NEW r \in Requests, RateStep(r)
    PROVE  TelemetryAgrees'
<1>1. /\ UNCHANGED <<stage, answer, httpRequests, httpInflight, httpRejected,
                     httpPrincipalRejected>>
      /\ Limiter!ReadClock(r, caller[r]) \/ Limiter!Handle(r)
  BY DEF RateStep, gatewayVars, stats
<1>2. \A a : Answered(a)' = Answered(a)
  BY <1>1 DEF Answered
<1>3. /\ rateRejected' = Cardinality(RateRejected')
      /\ RateRejected \subseteq RateRejected'
  <2>1. rateRejected = Cardinality(RateRejected)
    BY DEF TelemetryAgrees
  <2>2. CASE Limiter!Reject(r)
    <3>1. /\ pc[r] = "rejecting" /\ pc' = [pc EXCEPT ![r] = "rejected"]
          /\ rateRejected' = rateRejected + 1
      BY <2>2 DEF Limiter!Reject
    <3>2. RateRejected' = RateRejected \cup {r} /\ r \notin RateRejected
      BY <3>1 DEF RateRejected, PhaseInv
    <3>3. Cardinality(RateRejected') = Cardinality(RateRejected) + 1
      BY <3>2, TelemetrySets, OneMore
    <3> QED
      BY <2>1, <3>1, <3>2, <3>3
  <2>3. CASE \/ Limiter!ReadClock(r, caller[r]) \/ Limiter!Lock(r)
             \/ Limiter!RejectFull(r) \/ Limiter!RejectLimit(r) \/ Limiter!Admit(r)
    <3>1. /\ pc[r] # "rejected" /\ rateRejected' = rateRejected
          /\ \E to \in Limiter!PCs \ {"rejected"} : pc' = [pc EXCEPT ![r] = to]
      BY <2>3 DEF Limiter!ReadClock, Limiter!Lock, Limiter!RejectFull,
         Limiter!RejectLimit, Limiter!Admit, Limiter!PCs
    <3>2. RateRejected' = RateRejected
      BY <3>1 DEF RateRejected, PhaseInv
    <3> QED
      BY <2>1, <3>1, <3>2
  <2> QED
    BY <1>1, <2>2, <2>3 DEF Limiter!Handle
<1>4. Counted' = Counted /\ Uncounted' = Uncounted /\ Done' = Done
  BY <1>1 DEF Counted, Uncounted, Done
<1> QED
  BY <1>1, <1>2, <1>3, <1>4 DEF TelemetryAgrees

\* Every step keeps the telemetry.
LEMMA TelemetryNext ==
    Inv /\ PhaseInv /\ TelemetryAgrees /\ [Next]_vars => TelemetryAgrees'
<1> SUFFICES ASSUME Inv, PhaseInv, TelemetryAgrees, [Next]_vars
             PROVE  TelemetryAgrees'
  OBVIOUS
<1>0. TypeOK
  BY DEF Inv
<1>1. ASSUME NEW r \in Requests,
             \/ RouteToMCP(r) \/ AcquireSlot(r) \/ RefuseBusy(r) \/ Enter(r)
             \/ Leave(r) \/ Release(r) \/ RatePass(r)
             \/ \E p \in Principals : Authenticate(r, p) \/ Protect(r, p)
      PROVE  TelemetryAgrees'
  <2>1. UNCHANGED answer /\ UNCHANGED <<stats, pc, rateRejected>>
    BY <1>1 DEF RouteToMCP, AcquireSlot, RefuseBusy, Enter, EnterBelow, Leave,
       Release, RatePass, Authenticate, Protect, Advance, limiterVars
  <2>2. PICK from, to : 
           /\ Goto(r, from, to) /\ from \notin {"new", "counted", "done"}
           /\ to \notin {"new", "counted", "done"}
    BY <1>1 DEF RouteToMCP, AcquireSlot, RefuseBusy, Enter, EnterBelow, Leave,
       Release, RatePass, Authenticate, Protect, Advance
  <2>3. \A a : Answered(a)' = Answered(a)
    BY <2>1 DEF Answered
  <2> QED
    BY <1>0, <2>1, <2>2, <2>3, QuietTelemetry
<1>2. ASSUME NEW r \in Requests,
             \/ AnswerDirectly(r) \/ Scraped(r) \/ Preflight(r) \/ DenyOrigin(r)
             \/ RefuseToken(r) \/ Return(r) \/ Panic(r)
             \/ \E a \in {"denied", "unauthorized"} : RefuseRequest(r, a)
      PROVE  TelemetryAgrees'
  <2>1. PICK a \in {"ok", "denied", "unauthorized", "aborted"} :
           Answer(r, a) /\ UNCHANGED <<stats, pc, rateRejected>>
    BY <1>2 DEF AnswerDirectly, Scraped, Preflight, DenyOrigin, RefuseToken, Return, Panic,
       RefuseRequest, Respond, limiterVars
  <2>2. PICK from \in Unanswered : \E to : 
           /\ Goto(r, from, to) /\ from \notin {"new", "counted", "done"}
           /\ to \notin {"new", "counted", "done"}
    BY <1>2 DEF AnswerDirectly, Scraped, Preflight, DenyOrigin, RefuseToken, Return, Panic,
       RefuseRequest, Respond, Unanswered
  <2>3. answer[r] = "none"
    BY <2>2 DEF Goto, PhaseInv, Phase
  <2>4. \A b \in {"shed", "busy", "limited"} : Answered(b)' = Answered(b)
    BY <1>0, <2>1, <2>3, AnswerMoves DEF Answers
  <2> QED
    BY <1>0, <2>1, <2>2, <2>4, QuietTelemetry
<1>3. ASSUME NEW r \in Requests, RateRefused(r) PROVE TelemetryAgrees'
  <2>1. /\ Answer(r, "limited") /\ UNCHANGED <<stats, pc, rateRejected>>
        /\ Goto(r, "rating", "releasing") /\ pc[r] = "rejected"
    BY <1>3 DEF RateRefused, Respond, limiterVars
  <2>2. answer[r] = "none"
    BY <2>1 DEF Goto, PhaseInv, Phase, Unanswered
  <2>3. /\ Answered("limited")' = Answered("limited") \cup {r}
        /\ Answered("shed")' = Answered("shed") /\ Answered("busy")' = Answered("busy")
    BY <1>0, <2>1, <2>2, AnswerMoves DEF Answers
  <2>4. Counted' = Counted /\ Uncounted' = Uncounted /\ Done' = Done
    BY <1>0, <2>1, SameStages
  <2> QED
    BY <2>1, <2>3, <2>4 DEF TelemetryAgrees, RateRejected, stats
<1>4. ASSUME NEW r \in Requests, Shed(r) PROVE TelemetryAgrees'
  <2>1. /\ Answer(r, "shed") /\ Goto(r, "arriving", "finishing")
        /\ httpRejected' = httpRejected + 1
        /\ UNCHANGED <<httpRequests, httpInflight, httpPrincipalRejected, pc, rateRejected>>
    BY <1>4 DEF Shed, limiterVars
  <2>2. answer[r] = "none"
    BY <2>1 DEF Goto, PhaseInv, Phase, Unanswered
  <2>3. /\ Answered("shed")' = Answered("shed") \cup {r} /\ r \notin Answered("shed")
        /\ Answered("busy")' = Answered("busy")
        /\ Answered("limited")' = Answered("limited")
    BY <1>0, <2>1, <2>2, AnswerMoves DEF Answers
  <2>4. Cardinality(Answered("shed")') = Cardinality(Answered("shed")) + 1
    BY <2>3, TelemetrySets, OneMore
  <2>5. Counted' = Counted /\ Uncounted' = Uncounted /\ Done' = Done
    BY <1>0, <2>1, SameStages
  <2> QED
    BY <2>1, <2>3, <2>4, <2>5 DEF TelemetryAgrees, RateRejected
<1>5. ASSUME NEW r \in Requests, CountBusy(r) PROVE TelemetryAgrees'
  <2>1. /\ Answer(r, "busy") /\ Goto(r, "refusing", "releasing")
        /\ httpPrincipalRejected' = httpPrincipalRejected + 1
        /\ UNCHANGED <<httpRequests, httpInflight, httpRejected, pc, rateRejected>>
    BY <1>5 DEF CountBusy, limiterVars
  <2>2. answer[r] = "none"
    BY <2>1 DEF Goto, PhaseInv, Phase, Unanswered
  <2>3. /\ Answered("busy")' = Answered("busy") \cup {r} /\ r \notin Answered("busy")
        /\ Answered("shed")' = Answered("shed")
        /\ Answered("limited")' = Answered("limited")
    BY <1>0, <2>1, <2>2, AnswerMoves DEF Answers
  <2>4. Cardinality(Answered("busy")') = Cardinality(Answered("busy")) + 1
    BY <2>3, TelemetrySets, OneMore
  <2>5. Counted' = Counted /\ Uncounted' = Uncounted /\ Done' = Done
    BY <1>0, <2>1, SameStages
  <2> QED
    BY <2>1, <2>3, <2>4, <2>5 DEF TelemetryAgrees, RateRejected
<1>6. ASSUME NEW r \in Requests, Observe(r) PROVE TelemetryAgrees'
  <2>1. /\ Goto(r, "new", "counted") /\ httpRequests' = httpRequests + 1
        /\ UNCHANGED <<answer, httpInflight, httpRejected, httpPrincipalRejected, pc,
                       rateRejected>>
    BY <1>6 DEF Observe, limiterVars
  <2>2. Done' = Done /\ RateRejected' = RateRejected /\ \A a : Answered(a)' = Answered(a)
    BY <1>0, <2>1 DEF Done, RateRejected, Goto, TypeOK, Answered
  <2>3. /\ Counted' = Counted \cup {r} /\ r \notin Counted
        /\ Uncounted' = Uncounted \cup {r} /\ r \notin Uncounted
    BY <1>0, <2>1 DEF Counted, Uncounted, Goto, TypeOK
  <2>4. Cardinality(Counted') = Cardinality(Counted) + 1
    BY <2>3, TelemetrySets, OneMore
  <2>5. Cardinality(Uncounted') = Cardinality(Uncounted) + 1
    BY <2>3, TelemetrySets, OneMore
  <2>6. Cardinality(Uncounted) \in Nat /\ Cardinality(Done) \in Nat
    BY TelemetrySets, Finite
  <2>7. httpRequests' = Cardinality(Counted')
    BY <2>1, <2>4 DEF TelemetryAgrees
  <2>8. httpRequests' = httpInflight' + Cardinality(Uncounted') + Cardinality(Done')
    BY <1>0, <2>1, <2>2, <2>5, <2>6 DEF TelemetryAgrees, TypeOK
  <2> QED
    BY <2>1, <2>2, <2>7, <2>8 DEF TelemetryAgrees
<1>10. ASSUME NEW r \in Requests, ObserveInflight(r) PROVE TelemetryAgrees'
  <2>1. /\ Goto(r, "counted", "observed") /\ httpInflight' = httpInflight + 1
        /\ UNCHANGED <<answer, httpRequests, httpRejected, httpPrincipalRejected, pc,
                       rateRejected>>
    BY <1>10 DEF ObserveInflight, limiterVars
  <2>2. /\ Done' = Done /\ RateRejected' = RateRejected
        /\ Counted' = Counted /\ \A a : Answered(a)' = Answered(a)
    BY <1>0, <2>1 DEF Done, RateRejected, Counted, Goto, TypeOK, Answered
  <2>3. Uncounted' = Uncounted \ {r} /\ r \in Uncounted
    BY <1>0, <2>1 DEF Uncounted, Goto, TypeOK
  <2>4. Cardinality(Uncounted') = Cardinality(Uncounted) - 1
    BY <2>3, TelemetrySets, OneLess
  <2>5. Cardinality(Uncounted) \in Nat /\ Cardinality(Done) \in Nat
    BY TelemetrySets, Finite
  <2>6. httpRequests' = httpInflight' + Cardinality(Uncounted') + Cardinality(Done')
    BY <1>0, <2>1, <2>2, <2>4, <2>5 DEF TelemetryAgrees, TypeOK
  <2> QED
    BY <2>1, <2>2, <2>6 DEF TelemetryAgrees
<1>7. ASSUME NEW r \in Requests, Finish(r) PROVE TelemetryAgrees'
  <2>1. /\ Goto(r, "finishing", "done") /\ httpInflight' = httpInflight - 1
        /\ UNCHANGED <<answer, httpRequests, httpRejected, httpPrincipalRejected, pc,
                       rateRejected>>
    BY <1>7 DEF Finish, limiterVars
  <2>2. Done' = Done \cup {r} /\ r \notin Done /\ \A a : Answered(a)' = Answered(a)
    BY <1>0, <2>1 DEF Done, Goto, TypeOK, Answered
  <2>3. /\ Counted' = Counted /\ Uncounted' = Uncounted
        /\ RateRejected' = RateRejected
    BY <1>0, <2>1 DEF Counted, Uncounted, RateRejected, Goto, TypeOK
  <2>4. Cardinality(Done) \in Nat /\ Cardinality(Done') = Cardinality(Done) + 1
    BY <2>2, TelemetrySets, Finite, OneMore
  <2>5. Cardinality(Uncounted) \in Nat
    BY TelemetrySets, Finite
  <2>6. httpRequests' = httpInflight' + Cardinality(Uncounted') + Cardinality(Done')
    BY <1>0, <2>1, <2>2, <2>3, <2>4, <2>5 DEF TelemetryAgrees, TypeOK
  <2> QED
    BY <2>1, <2>2, <2>3, <2>6 DEF TelemetryAgrees
<1>11. ASSUME NEW r \in Requests, Scrape(r) PROVE TelemetryAgrees'
  <2>1. /\ Goto(r, "observed", "scraping")
        /\ UNCHANGED <<answer, httpRequests, httpInflight, httpRejected,
                       httpPrincipalRejected, pc, rateRejected>>
    BY <1>11 DEF Scrape, limiterVars
  <2>2. Counted' = Counted /\ Uncounted' = Uncounted /\ Done' = Done
    BY <1>0, <2>1, SameStages
  <2>3. RateRejected' = RateRejected /\ \A a : Answered(a)' = Answered(a)
    BY <2>1 DEF RateRejected, Answered
  <2> QED
    BY <2>1, <2>2, <2>3 DEF TelemetryAgrees
<1>8. ASSUME NEW r \in Requests, RateStep(r) PROVE TelemetryAgrees'
  BY <1>0, <1>8, RateTelemetry
<1>9. CASE Tick \/ UNCHANGED vars \/ \E r \in Requests : Load(r)
  <2>1. UNCHANGED <<stage, answer, httpRequests, httpInflight, httpRejected,
                    httpPrincipalRejected, pc, rateRejected>>
    BY <1>9 DEF Tick, Limiter!Tick, Load, vars, gatewayVars, limiterVars, stats
  <2> QED
    BY <2>1 DEF TelemetryAgrees, Answered, Counted, Uncounted, Done, RateRejected
<1> QED
  BY <1>1, <1>2, <1>3, <1>4, <1>5, <1>6, <1>7, <1>8, <1>9, <1>10, <1>11
     DEF Next, Step

\* The counters of /metrics agree with the requests and the answers given, in
\* every interleaving of their additions by any number of requests.
THEOREM TelemetryHolds == Spec => []TelemetryAgrees
<1>1. Init => TelemetryAgrees
  <2> SUFFICES ASSUME Init PROVE TelemetryAgrees
    OBVIOUS
  <2>1. /\ Counted = {} /\ Uncounted = {} /\ Done = {} /\ RateRejected = {}
        /\ Answered("shed") = {} /\ Answered("busy") = {} /\ Answered("limited") = {}
    BY DEF Init, Limiter!Init, Counted, Uncounted, Done, RateRejected, Answered
  <2>2. /\ Cardinality(Counted) = 0 /\ Cardinality(Uncounted) = 0
        /\ Cardinality(Done) = 0 /\ Cardinality(RateRejected) = 0
        /\ Cardinality(Answered("shed")) = 0 /\ Cardinality(Answered("busy")) = 0
    BY <2>1, FS_EmptySet
  <2>3. /\ httpRequests = 0 /\ httpInflight = 0 /\ httpRejected = 0
        /\ httpPrincipalRejected = 0 /\ rateRejected = 0
    BY DEF Init, Limiter!Init
  <2> QED
    BY <2>1, <2>2, <2>3 DEF TelemetryAgrees
<1> QED
  BY <1>1, TelemetryNext, InvHolds, PhaseHolds, PTL DEF Spec

----------------------------------------------------------------------------
(* What a scrape reads while the counters move.                            *)

\* A scrape begins with nothing loaded, and remembers requests that are done.
ScrapeInv ==
    \A r \in Scrapers :
        /\ settled[r] \subseteq Done
        /\ stage[r] \in {"new", "counted", "observed"} => loaded[r] = 0

\* Requests move forward only, and keep the answer they have.
Forward ==
    /\ Counted \subseteq Counted' /\ Done \subseteq Done'
    /\ RateRejected \subseteq RateRejected'
    /\ \A a \in {"shed", "busy", "limited"} : Answered(a) \subseteq Answered(a)'
    /\ \A s \in Done : answer'[s] = answer[s]

\* A move of one request goes forward.
LEMMA GotoForward ==
    ASSUME TypeOK, PhaseInv, NEW r \in Requests, NEW from, NEW to, Goto(r, from, to),
           from # "done", to # "new", pc' = pc,
           answer' = answer \/ (from \in Unanswered /\ \E a \in Answers : Answer(r, a))
    PROVE  Forward
<1>1. /\ stage[r] = from /\ stage'[r] = to
      /\ \A s \in Requests \ {r} : stage'[s] = stage[s]
  BY DEF Goto, TypeOK
<1>2. /\ \A s \in Requests \ {r} : answer'[s] = answer[s]
      /\ answer'[r] = answer[r] \/ answer[r] = "none"
  BY <1>1 DEF Answer, TypeOK, PhaseInv, Phase
<1>3. Counted \subseteq Counted' /\ Done \subseteq Done'
  BY <1>1 DEF Counted, Done
<1>4. \A a \in {"shed", "busy", "limited"} : Answered(a) \subseteq Answered(a)'
  BY <1>2 DEF Answered
<1>5. \A s \in Done : answer'[s] = answer[s]
  BY <1>1, <1>2 DEF Done
<1>6. RateRejected \subseteq RateRejected'
  BY DEF RateRejected
<1> QED
  BY <1>3, <1>4, <1>5, <1>6 DEF Forward

\* Every step goes forward.
LEMMA NextForward ==
    ASSUME Inv, PhaseInv, TelemetryAgrees, [Next]_vars
    PROVE  Forward
<1>0. TypeOK
  BY DEF Inv
<1> USE DEF stats
<1>1. ASSUME NEW r \in Requests,
             \/ Observe(r) \/ ObserveInflight(r) \/ Scrape(r) \/ RouteToMCP(r)
             \/ AcquireSlot(r) \/ RefuseBusy(r) \/ Enter(r) \/ Leave(r)
             \/ Release(r) \/ Finish(r) \/ RatePass(r)
             \/ \E p \in Principals : Authenticate(r, p) \/ Protect(r, p)
      PROVE  Forward
  <2>1. answer' = answer /\ pc' = pc
    BY <1>1 DEF Observe, ObserveInflight, Scrape, RouteToMCP, AcquireSlot, RefuseBusy,
       Enter, EnterBelow, Leave, Release, Finish, RatePass, Authenticate, Protect,
       Advance, limiterVars
  <2>2. PICK from, to : Goto(r, from, to) /\ from # "done" /\ to # "new"
    BY <1>1 DEF Observe, ObserveInflight, Scrape, RouteToMCP, AcquireSlot, RefuseBusy,
       Enter, EnterBelow, Leave, Release, Finish, RatePass, Authenticate, Protect,
       Advance
  <2> QED
    BY <1>0, <2>1, <2>2, GotoForward
<1>2. ASSUME NEW r \in Requests,
             \/ AnswerDirectly(r) \/ Scraped(r) \/ Preflight(r) \/ DenyOrigin(r)
             \/ Shed(r) \/ RefuseToken(r) \/ CountBusy(r) \/ Return(r) \/ Panic(r)
             \/ RateRefused(r) \/ \E a \in {"denied", "unauthorized"} : RefuseRequest(r, a)
      PROVE  Forward
  <2>1. pc' = pc /\ \E a \in Answers : Answer(r, a)
    BY <1>2 DEF AnswerDirectly, Scraped, Preflight, DenyOrigin, Shed, RefuseToken,
       CountBusy, Return, Panic, RateRefused, RefuseRequest, Respond, Answers, limiterVars
  <2>2. PICK from \in Unanswered : \E to : Goto(r, from, to) /\ to # "new"
    BY <1>2 DEF AnswerDirectly, Scraped, Preflight, DenyOrigin, Shed, RefuseToken,
       CountBusy, Return, Panic, RateRefused, RefuseRequest, Respond, Unanswered
  <2>3. from # "done"
    BY <2>2 DEF Unanswered
  <2> QED
    BY <1>0, <2>1, <2>2, <2>3, GotoForward
<1>3. ASSUME NEW r \in Requests, RateStep(r) PROVE Forward
  <2>1. /\ UNCHANGED <<stage, answer>>
        /\ Limiter!ReadClock(r, caller[r]) \/ Limiter!Handle(r)
    BY <1>3 DEF RateStep, gatewayVars
  <2>2. pc[r] # "rejected" /\ \A s \in Requests \ {r} : pc'[s] = pc[s]
    BY <2>1 DEF PhaseInv, Limiter!ReadClock, Limiter!Handle, Limiter!Lock,
       Limiter!RejectFull, Limiter!RejectLimit, Limiter!Admit, Limiter!Reject
  <2>3. RateRejected \subseteq RateRejected'
    BY <2>2 DEF RateRejected
  <2> QED
    BY <2>1, <2>3 DEF Forward, Counted, Done, Answered
<1>4. CASE Tick \/ UNCHANGED vars \/ \E r \in Requests : Load(r)
  <2>1. UNCHANGED <<stage, answer, pc>>
    BY <1>4 DEF Tick, Limiter!Tick, Load, vars, gatewayVars, limiterVars
  <2> QED
    BY <2>1 DEF Forward, Counted, Done, Answered, RateRejected
<1> QED
  BY <1>1, <1>2, <1>3, <1>4 DEF Next, Step

\* A subset counts no more.
LEMMA Fewer ==
    ASSUME NEW A \in SUBSET Requests, NEW B \in SUBSET A
    PROVE  Cardinality(B) <= Cardinality(A)
BY Finite, FS_Subset

\* A figure that is on a page stays between its bounds as requests move on.
LEMMA FigureKept ==
    ASSUME Inv, ScrapeInv, Forward, NEW r \in Scrapers, settled'[r] = settled[r],
           NEW i \in Figures, page'[r][i] = page[r][i],
           Cardinality(Shown(i, r, settled[r])) <= page[r][i],
           page[r][i] <= Cardinality(Possible(i, r))
    PROVE  /\ Cardinality(Shown(i, r, settled[r])') <= page'[r][i]
           /\ page'[r][i] <= Cardinality(Possible(i, r)')
<1>1. settled[r] \subseteq Done
  BY DEF ScrapeInv
<1>2. \A a : settled[r] \cap Answered(a)' = settled[r] \cap Answered(a)
  BY <1>1 DEF Forward, Answered, Done
<1>3. Shown(i, r, settled[r])' = Shown(i, r, settled[r])
  BY <1>2 DEF Shown, Figures
<1>4. Possible(i, r) \subseteq Possible(i, r)'
  BY DEF Possible, Forward, Figures
<1>5. Possible(i, r)' \in SUBSET Requests
  BY DEF Possible, Figures, Counted, Answered, RateRejected
<1>6. /\ Cardinality(Possible(i, r)) <= Cardinality(Possible(i, r)')
      /\ Cardinality(Possible(i, r)) \in Nat /\ Cardinality(Possible(i, r)') \in Nat
  BY <1>4, <1>5, Fewer, Finite
<1>7. page[r][i] \in Nat
  BY DEF Inv, TypeOK
<1> QED
  BY <1>3, <1>6, <1>7

\* A figure is between its bounds when it is loaded.
LEMMA FigureLoaded ==
    ASSUME Inv, TelemetryAgrees, ScrapeInv, NEW r \in Scrapers, stage[r] = "scraping",
           NEW i \in Figures
    PROVE  /\ Cardinality(Shown(i, r, settled[r])) <= Metrics[i]
           /\ Metrics[i] <= Cardinality(Possible(i, r))
<1>1. settled[r] \subseteq Done /\ r \in Requests
  BY GatewayAssumption DEF ScrapeInv
<1>2. /\ Counted \in SUBSET Requests /\ Active \in SUBSET Requests
      /\ RateRejected \in SUBSET Requests /\ \A a : Answered(a) \in SUBSET Requests
  BY TelemetrySets, CountedSets
<1>3. CASE i = 1
  <2>1. settled[r] \cup {r} \subseteq Counted
    BY <1>1 DEF Done, Counted
  <2>2. Cardinality(settled[r] \cup {r}) <= Cardinality(Counted) /\ Cardinality(Counted) \in Nat
    BY <1>2, <2>1, Fewer, Finite
  <2>4. Shown(i, r, settled[r]) = settled[r] \cup {r} /\ Possible(i, r) = Counted
    BY <1>3 DEF Shown, Possible
  <2>5. Metrics[i] = Cardinality(Counted)
    BY <1>3 DEF Metrics, TelemetryAgrees
  <2> QED
    BY <2>2, <2>4, <2>5
<1>4. CASE i = 2
  <2>1. {r} \subseteq Active /\ Active \subseteq Counted \ settled[r]
    BY <1>1 DEF Done, Counted, Active
  <2>2. /\ Cardinality({r}) <= Cardinality(Active)
        /\ Cardinality(Active) <= Cardinality(Counted \ settled[r])
    BY <1>2, <2>1, Fewer
  <2>3. httpInflight = Cardinality(Active)
    BY DEF Inv, SlotsAccounted
  <2>4. Shown(i, r, settled[r]) = {r} /\ Possible(i, r) = Counted \ settled[r]
    BY <1>4 DEF Shown, Possible
  <2>5. Metrics[i] = httpInflight
    BY <1>4 DEF Metrics
  <2> QED
    BY <2>2, <2>3, <2>4, <2>5
<1>5. CASE i = 3
  <2>1. settled[r] \cap Answered("shed") \subseteq Answered("shed")
    OBVIOUS
  <2>2. /\ Cardinality(settled[r] \cap Answered("shed")) <= Cardinality(Answered("shed"))
        /\ Cardinality(Answered("shed")) \in Nat
    BY <1>2, <2>1, Fewer, Finite
  <2>4. Shown(i, r, settled[r]) = settled[r] \cap Answered("shed") /\ Possible(i, r) = Answered("shed")
    BY <1>5 DEF Shown, Possible
  <2>5. Metrics[i] = Cardinality(Answered("shed"))
    BY <1>5 DEF Metrics, TelemetryAgrees
  <2> QED
    BY <2>2, <2>4, <2>5
<1>6. CASE i = 4
  <2>1. settled[r] \cap Answered("busy") \subseteq Answered("busy")
    OBVIOUS
  <2>2. /\ Cardinality(settled[r] \cap Answered("busy")) <= Cardinality(Answered("busy"))
        /\ Cardinality(Answered("busy")) \in Nat
    BY <1>2, <2>1, Fewer, Finite
  <2>4. Shown(i, r, settled[r]) = settled[r] \cap Answered("busy") /\ Possible(i, r) = Answered("busy")
    BY <1>6 DEF Shown, Possible
  <2>5. Metrics[i] = Cardinality(Answered("busy"))
    BY <1>6 DEF Metrics, TelemetryAgrees
  <2> QED
    BY <2>2, <2>4, <2>5
<1>7. CASE i = 5
  <2>1. settled[r] \cap Answered("limited") \subseteq RateRejected
    BY DEF TelemetryAgrees
  <2>2. /\ Cardinality(settled[r] \cap Answered("limited")) <= Cardinality(RateRejected)
        /\ Cardinality(RateRejected) \in Nat
    BY <1>2, <2>1, Fewer, Finite
  <2>4. Shown(i, r, settled[r]) = settled[r] \cap Answered("limited") /\ Possible(i, r) = RateRejected
    BY <1>7 DEF Shown, Possible
  <2>5. Metrics[i] = Cardinality(RateRejected)
    BY <1>7 DEF Metrics, TelemetryAgrees
  <2> QED
    BY <2>2, <2>4, <2>5
<1> QED
  BY <1>3, <1>4, <1>5, <1>6, <1>7 DEF Figures

\* Every step keeps what the scrapes have read truthful.
LEMMA ScrapeNext ==
    ASSUME Inv, PhaseInv, TelemetryAgrees, ScrapeInv, ScrapeTruthful, [Next]_vars
    PROVE  ScrapeInv' /\ ScrapeTruthful'
<1>0. TypeOK /\ Forward /\ Scrapers \subseteq Requests
  BY NextForward, GatewayAssumption DEF Inv
<1>a. ASSUME NEW s \in Scrapers PROVE loaded[s] \in 0 .. 5 /\ 1 .. loaded[s] \subseteq Figures
  <2>1. loaded[s] \in 0 .. 5
    BY <1>0 DEF TypeOK
  <2> QED
    BY <2>1 DEF Figures
<1>1. ASSUME NEW r \in Requests, Scrape(r) PROVE ScrapeInv' /\ ScrapeTruthful'
  <2>1. /\ r \in Scrapers /\ stage[r] = "observed" /\ loaded' = loaded /\ page' = page
        /\ stage' = [stage EXCEPT ![r] = "scraping"]
        /\ settled' = [settled EXCEPT ![r] = Done]
    BY <1>1 DEF Scrape, Goto
  <2>2. loaded[r] = 0
    BY <2>1 DEF ScrapeInv
  <2>3. ScrapeInv'
    BY <1>0, <2>1, <2>2 DEF ScrapeInv, Forward, TypeOK
  <2>4. ASSUME NEW s \in Scrapers, NEW i \in 1 .. loaded'[s]
        PROVE  /\ Cardinality(Shown(i, s, settled[s])') <= page'[s][i]
               /\ page'[s][i] <= Cardinality(Possible(i, s)')
    <3>1. s # r /\ settled'[s] = settled[s] /\ i \in 1 .. loaded[s] /\ i \in Figures
      BY <1>a, <2>1, <2>2, <2>4 DEF TypeOK
    <3> QED
      BY <1>0, <2>1, <3>1, FigureKept DEF ScrapeTruthful
  <2> QED
    BY <2>3, <2>4 DEF ScrapeTruthful
<1>2. ASSUME NEW r \in Requests, Load(r) PROVE ScrapeInv' /\ ScrapeTruthful'
  <2>1. /\ r \in Scrapers /\ stage[r] = "scraping" /\ loaded[r] < 5
        /\ loaded' = [loaded EXCEPT ![r] = @ + 1]
        /\ page' = [page EXCEPT ![r][loaded[r] + 1] = Metrics[loaded[r] + 1]]
        /\ UNCHANGED <<stage, settled, answer, pc>>
    BY <1>2 DEF Load, limiterVars
  <2>2. ScrapeInv'
    BY <1>0, <2>1 DEF ScrapeInv, Done, TypeOK
  <2>3. ASSUME NEW s \in Scrapers, NEW i \in 1 .. loaded'[s]
        PROVE  /\ Cardinality(Shown(i, s, settled[s])') <= page'[s][i]
               /\ page'[s][i] <= Cardinality(Possible(i, s)')
    <3>1. CASE s = r /\ i = loaded[r] + 1
      <4>1. i \in Figures /\ page'[s][i] = Metrics[i]
        BY <1>0, <1>a, <2>1, <3>1 DEF TypeOK, Figures
      <4>2. /\ Shown(i, s, settled[s])' = Shown(i, s, settled[s])
            /\ Possible(i, s)' = Possible(i, s)
        BY <2>1 DEF Shown, Possible, Answered, Counted, RateRejected
      <4>3. /\ Cardinality(Shown(i, r, settled[r])) <= Metrics[i]
            /\ Metrics[i] <= Cardinality(Possible(i, r))
        BY <2>1, <4>1, FigureLoaded
      <4> QED
        BY <3>1, <4>1, <4>2, <4>3
    <3>2. CASE ~(s = r /\ i = loaded[r] + 1)
      <4>1. i \in 1 .. loaded[s] /\ i \in Figures
        BY <1>0, <1>a, <2>1, <2>3, <3>2 DEF TypeOK
      <4>2. page'[s][i] = page[s][i]
        BY <1>0, <2>1, <3>2, <4>1 DEF TypeOK
      <4> QED
        BY <1>0, <2>1, <4>1, <4>2, FigureKept DEF ScrapeTruthful
    <3> QED
      BY <3>1, <3>2
  <2> QED
    BY <2>2, <2>3 DEF ScrapeTruthful
<1>3. ASSUME UNCHANGED scrapeVars,
             \A s \in Scrapers : stage'[s] \in {"new", "counted", "observed"} =>
                                    stage[s] \in {"new", "counted", "observed"}
      PROVE  ScrapeInv' /\ ScrapeTruthful'
  <2>1. UNCHANGED <<loaded, page, settled>>
    BY <1>3 DEF scrapeVars
  <2>2. ScrapeInv'
    BY <1>0, <1>3, <2>1 DEF ScrapeInv, Forward
  <2>3. ASSUME NEW s \in Scrapers, NEW i \in 1 .. loaded'[s]
        PROVE  /\ Cardinality(Shown(i, s, settled[s])') <= page'[s][i]
               /\ page'[s][i] <= Cardinality(Possible(i, s)')
    BY <1>0, <1>a, <2>1, FigureKept DEF ScrapeTruthful
  <2> QED
    BY <2>2, <2>3 DEF ScrapeTruthful
<1>4. \/ \E r \in Requests : Scrape(r) \/ Load(r)
      \/ /\ UNCHANGED scrapeVars
         /\ \A s \in Scrapers : stage'[s] \in {"new", "counted", "observed"} =>
                                    stage[s] \in {"new", "counted", "observed"}
  <2>1. ASSUME NEW r \in Requests, NEW from, NEW to, Goto(r, from, to),
               to \in {"new", "counted", "observed"} => from \in {"new", "counted", "observed"}
        PROVE  \A s \in Scrapers : stage'[s] \in {"new", "counted", "observed"} =>
                                      stage[s] \in {"new", "counted", "observed"}
    BY <1>0, <2>1 DEF Goto, TypeOK
  <2>2. ASSUME NEW r \in Requests, Observe(r) \/ Step(r), ~Scrape(r), ~Load(r), ~RateStep(r)
        PROVE  /\ UNCHANGED scrapeVars
               /\ \E from, to : /\ Goto(r, from, to)
                                /\ to \in {"new", "counted", "observed"} =>
                                      from \in {"new", "counted", "observed"}
    BY <2>2 DEF Step, stats, Observe, ObserveInflight, AnswerDirectly, Scraped,
       Preflight, DenyOrigin, RouteToMCP, AcquireSlot, Shed, Authenticate, RefuseToken,
       Protect, RefuseRequest, RatePass, RateRefused, Enter, EnterBelow, RefuseBusy,
       CountBusy, Return, Panic, Leave, Release, Finish, Respond, Advance
  <2>3. CASE Tick \/ UNCHANGED vars \/ \E r \in Requests : RateStep(r)
    BY <2>3 DEF Tick, RateStep, vars, gatewayVars, stats
  <2> QED
    BY <2>1, <2>2, <2>3 DEF Next
<1> QED
  BY <1>1, <1>2, <1>3, <1>4

\* Whatever moves while a page is written, its figures cover everybody who left
\* before the scrape began and are never ahead of what has happened.
THEOREM ScrapeHolds == Spec => []ScrapeTruthful
<1>1. Init => ScrapeInv /\ ScrapeTruthful
  BY DEF Init, ScrapeInv, ScrapeTruthful
<1> QED
  BY <1>1, ScrapeNext, InvHolds, PhaseHolds, TelemetryHolds, PTL DEF Spec
====
