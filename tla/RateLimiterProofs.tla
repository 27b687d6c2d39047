---- MODULE RateLimiterProofs ----
(***************************************************************************)
(* Theorems about RateLimiter, for every limit, cap, window length, set of *)
(* principals, set of requests and bound on staleness.                     *)
(***************************************************************************)
EXTENDS RateLimiter, FiniteSetTheorems, TLAPS

----------------------------------------------------------------------------
(* The table operators.                                                    *)

\* Settling the table for p only removes windows that have ended, changes no
\* other, and keeps p's own window exactly when it is still alive.
LEMMA SettledFacts ==
    ASSUME NEW ws, NEW p, NEW t \in Nat
    PROVE  /\ DOMAIN Settled(ws, p, t) \subseteq DOMAIN ws
           /\ \A q \in DOMAIN Settled(ws, p, t) : Settled(ws, p, t)[q] = ws[q]
           /\ \A q \in DOMAIN ws \ DOMAIN Settled(ws, p, t) : Expired(ws[q], t)
           /\ Tracked(ws, p, t) <=> p \in DOMAIN Settled(ws, p, t)
           /\ p \in DOMAIN Settled(ws, p, t) => ~Expired(ws[p], t)
<1> DEFINE own == OwnDropped(ws, p, t)
<1>1. /\ DOMAIN own \subseteq DOMAIN ws
      /\ \A q \in DOMAIN own : own[q] = ws[q]
      /\ \A q \in DOMAIN ws \ DOMAIN own : Expired(ws[q], t)
      /\ p \in DOMAIN own => ~Expired(ws[p], t)
  BY DEF OwnDropped, Without
<1>2. /\ DOMAIN Swept(own, t) \subseteq DOMAIN own
      /\ \A q \in DOMAIN Swept(own, t) : Swept(own, t)[q] = own[q]
      /\ \A q \in DOMAIN own \ DOMAIN Swept(own, t) : Expired(own[q], t)
  BY DEF Swept, Without
<1>3. CASE p \notin DOMAIN own /\ IsFull(own)
  <2>1. Settled(ws, p, t) = Swept(own, t)
    BY <1>3 DEF Settled
  <2> QED
    BY <1>1, <1>2, <1>3, <2>1 DEF Tracked
<1>4. CASE ~(p \notin DOMAIN own /\ IsFull(own))
  <2>1. Settled(ws, p, t) = own
    BY <1>4 DEF Settled
  <2> QED
    BY <1>1, <2>1 DEF Tracked
<1> QED
  BY <1>3, <1>4

\* Settling keeps the table a table, finite and no larger.
LEMMA SettledTable ==
    ASSUME NEW ws, IsWindowTable(ws), IsFiniteSet(DOMAIN ws),
           NEW p \in Principals, NEW t \in Nat
    PROVE  /\ IsWindowTable(Settled(ws, p, t))
           /\ IsFiniteSet(DOMAIN Settled(ws, p, t))
           /\ Cardinality(DOMAIN Settled(ws, p, t)) \in Nat
           /\ Cardinality(DOMAIN ws) \in Nat
           /\ Cardinality(DOMAIN Settled(ws, p, t)) <= Cardinality(DOMAIN ws)
<1> DEFINE S == Settled(ws, p, t)
<1>1. DOMAIN S \subseteq DOMAIN ws /\ \A q \in DOMAIN S : S[q] = ws[q]
  BY SettledFacts
<1>2. S = [q \in DOMAIN S |-> S[q]]
  BY DEF Settled, Swept, Without, OwnDropped, IsWindowTable
<1>3. IsWindowTable(S)
  BY <1>1, <1>2 DEF IsWindowTable
<1>4. /\ IsFiniteSet(DOMAIN S)
      /\ Cardinality(DOMAIN S) <= Cardinality(DOMAIN ws)
  BY <1>1, FS_Subset
<1> QED
  BY <1>3, <1>4, FS_CardinalityType

\* The window a request is counted in is p's live one or a fresh one.
LEMMA CurrentFacts ==
    ASSUME NEW ws, IsWindowTable(ws), NEW p \in Principals, NEW t \in Nat
    PROVE  /\ Current(ws, p, t) \in WindowRecord
           /\ Current(ws, p, t).resetAt > t
           /\ Tracked(ws, p, t) => /\ p \in DOMAIN ws
                                   /\ Current(ws, p, t) = ws[p]
           /\ ~Tracked(ws, p, t) => /\ Current(ws, p, t).count = 0
                                    /\ Current(ws, p, t).resetAt = t + Window
<1>1. CASE Tracked(ws, p, t)
  BY <1>1, SettledFacts DEF Current, IsWindowTable, WindowRecord, Expired
<1>2. CASE ~Tracked(ws, p, t)
  BY <1>2, RateAssumption DEF Current, Fresh, WindowRecord
<1> QED
  BY <1>1, <1>2

\* Counting a request touches p's window only.
LEMMA CountedFacts ==
    ASSUME NEW ws, IsWindowTable(ws), IsFiniteSet(DOMAIN ws),
           NEW p \in Principals, NEW t \in Nat
    PROVE  /\ DOMAIN Counted(ws, p, t) = DOMAIN Settled(ws, p, t) \cup {p}
           /\ Counted(ws, p, t)[p].count = Current(ws, p, t).count + 1
           /\ Counted(ws, p, t)[p].resetAt = Current(ws, p, t).resetAt
           /\ \A q \in DOMAIN Settled(ws, p, t) \ {p} :
                  Counted(ws, p, t)[q] = ws[q]
           /\ IsWindowTable(Counted(ws, p, t))
           /\ IsFiniteSet(DOMAIN Counted(ws, p, t))
<1> DEFINE S == Settled(ws, p, t)
           C == Counted(ws, p, t)
           w == Current(ws, p, t)
<1>1. w \in WindowRecord
  BY CurrentFacts
<1>2. [w EXCEPT !.count = @ + 1] = [count |-> w.count + 1, resetAt |-> w.resetAt]
  BY <1>1 DEF WindowRecord
<1>3. /\ DOMAIN C = DOMAIN S \cup {p}
      /\ C[p] = [count |-> w.count + 1, resetAt |-> w.resetAt]
      /\ \A q \in DOMAIN S \ {p} : C[q] = S[q]
      /\ C = [q \in DOMAIN C |-> C[q]]
  BY <1>2 DEF Counted
<1>4. IsWindowTable(S) /\ IsFiniteSet(DOMAIN S)
  BY SettledTable
<1>5. C[p] \in WindowRecord
  BY <1>1, <1>3 DEF WindowRecord
<1>6. IsWindowTable(C)
  BY <1>3, <1>4, <1>5 DEF IsWindowTable
<1>7. IsFiniteSet(DOMAIN C)
  BY <1>3, <1>4, FS_AddElement
<1> QED
  BY <1>3, <1>6, <1>7, SettledFacts

\* Rounding up: the seconds reported cover the ticks that remain.
LEMMA RetryAfterCovers ==
    ASSUME NEW w \in WindowRecord, NEW t \in Nat, w.resetAt > t
    PROVE  /\ RetryAfter(w, t) \in Nat \ {0}
           /\ w.resetAt <= t + RetryAfter(w, t) * TicksPerSecond
<1> DEFINE T == TicksPerSecond
           x == w.resetAt - t
           q == (x + T - 1) \div T
           m == (x + T - 1) % T
<1>1. T \in Nat /\ T > 0 /\ x \in Nat /\ x > 0 /\ x + T - 1 \in Nat
  BY RateAssumption DEF WindowRecord
<1>2. q \in Int /\ m \in 0 .. T - 1 /\ x + T - 1 = T * q + m
  <2> HIDE DEF x, T
  <2> QED
    BY <1>1
<1>3. T * q \in Int /\ T * q = q * T /\ q * T >= x
  <2> HIDE DEF x, T, q, m
  <2> QED
    BY <1>1, <1>2
<1>4. q > 0
  <2> SUFFICES ASSUME q <= 0 PROVE FALSE
    BY <1>2
  <2>1. q * T <= 0
    <3> HIDE DEF x, T, q, m
    <3> QED
      BY <1>1, <1>2
  <2> HIDE DEF x, T, q, m
  <2> QED
    BY <1>1, <1>2, <1>3, <2>1
<1>5. RetryAfter(w, t) = q
  <2>1. RetryAfter(w, t) = IF q > 1 THEN q ELSE 1
    BY DEF RetryAfter
  <2> HIDE DEF q
  <2> QED
    BY <1>2, <1>4, <2>1
<1>6. w.resetAt = t + x /\ w.resetAt \in Nat
  BY DEF WindowRecord
<1> HIDE DEF x, T, q, m
<1>7. w.resetAt <= t + q * T
  BY <1>1, <1>2, <1>3, <1>6
<1> QED
  BY <1>2, <1>4, <1>5, <1>7 DEF T

----------------------------------------------------------------------------
(* The inductive invariant.                                                *)

Inv ==
    /\ TypeOK
    /\ TableInv
    /\ QuotaAndCapacity
    /\ AdmittedInsideWindow
    /\ RefusalInv

\* The initial state satisfies the invariant.
LEMMA InitInv == Init => Inv
<1> SUFFICES ASSUME Init PROVE Inv
  OBVIOUS
<1>1. DOMAIN windows = {}
  BY DEF Init
<1>2. IsFiniteSet(DOMAIN windows) /\ Cardinality(DOMAIN windows) = 0
  BY <1>1, FS_EmptySet
<1>3. TypeOK
  BY DEF Init, TypeOK, IsWindowTable, PCs
<1>4. TableInv
  BY <1>1, <1>2, StaleAssumption DEF Init, TableInv
<1>5. QuotaAndCapacity
  BY <1>1, <1>2, RateAssumption DEF QuotaAndCapacity
<1>6. AdmittedInsideWindow
  BY DEF Init, AdmittedInsideWindow
<1>7. RefusalInv
  BY DEF Init, RefusalInv
<1> QED
  BY <1>3, <1>4, <1>5, <1>6, <1>7 DEF Inv

\* What a refusal leaves of the table satisfies the table's part of Inv.
LEMMA SettledInv ==
    ASSUME Inv, NEW r \in Requests, pc[r] = "locked",
           windows' = Settled(windows, principal[r], now[r]),
           UNCHANGED <<clock, lastReset>>
    PROVE  /\ IsWindowTable(windows')
           /\ IsFiniteSet(DOMAIN windows')
           /\ QuotaAndCapacity'
           /\ \A p \in Principals :
                 IF p \in DOMAIN windows'
                 THEN /\ windows'[p].resetAt = lastReset'[p]
                      /\ windows'[p].resetAt <= clock' + Window
                 ELSE lastReset'[p] <= clock'
<1> USE DEF Inv
<1>1. /\ principal[r] \in Principals /\ now[r] \in Nat /\ now[r] <= clock
      /\ IsWindowTable(windows) /\ IsFiniteSet(DOMAIN windows)
  BY DEF TypeOK, TableInv
<1>2. /\ IsWindowTable(windows') /\ IsFiniteSet(DOMAIN windows')
      /\ Cardinality(DOMAIN windows') \in Nat
      /\ Cardinality(DOMAIN windows) \in Nat
      /\ Cardinality(DOMAIN windows') <= Cardinality(DOMAIN windows)
  BY <1>1, SettledTable
<1>3. /\ DOMAIN windows' \subseteq DOMAIN windows
      /\ \A q \in DOMAIN windows' : windows'[q] = windows[q]
      /\ \A q \in DOMAIN windows \ DOMAIN windows' : Expired(windows[q], now[r])
  BY <1>1, SettledFacts
<1>4. QuotaAndCapacity'
  BY <1>2, <1>3, RateAssumption DEF QuotaAndCapacity
<1>5. ASSUME NEW p \in Principals
      PROVE  IF p \in DOMAIN windows'
             THEN /\ windows'[p].resetAt = lastReset'[p]
                  /\ windows'[p].resetAt <= clock' + Window
             ELSE lastReset'[p] <= clock'
  <2>1. CASE p \in DOMAIN windows'
    BY <1>3, <2>1 DEF TableInv
  <2>2. CASE p \in DOMAIN windows \ DOMAIN windows'
    <3>1. windows[p].resetAt <= now[r] /\ windows[p].resetAt = lastReset[p]
      BY <1>3, <2>2 DEF Expired, TableInv
    <3> QED
      BY <1>1, <2>2, <3>1 DEF TypeOK
  <2>3. CASE p \notin DOMAIN windows
    BY <1>3, <2>3 DEF TableInv
  <2> QED
    BY <2>1, <2>2, <2>3
<1> QED
  BY <1>2, <1>4, <1>5

\* A window that is opened ends later than the last one by at least a window
\* less the age of the clock value it was opened with.
LEMMA OpenedLate ==
    ASSUME Inv, NEW r \in Requests, pc[r] = "locked",
           ~Tracked(windows, principal[r], now[r])
    PROVE  /\ lastReset[principal[r]] <= clock
           /\ now[r] + Window >= lastReset[principal[r]] + Window - MaxStale
<1> DEFINE p == principal[r]
<1>1. /\ p \in Principals /\ now[r] \in Nat /\ clock \in Nat /\ now[r] <= clock
      /\ clock - now[r] <= MaxStale /\ lastReset[p] \in Nat
  BY DEF Inv, TypeOK, TableInv
<1>2. lastReset[p] <= clock
  <2>1. CASE p \in DOMAIN windows
    <3>1. windows[p].resetAt <= now[r] /\ windows[p].resetAt = lastReset[p]
      BY <1>1, <2>1, SettledFacts DEF Inv, TableInv, Expired
    <3> QED
      BY <1>1, <3>1
  <2>2. CASE p \notin DOMAIN windows
    BY <1>1, <2>2 DEF Inv, TableInv
  <2> QED
    BY <2>1, <2>2
<1> QED
  BY <1>1, <1>2, RateAssumption, StaleAssumption

\* Every step preserves the invariant: one case per action.
LEMMA NextInv == Inv /\ [Next]_vars => Inv'
<1> SUFFICES ASSUME Inv, [Next]_vars PROVE Inv'
  OBVIOUS
<1> USE DEF Inv
<1>0. CASE UNCHANGED vars
  BY <1>0 DEF vars, TypeOK, TableInv, QuotaAndCapacity, AdmittedInsideWindow,
              RefusalInv
<1>1. CASE Tick
  <2>1. TypeOK'
    BY <1>1 DEF Tick, TypeOK
  <2>2. TableInv'
    BY <1>1, StaleAssumption, RateAssumption DEF Tick, TypeOK, TableInv,
       IsWindowTable, WindowRecord
  <2>3. QuotaAndCapacity' /\ AdmittedInsideWindow' /\ RefusalInv'
    BY <1>1 DEF Tick, QuotaAndCapacity, AdmittedInsideWindow, RefusalInv
  <2> QED
    BY <2>1, <2>2, <2>3
<1>2. ASSUME NEW r \in Requests, Unidentified(r) PROVE Inv'
  <2>1. TypeOK'
    BY <1>2 DEF Unidentified, TypeOK, PCs
  <2>2. TableInv' /\ QuotaAndCapacity' /\ AdmittedInsideWindow' /\ RefusalInv'
    BY <1>2 DEF Unidentified, TypeOK, TableInv, QuotaAndCapacity,
                AdmittedInsideWindow, RefusalInv, Undecided
  <2> QED
    BY <2>1, <2>2
<1>3. ASSUME NEW r \in Requests, NEW p \in Principals, ReadClock(r, p)
      PROVE  Inv'
  <2>1. TypeOK'
    BY <1>3 DEF ReadClock, TypeOK, PCs
  <2>2. TableInv' /\ QuotaAndCapacity'
    BY <1>3, StaleAssumption DEF ReadClock, TypeOK, TableInv, QuotaAndCapacity
  <2>3. AdmittedInsideWindow' /\ RefusalInv'
    BY <1>3 DEF ReadClock, TypeOK, AdmittedInsideWindow, RefusalInv, Undecided
  <2> QED
    BY <2>1, <2>2, <2>3
<1>4. ASSUME NEW r \in Requests, Lock(r) PROVE Inv'
  <2>1. TypeOK'
    BY <1>4 DEF Lock, TypeOK, PCs
  <2>2. TableInv' /\ QuotaAndCapacity' /\ AdmittedInsideWindow' /\ RefusalInv'
    BY <1>4 DEF Lock, TypeOK, TableInv, QuotaAndCapacity, AdmittedInsideWindow,
                RefusalInv, Undecided
  <2> QED
    BY <2>1, <2>2
<1>5. ASSUME NEW r \in Requests, RejectFull(r) PROVE Inv'
  <2>1. /\ IsWindowTable(windows') /\ IsFiniteSet(DOMAIN windows')
        /\ QuotaAndCapacity'
        /\ \A p \in Principals :
              IF p \in DOMAIN windows'
              THEN /\ windows'[p].resetAt = lastReset'[p]
                   /\ windows'[p].resetAt <= clock' + Window
              ELSE lastReset'[p] <= clock'
    BY <1>5, SettledInv DEF RejectFull
  <2>2. TypeOK'
    BY <1>5, <2>1 DEF RejectFull, TypeOK, PCs
  <2>3. TableInv'
    BY <1>5, <2>1 DEF RejectFull, TypeOK, TableInv
  <2>4. AdmittedInsideWindow' /\ RefusalInv'
    BY <1>5 DEF RejectFull, TypeOK, AdmittedInsideWindow, RefusalInv, Undecided
  <2> QED
    BY <2>1, <2>2, <2>3, <2>4
<1>6. ASSUME NEW r \in Requests, RejectLimit(r) PROVE Inv'
  <2> DEFINE w == Current(windows, principal[r], now[r])
  <2>1. /\ IsWindowTable(windows') /\ IsFiniteSet(DOMAIN windows')
        /\ QuotaAndCapacity'
        /\ \A p \in Principals :
              IF p \in DOMAIN windows'
              THEN /\ windows'[p].resetAt = lastReset'[p]
                   /\ windows'[p].resetAt <= clock' + Window
              ELSE lastReset'[p] <= clock'
    BY <1>6, SettledInv DEF RejectLimit
  <2>2. /\ principal[r] \in Principals /\ now[r] \in Nat
        /\ IsWindowTable(windows)
    BY <1>6 DEF RejectLimit, TypeOK, TableInv
  <2>3. /\ w \in WindowRecord /\ w.resetAt > now[r]
        /\ RetryAfter(w, now[r]) \in Nat \ {0}
        /\ w.resetAt <= now[r] + RetryAfter(w, now[r]) * TicksPerSecond
    BY <2>2, CurrentFacts, RetryAfterCovers
  <2>4. w.resetAt \in Nat
    BY <2>3 DEF WindowRecord
  <2> HIDE DEF w
  <2>5. /\ retryAfter' = [retryAfter EXCEPT ![r] = RetryAfter(w, now[r])]
        /\ decidedBy' = [decidedBy EXCEPT ![r] = w.resetAt]
    BY <1>6 DEF RejectLimit, w
  <2>6. TypeOK'
    BY <1>6, <2>1, <2>3, <2>4, <2>5 DEF RejectLimit, TypeOK, PCs
  <2>7. TableInv'
    BY <1>6, <2>1 DEF RejectLimit, TypeOK, TableInv
  <2>8. AdmittedInsideWindow'
    BY <1>6, <2>5 DEF RejectLimit, TypeOK, AdmittedInsideWindow
  <2>9. RefusalInv'
    BY <1>6, <2>3, <2>5 DEF RejectLimit, TypeOK, RefusalInv, Undecided
  <2> QED
    BY <2>1, <2>6, <2>7, <2>8, <2>9
<1>7. ASSUME NEW r \in Requests, Admit(r) PROVE Inv'
  <2> DEFINE w == Current(windows, principal[r], now[r])
             p == principal[r]
             S == Settled(windows, p, now[r])
  <2>1. /\ p \in Principals /\ now[r] \in Nat /\ now[r] <= clock
        /\ clock - now[r] <= MaxStale /\ clock \in Nat
        /\ IsWindowTable(windows) /\ IsFiniteSet(DOMAIN windows)
    BY <1>7 DEF Admit, TypeOK, TableInv
  <2>2. /\ w \in WindowRecord /\ w.resetAt > now[r]
        /\ w.resetAt <= clock + Window
        /\ w.count < Limit
    <3>1. w \in WindowRecord /\ w.resetAt > now[r]
      BY <2>1, CurrentFacts
    <3>2. w.resetAt <= clock + Window
      BY <2>1, CurrentFacts, RateAssumption DEF TableInv
    <3>3. w.count < Limit
      BY <1>7, <3>1, RateAssumption DEF Admit, Exhausted, WindowRecord
    <3> QED
      BY <3>1, <3>2, <3>3
  <2>3. /\ DOMAIN windows' = DOMAIN S \cup {p}
        /\ windows'[p].count = w.count + 1
        /\ windows'[p].resetAt = w.resetAt
        /\ \A q \in DOMAIN S \ {p} : windows'[q] = windows[q]
        /\ IsWindowTable(windows')
        /\ IsFiniteSet(DOMAIN windows')
    <3>1. windows' = Counted(windows, p, now[r])
      BY <1>7 DEF Admit
    <3> HIDE DEF w, p, S
    <3>2. /\ DOMAIN Counted(windows, p, now[r]) = DOMAIN Settled(windows, p, now[r]) \cup {p}
          /\ Counted(windows, p, now[r])[p].count = Current(windows, p, now[r]).count + 1
          /\ Counted(windows, p, now[r])[p].resetAt = Current(windows, p, now[r]).resetAt
          /\ \A q \in DOMAIN Settled(windows, p, now[r]) \ {p} :
                 Counted(windows, p, now[r])[q] = windows[q]
          /\ IsWindowTable(Counted(windows, p, now[r]))
          /\ IsFiniteSet(DOMAIN Counted(windows, p, now[r]))
      BY <2>1, CountedFacts
    <3> QED
      BY <3>1, <3>2 DEF w, p, S
  <2>4. /\ DOMAIN S \subseteq DOMAIN windows
        /\ \A q \in DOMAIN windows \ DOMAIN S : Expired(windows[q], now[r])
        /\ Tracked(windows, p, now[r]) <=> p \in DOMAIN S
    BY <2>1, SettledFacts
  <2>5. /\ IsFiniteSet(DOMAIN S)
        /\ Cardinality(DOMAIN S) \in Nat
        /\ Cardinality(DOMAIN windows) \in Nat
        /\ Cardinality(DOMAIN S) <= Cardinality(DOMAIN windows)
    BY <2>1, SettledTable
  <2>6. Cardinality(DOMAIN windows') <= MaxTracked
    <3>1. CASE p \in DOMAIN S
      <4>1. DOMAIN windows' = DOMAIN S
        BY <2>3, <3>1
      <4>2. Cardinality(DOMAIN windows) <= MaxTracked
        BY DEF QuotaAndCapacity
      <4> HIDE DEF S
      <4> QED
        BY <2>5, <4>1, <4>2, RateAssumption
    <3>2. CASE p \notin DOMAIN S
      <4>1. Cardinality(DOMAIN S) < MaxTracked
        BY <1>7, <2>4, <2>5, <3>2, RateAssumption DEF Admit, NoRoom, IsFull
      <4>2. Cardinality(DOMAIN windows') = Cardinality(DOMAIN S) + 1
        BY <2>3, <2>5, <3>2, FS_AddElement
      <4> QED
        BY <2>5, <4>1, <4>2, RateAssumption
    <3> QED
      BY <3>1, <3>2
  <2>7. w.resetAt \in Nat /\ w.count \in Nat
    BY <2>2 DEF WindowRecord
  <2>8. QuotaAndCapacity'
    <3>1. ASSUME NEW q \in DOMAIN windows' PROVE windows'[q].count <= Limit
      BY <2>2, <2>3, <2>4, <2>7, RateAssumption DEF QuotaAndCapacity
    <3> QED
      BY <2>6, <3>1 DEF QuotaAndCapacity
  <2> HIDE DEF w, S
  <2>9. /\ decidedBy' = [decidedBy EXCEPT ![r] = w.resetAt]
        /\ lastReset' = [lastReset EXCEPT ![p] = w.resetAt]
    BY <1>7 DEF Admit, w
  <2>10. TypeOK'
    BY <1>7, <2>1, <2>3, <2>7, <2>9 DEF Admit, TypeOK, PCs
  <2>11. TableInv'
    <3>1. ASSUME NEW q \in Principals
          PROVE  IF q \in DOMAIN windows'
                 THEN /\ windows'[q].resetAt = lastReset'[q]
                      /\ windows'[q].resetAt <= clock' + Window
                 ELSE lastReset'[q] <= clock'
      <4>1. clock' = clock
        BY <1>7 DEF Admit
      <4>2. CASE q = p
        BY <2>1, <2>2, <2>3, <2>9, <4>1, <4>2 DEF TypeOK
      <4>3. CASE q # p /\ q \in DOMAIN S
        BY <2>3, <2>4, <2>9, <4>1, <4>3 DEF TableInv, TypeOK
      <4>4. CASE q # p /\ q \in DOMAIN windows \ DOMAIN S
        <5>1. windows[q].resetAt <= now[r] /\ windows[q].resetAt = lastReset[q]
          BY <2>4, <4>4 DEF TableInv, Expired
        <5> QED
          BY <2>1, <2>3, <2>9, <4>1, <4>4, <5>1 DEF TypeOK
      <4>5. CASE q # p /\ q \notin DOMAIN windows
        BY <2>3, <2>4, <2>9, <4>1, <4>5 DEF TableInv, TypeOK
      <4> QED
        BY <4>2, <4>3, <4>4, <4>5
    <3>2. \A s \in Requests :
             /\ now'[s] <= clock'
             /\ pc'[s] \in {"waiting", "locked"} =>
                   clock' - now'[s] <= MaxStale /\ principal'[s] \in Principals
      BY <1>7 DEF Admit, TypeOK, TableInv
    <3> QED
      BY <2>3, <3>1, <3>2 DEF TableInv
  <2>12. AdmittedInsideWindow'
    <3>1. w.resetAt - Window <= clock /\ clock < w.resetAt + MaxStale
      BY <2>1, <2>2, <2>7, RateAssumption, StaleAssumption
    <3> QED
      BY <1>7, <2>9, <3>1 DEF Admit, TypeOK, AdmittedInsideWindow
  <2>13. RefusalInv'
    BY <1>7, <2>9 DEF Admit, TypeOK, RefusalInv, Undecided
  <2> QED
    BY <2>8, <2>10, <2>11, <2>12, <2>13
<1>8. ASSUME NEW r \in Requests, Reject(r) PROVE Inv'
  <2>1. TypeOK'
    BY <1>8 DEF Reject, TypeOK, PCs
  <2>2. TableInv' /\ QuotaAndCapacity' /\ AdmittedInsideWindow' /\ RefusalInv'
    BY <1>8 DEF Reject, TypeOK, TableInv, QuotaAndCapacity,
                AdmittedInsideWindow, RefusalInv, Undecided
  <2> QED
    BY <2>1, <2>2
<1> QED
  BY <1>0, <1>1, <1>2, <1>3, <1>4, <1>5, <1>6, <1>7, <1>8 DEF Next, Handle

----------------------------------------------------------------------------
(* The theorems.                                                           *)

\* Every behaviour of the limiter satisfies the inductive invariant.
THEOREM InvHolds == Spec => []Inv
<1> QED
  BY InitInv, NextInv, PTL DEF Spec

\* The limiter's state keeps its type: the map holds windows of known
\* principals, the clock values and counters are natural numbers.
THEOREM TypeCorrect == Spec => []TypeOK
<1>1. Inv => TypeOK
  BY DEF Inv
<1> QED
  BY <1>1, InvHolds, PTL

\* No window admits more than the limit and the table stays within its cap,
\* for any number of principals and requests and any staleness.
THEOREM QuotaHolds == Spec => []QuotaAndCapacity
<1>1. Inv => QuotaAndCapacity
  BY DEF Inv
<1> QED
  BY <1>1, InvHolds, PTL

\* A request is let through during the window it is counted in, or at most
\* MaxStale after its end.
THEOREM AdmissionHolds == Spec => []AdmittedInsideWindow
<1>1. Inv => AdmittedInsideWindow
  BY DEF Inv
<1> QED
  BY <1>1, InvHolds, PTL

\* Waiting out a Retry-After leaves the window that refused the request.
THEOREM RetryHolds == Spec => []RetryAfterIsEnough
<1>1. Inv => RetryAfterIsEnough
  <2> SUFFICES ASSUME Inv, NEW r \in Requests, NEW s \in Requests,
                      retryAfter[r] > 0, decidedBy[r] # -1,
                      retryAfter[s] > 0, decidedBy[s] # -1,
                      now[s] >= now[r] + retryAfter[r] * TicksPerSecond,
                      decidedBy[r] = decidedBy[s]
               PROVE  FALSE
    BY DEF RetryAfterIsEnough
  <2> DEFINE until == now[r] + retryAfter[r] * TicksPerSecond
  <2>1. /\ now[s] < decidedBy[s] /\ decidedBy[r] <= until
    BY DEF Inv, RefusalInv
  <2>2. /\ now[s] \in Nat /\ decidedBy[s] \in Int /\ until \in Int
    BY RateAssumption DEF Inv, TypeOK
  <2> QED
    BY <2>1, <2>2
<1> QED
  BY <1>1, InvHolds, PTL

\* What the two kinds of step that write the table do to a window.
LEMMA StepWindows ==
    ASSUME Inv, [Next]_vars, NEW p \in DOMAIN windows
    PROVE  \/ /\ p \in DOMAIN windows'
              /\ windows'[p].resetAt = windows[p].resetAt
              /\ windows'[p].count >= windows[p].count
           \/ windows[p].resetAt <= clock
<1>0. windows[p] \in WindowRecord /\ p \in Principals
  BY DEF Inv, TypeOK, IsWindowTable
<1>1. CASE windows' = windows
  BY <1>0, <1>1 DEF WindowRecord
<1>2. ASSUME NEW r \in Requests, pc[r] = "locked",
             windows' = Settled(windows, principal[r], now[r])
      PROVE  \/ p \in DOMAIN windows' /\ windows'[p] = windows[p]
             \/ windows[p].resetAt <= clock
  <2>1. now[r] \in Nat /\ now[r] <= clock /\ clock \in Nat
    BY DEF Inv, TypeOK, TableInv
  <2>2. \/ p \in DOMAIN windows' /\ windows'[p] = windows[p]
        \/ Expired(windows[p], now[r])
    BY <1>2, <2>1, SettledFacts
  <2> QED
    BY <1>0, <2>1, <2>2 DEF Expired, WindowRecord
<1>3. ASSUME NEW r \in Requests, Admit(r)
      PROVE  \/ /\ p \in DOMAIN windows'
                /\ windows'[p].resetAt = windows[p].resetAt
                /\ windows'[p].count >= windows[p].count
             \/ windows[p].resetAt <= clock
  <2> DEFINE q == principal[r]
             t == now[r]
  <2>1. /\ t \in Nat /\ t <= clock /\ clock \in Nat /\ q \in Principals
        /\ IsWindowTable(windows) /\ IsFiniteSet(DOMAIN windows)
    BY <1>3 DEF Admit, Inv, TypeOK, TableInv
  <2>2. windows' = Counted(windows, q, t)
    BY <1>3 DEF Admit
  <2> HIDE DEF q, t
  <2> DEFINE C == Counted(windows, q, t)
             S == Settled(windows, q, t)
  <2>10. /\ DOMAIN C = DOMAIN S \cup {q}
        /\ C[q].count = Current(windows, q, t).count + 1
        /\ C[q].resetAt = Current(windows, q, t).resetAt
        /\ \A x \in DOMAIN S \ {q} : C[x] = windows[x]
    BY <2>1, CountedFacts
  <2> HIDE DEF C
  <2>11. windows' = C
    BY <2>2 DEF C
  <2>3. CASE p \notin DOMAIN Settled(windows, q, t)
    <3>1. Expired(windows[p], t)
      BY <2>1, <2>3, SettledFacts
    <3> QED
      BY <1>0, <2>1, <3>1 DEF Expired, WindowRecord
  <2>4. CASE p \in DOMAIN Settled(windows, q, t) /\ p # q
    BY <1>0, <2>10, <2>11, <2>4 DEF WindowRecord
  <2>5. CASE p \in DOMAIN Settled(windows, q, t) /\ p = q
    <3>1. Current(windows, q, t) = windows[q]
      BY <2>1, <2>5, SettledFacts, CurrentFacts
    <3>2. /\ p \in DOMAIN windows'
          /\ windows'[p].count = windows[p].count + 1
          /\ windows'[p].resetAt = windows[p].resetAt
      BY <2>10, <2>11, <2>5, <3>1
    <3> QED
      BY <1>0, <3>2 DEF WindowRecord
  <2> QED
    BY <2>3, <2>4, <2>5
<1>4. \/ windows' = windows
      \/ \E r \in Requests : /\ pc[r] = "locked"
                             /\ windows' = Settled(windows, principal[r], now[r])
      \/ \E r \in Requests : Admit(r)
  BY DEF Next, Handle, vars, Tick, Unidentified, ReadClock, Lock, RejectFull,
         RejectLimit, Reject
<1> QED
  BY <1>0, <1>1, <1>2, <1>3, <1>4 DEF WindowRecord

\* No step of any request cuts a window short that has not really ended.
THEOREM EvictionHolds == Spec => NoEarlyEviction
<1>1. ASSUME Inv, [Next]_vars
      PROVE  \A p \in DOMAIN windows :
                \/ /\ p \in DOMAIN windows'
                   /\ windows'[p].resetAt = windows[p].resetAt
                   /\ windows'[p].count >= windows[p].count
                \/ windows[p].resetAt <= clock
  BY <1>1, StepWindows
<1> QED
  BY <1>1, InvHolds, PTL DEF Spec, NoEarlyEviction

\* Windows of a principal end at least Window - MaxStale apart, whoever
\* removed the one before.
THEOREM SpacingHolds == Spec => WindowsSpaced
<1>1. ASSUME Inv, [Next]_vars
      PROVE  \A p \in Principals :
                lastReset'[p] # lastReset[p] =>
                    lastReset'[p] >= lastReset[p] + Window - MaxStale
  <2>1. CASE lastReset' = lastReset
    BY <2>1
  <2>2. ASSUME NEW r \in Requests, Admit(r), NEW p \in Principals,
               lastReset'[p] # lastReset[p]
        PROVE  lastReset'[p] >= lastReset[p] + Window - MaxStale
    <3> DEFINE w == Current(windows, principal[r], now[r])
    <3>1. p = principal[r] /\ lastReset'[p] = w.resetAt
      BY <1>1, <2>2 DEF Admit, Inv, TypeOK
    <3>2. now[r] \in Nat /\ IsWindowTable(windows)
      BY <1>1 DEF Inv, TypeOK
    <3>3. CASE Tracked(windows, principal[r], now[r])
      <4>1. w = windows[p] /\ p \in DOMAIN windows
        BY <3>1, <3>2, <3>3, CurrentFacts
      <4>2. w.resetAt = lastReset[p]
        BY <1>1, <4>1 DEF Inv, TableInv
      <4> QED
        BY <2>2, <3>1, <4>2
    <3>4. CASE ~Tracked(windows, principal[r], now[r])
      <4>1. w.resetAt = now[r] + Window
        BY <3>1, <3>2, <3>4, CurrentFacts
      <4>2. now[r] + Window >= lastReset[p] + Window - MaxStale
        BY <1>1, <2>2, <3>1, <3>4, OpenedLate DEF Admit
      <4> QED
        BY <3>1, <4>1, <4>2
    <3> QED
      BY <3>3, <3>4
  <2>3. lastReset' = lastReset \/ \E r \in Requests : Admit(r)
    BY <1>1 DEF Next, Handle, vars, Tick, Unidentified, ReadClock, Lock,
                RejectFull, RejectLimit, Reject
  <2> QED
    BY <2>1, <2>2, <2>3
<1> QED
  BY <1>1, InvHolds, PTL DEF Spec, WindowsSpaced

\* A newcomer finds no room only in a table whose windows of others, alive at
\* its clock value, fill the cap.
LEMMA NoRoomCrowded ==
    ASSUME NEW ws, NEW p, NEW t \in Nat, NoRoom(ws, p, t)
    PROVE  /\ p \in DOMAIN ws => Expired(ws[p], t)
           /\ Cardinality({q \in DOMAIN ws \ {p} : ~Expired(ws[q], t)}) >= MaxTracked
<1> DEFINE own == OwnDropped(ws, p, t)
<1>1. /\ p \notin DOMAIN own
      /\ IsFull(Settled(ws, p, t))
  BY DEF NoRoom, Tracked
<1>2. /\ p \in DOMAIN ws => Expired(ws[p], t)
      /\ DOMAIN own = DOMAIN ws \ {p}
      /\ \A q \in DOMAIN own : own[q] = ws[q]
  BY <1>1 DEF OwnDropped, Without
<1>3. IsFull(own)
  BY <1>1 DEF Settled
<1>4. Settled(ws, p, t) = Swept(own, t)
  BY <1>1, <1>3 DEF Settled
<1>5. DOMAIN Swept(own, t) = {q \in DOMAIN ws \ {p} : ~Expired(ws[q], t)}
  BY <1>2 DEF Swept, Without
<1> QED
  BY <1>1, <1>2, <1>4, <1>5 DEF IsFull

\* The cap turns away only newcomers, and only while it is filled by others
\* whose windows were alive when the newcomer read the clock.
THEOREM CrowdedHolds == Spec => FullOnlyWhenCrowded
<1>1. ASSUME Inv, [Next]_vars, NEW r \in Requests,
             pc[r] = "locked", pc'[r] = "rejecting", decidedBy'[r] = -1
      PROVE  /\ \/ principal[r] \notin DOMAIN windows
                \/ windows[principal[r]].resetAt <= clock
             /\ Cardinality({p \in DOMAIN windows \ {principal[r]} :
                                 windows[p].resetAt > now[r]}) >= MaxTracked
  <2> DEFINE p == principal[r]
  <2>1. /\ p \in Principals /\ now[r] \in Nat /\ now[r] <= clock /\ clock \in Nat
        /\ IsWindowTable(windows)
    BY <1>1 DEF Inv, TypeOK, TableInv
  <2>2. RejectFull(r) \/ RejectLimit(r)
    BY <1>1 DEF Inv, TypeOK, Next, Handle, vars, Tick, Unidentified, ReadClock,
                Lock, RejectFull, RejectLimit, Admit, Reject
  <2>3. ~RejectLimit(r)
    <3> SUFFICES ASSUME RejectLimit(r) PROVE FALSE
      OBVIOUS
    <3>1. Current(windows, p, now[r]) \in WindowRecord
      BY <2>1, CurrentFacts
    <3>2. decidedBy'[r] = Current(windows, p, now[r]).resetAt
      BY <1>1 DEF RejectLimit, Inv, TypeOK
    <3> QED
      BY <1>1, <3>1, <3>2 DEF WindowRecord
  <2>4. NoRoom(windows, p, now[r])
    BY <2>2, <2>3 DEF RejectFull
  <2> HIDE DEF p
  <2>5. /\ p \in DOMAIN windows => Expired(windows[p], now[r])
        /\ Cardinality({q \in DOMAIN windows \ {p} :
                            ~Expired(windows[q], now[r])}) >= MaxTracked
    BY <2>1, <2>4, NoRoomCrowded
  <2>6. \A q \in DOMAIN windows : windows[q].resetAt \in Nat
    BY <2>1 DEF IsWindowTable, WindowRecord
  <2>7. {q \in DOMAIN windows \ {p} : ~Expired(windows[q], now[r])}
          = {q \in DOMAIN windows \ {p} : windows[q].resetAt > now[r]}
    BY <2>1, <2>6 DEF Expired
  <2>8. p \in DOMAIN windows => windows[p].resetAt <= clock
    BY <2>1, <2>5, <2>6 DEF Expired
  <2> QED
    BY <2>5, <2>7, <2>8 DEF p
<1>2. ASSUME Inv, [Next]_vars
      PROVE  \A r \in Requests :
                (pc[r] = "locked" /\ pc'[r] = "rejecting" /\ decidedBy'[r] = -1) =>
                    /\ principal[r] \notin DOMAIN windows
                       \/ windows[principal[r]].resetAt <= clock
                    /\ Cardinality({p \in DOMAIN windows \ {principal[r]} :
                                        windows[p].resetAt > now[r]}) >= MaxTracked
  BY <1>1, <1>2
<1> QED
  BY <1>2, InvHolds, PTL DEF Spec, FullOnlyWhenCrowded

----------------------------------------------------------------------------
(* The history of admissions.                                              *)

\* A step that lets nobody through, opens no window and does not turn the
\* clock back keeps what the history says.
LEMMA QuietHistory ==
    ASSUME TypeOK, HistoryInv, clock' \in Nat, clock' >= clock,
           UNCHANGED <<admittedAt, lastReset>>,
           \A r \in Requests : pc'[r] = "forwarded" <=> pc[r] = "forwarded",
           \A r \in Requests : pc[r] = "forwarded" =>
               principal'[r] = principal[r] /\ decidedBy'[r] = decidedBy[r],
           DOMAIN windows' \subseteq DOMAIN windows,
           \A p \in DOMAIN windows' : windows'[p] = windows[p]
    PROVE  HistoryInv'
<1>1. \A p, d : CountedIn(p, d)' = CountedIn(p, d)
  BY DEF CountedIn
<1>2. CountsAdmissions'
  BY <1>1 DEF HistoryInv, CountsAdmissions
<1>3. ASSUME NEW r \in Requests, pc'[r] = "forwarded"
      PROVE  Recorded(r)'
  <2>1. Recorded(r) /\ principal'[r] = principal[r] /\ decidedBy'[r] = decidedBy[r]
    BY <1>3 DEF HistoryInv
  <2>2. Peers(r)' = Peers(r)
    BY <2>1 DEF Peers, CountedIn
  <2> QED
    BY <2>1, <2>2 DEF Recorded, TypeOK
<1>4. \A r \in Requests : pc'[r] # "forwarded" => admittedAt'[r] = -1
  BY DEF HistoryInv
<1>5. \A r, s \in Requests :
          ( /\ pc'[r] = "forwarded" /\ pc'[s] = "forwarded"
            /\ principal'[r] = principal'[s] /\ decidedBy'[r] < decidedBy'[s] )
          => decidedBy'[r] <= admittedAt'[s] /\ admittedAt'[r] <= admittedAt'[s]
  BY DEF HistoryInv
<1>6. \A p \in DOMAIN windows' : windows'[p].count > 0
  BY DEF HistoryInv
<1> QED
  BY <1>2, <1>3, <1>4, <1>5, <1>6 DEF HistoryInv

\* The window a request is let through under is the principal's last one or a
\* later one, and then the last has ended and this request opens it.
LEMMA AdmittingWindow ==
    ASSUME Inv, NEW r \in Requests, Admit(r)
    PROVE  LET p == principal[r]
               w == Current(windows, p, now[r])
           IN  /\ w.resetAt \in Nat /\ w.count \in Nat /\ w.count < Limit
               /\ \/ /\ p \in DOMAIN windows /\ w = windows[p]
                     /\ w.resetAt = lastReset[p]
                  \/ /\ w.count = 0
                     /\ lastReset[p] < w.resetAt /\ lastReset[p] <= clock
                     /\ clock + Window <= w.resetAt + MaxStale
<1> DEFINE p == principal[r]
           w == Current(windows, p, now[r])
<1>1. /\ p \in Principals /\ now[r] \in Nat /\ now[r] <= clock /\ clock \in Nat
      /\ clock - now[r] <= MaxStale /\ lastReset[p] \in Nat /\ pc[r] = "locked"
      /\ IsWindowTable(windows)
  BY DEF Admit, Inv, TypeOK, TableInv
<1>2. w \in WindowRecord /\ w.resetAt \in Nat /\ w.count \in Nat
  BY <1>1, CurrentFacts DEF WindowRecord
<1>3. w.count < Limit
  BY <1>2, RateAssumption DEF Admit, Exhausted
<1>4. CASE Tracked(windows, p, now[r])
  <2>1. p \in DOMAIN windows /\ w = windows[p]
    BY <1>1, <1>4, CurrentFacts
  <2>2. w.resetAt = lastReset[p]
    BY <1>1, <2>1 DEF Inv, TableInv
  <2> QED
    BY <1>2, <1>3, <2>1, <2>2
<1>5. CASE ~Tracked(windows, p, now[r])
  <2>1. w.count = 0 /\ w.resetAt = now[r] + Window
    BY <1>1, <1>5, CurrentFacts
  <2>2. /\ lastReset[p] <= clock
        /\ now[r] + Window >= lastReset[p] + Window - MaxStale
    BY <1>1, <1>5, OpenedLate
  <2>3. lastReset[p] < w.resetAt /\ clock + Window <= w.resetAt + MaxStale
    <3> HIDE DEF w, p
    <3> QED
      BY <1>1, <2>1, <2>2, RateAssumption, StaleAssumption
  <2> QED
    BY <1>2, <1>3, <2>1, <2>2, <2>3
<1> QED
  BY <1>4, <1>5

\* What an admission writes.
LEMMA AdmitWrites ==
    ASSUME Inv, NEW r \in Requests, Admit(r)
    PROVE  LET p == principal[r]
               w == Current(windows, p, now[r])
           IN  /\ p \in Principals /\ clock \in Nat /\ clock' = clock
               /\ pc[r] = "locked" /\ pc'[r] = "forwarded"
               /\ \A s \in Requests \ {r} : /\ pc'[s] = pc[s]
                                            /\ decidedBy'[s] = decidedBy[s]
                                            /\ admittedAt'[s] = admittedAt[s]
               /\ decidedBy'[r] = w.resetAt /\ admittedAt'[r] = clock
               /\ principal' = principal
               /\ lastReset'[p] = w.resetAt
               /\ \A q \in Principals \ {p} : lastReset'[q] = lastReset[q]
               /\ p \in DOMAIN windows'
               /\ windows'[p].count = w.count + 1 /\ windows'[p].resetAt = w.resetAt
               /\ \A q \in DOMAIN windows' \ {p} :
                     q \in DOMAIN windows /\ windows'[q] = windows[q]
<1> DEFINE p == principal[r]
           w == Current(windows, p, now[r])
<1>1. /\ p \in Principals /\ now[r] \in Nat /\ clock \in Nat
      /\ IsWindowTable(windows) /\ IsFiniteSet(DOMAIN windows)
  BY DEF Admit, Inv, TypeOK, TableInv
<1>2. windows' = Counted(windows, p, now[r])
  BY DEF Admit
<1>3. /\ decidedBy' = [decidedBy EXCEPT ![r] = w.resetAt]
      /\ lastReset' = [lastReset EXCEPT ![p] = w.resetAt]
      /\ admittedAt' = [admittedAt EXCEPT ![r] = clock]
      /\ pc[r] = "locked" /\ pc' = [pc EXCEPT ![r] = "forwarded"]
      /\ UNCHANGED <<clock, principal>>
  BY DEF Admit
<1>4. /\ DOMAIN windows' = DOMAIN Settled(windows, p, now[r]) \cup {p}
      /\ windows'[p].count = w.count + 1 /\ windows'[p].resetAt = w.resetAt
      /\ \A q \in DOMAIN Settled(windows, p, now[r]) \ {p} : windows'[q] = windows[q]
  <2> HIDE DEF p, w
  <2>1. /\ DOMAIN Counted(windows, p, now[r]) = DOMAIN Settled(windows, p, now[r]) \cup {p}
        /\ Counted(windows, p, now[r])[p].count = Current(windows, p, now[r]).count + 1
        /\ Counted(windows, p, now[r])[p].resetAt = Current(windows, p, now[r]).resetAt
        /\ \A q \in DOMAIN Settled(windows, p, now[r]) \ {p} :
               Counted(windows, p, now[r])[q] = windows[q]
        /\ IsWindowTable(Counted(windows, p, now[r]))
        /\ IsFiniteSet(DOMAIN Counted(windows, p, now[r]))
    BY <1>1, CountedFacts
  <2> QED
    BY <1>2, <2>1 DEF w
<1>5. DOMAIN Settled(windows, p, now[r]) \subseteq DOMAIN windows
  BY <1>1, SettledFacts
<1> HIDE DEF w
<1> QED
  BY <1>1, <1>3, <1>4, <1>5 DEF Inv, TypeOK, w

\* An admission is recorded, and disturbs no earlier record.
LEMMA AdmitHistory ==
    ASSUME Inv, HistoryInv, NEW r \in Requests, Admit(r)
    PROVE  HistoryInv'
<1>0. PICK p, w : p = principal[r] /\ w = Current(windows, p, now[r])
  OBVIOUS
<1>1. /\ p \in Principals /\ clock \in Nat /\ clock' = clock
      /\ pc[r] = "locked" /\ pc'[r] = "forwarded"
      /\ \A s \in Requests \ {r} : /\ pc'[s] = pc[s]
                                   /\ decidedBy'[s] = decidedBy[s]
                                   /\ admittedAt'[s] = admittedAt[s]
      /\ decidedBy'[r] = w.resetAt /\ admittedAt'[r] = clock
      /\ principal' = principal
      /\ lastReset'[p] = w.resetAt
      /\ \A q \in Principals \ {p} : lastReset'[q] = lastReset[q]
      /\ p \in DOMAIN windows'
      /\ windows'[p].count = w.count + 1 /\ windows'[p].resetAt = w.resetAt
      /\ \A q \in DOMAIN windows' \ {p} :
            q \in DOMAIN windows /\ windows'[q] = windows[q]
  BY <1>0, AdmitWrites
<1>2. /\ w.resetAt \in Nat /\ w.count \in Nat /\ w.count < Limit
      /\ \/ /\ p \in DOMAIN windows /\ w = windows[p]
            /\ w.resetAt = lastReset[p]
         \/ /\ w.count = 0
            /\ lastReset[p] < w.resetAt /\ lastReset[p] <= clock
            /\ clock + Window <= w.resetAt + MaxStale
  BY <1>0, AdmittingWindow
<1>3. PICK d \in Nat : d = w.resetAt
  BY <1>2
<1>4. lastReset[p] \in Nat
  BY <1>1 DEF Inv, TypeOK
\* Earlier windows of p have ended.
<1>5. ASSUME NEW s \in Requests, pc[s] = "forwarded", principal[s] = p
      PROVE  /\ s # r /\ Recorded(s) /\ decidedBy[s] \in Nat
             /\ admittedAt[s] \in Nat /\ admittedAt[s] <= clock
             /\ decidedBy[s] <= d /\ (decidedBy[s] # d => decidedBy[s] <= clock)
  <2>1. Recorded(s) /\ s # r
    BY <1>1, <1>5 DEF HistoryInv
  <2> QED
    BY <1>2, <1>3, <1>4, <1>5, <2>1 DEF Recorded
\* The window so far.
<1>6. /\ IsFiniteSet(CountedIn(p, d)) /\ r \notin CountedIn(p, d)
      /\ Cardinality(CountedIn(p, d)) = w.count
  <2>1. r \notin CountedIn(p, d)
    BY <1>1 DEF CountedIn
  <2>2. IsFiniteSet(CountedIn(p, d))
    <3>1. CASE CountedIn(p, d) = {}
      BY <3>1, FS_EmptySet
    <3>2. ASSUME NEW s \in CountedIn(p, d) PROVE IsFiniteSet(CountedIn(p, d))
      <4>1. /\ s \in Requests /\ pc[s] = "forwarded" /\ principal[s] = p
            /\ decidedBy[s] = d
        BY <3>2 DEF CountedIn
      <4> QED
        BY <1>5, <4>1 DEF Recorded, Peers
    <3> QED
      BY <3>1, <3>2
  <2>3. CASE p \in DOMAIN windows /\ w = windows[p] /\ w.resetAt = lastReset[p]
    BY <1>3, <2>1, <2>2, <2>3 DEF HistoryInv, CountsAdmissions
  <2>4. CASE w.count = 0 /\ lastReset[p] < w.resetAt
    <3>1. ASSUME NEW s \in CountedIn(p, d) PROVE FALSE
      <4>1. /\ s \in Requests /\ pc[s] = "forwarded" /\ principal[s] = p
            /\ decidedBy[s] = d
        BY <3>1 DEF CountedIn
      <4> QED
        BY <1>3, <1>4, <1>5, <2>4, <4>1 DEF Recorded
    <3> QED
      BY <2>1, <2>2, <2>4, <3>1, FS_EmptySet
  <2> QED
    BY <1>2, <2>3, <2>4
<1>7. /\ CountedIn(p, d)' = CountedIn(p, d) \cup {r}
      /\ \A q, e : (q # p \/ e # d) => CountedIn(q, e)' = CountedIn(q, e)
  BY <1>0, <1>1, <1>3 DEF CountedIn
<1>8. /\ IsFiniteSet(CountedIn(p, d)')
      /\ Cardinality(CountedIn(p, d)') = w.count + 1
      /\ Cardinality(CountedIn(p, d)') <= Limit
  <2>1. /\ IsFiniteSet(CountedIn(p, d)')
        /\ Cardinality(CountedIn(p, d)') = w.count + 1
    BY <1>6, <1>7, FS_AddElement
  <2> QED
    BY <1>2, <2>1, RateAssumption
\* Whoever opened the window.
<1>9. \E o \in CountedIn(p, d)' : admittedAt'[o] + Window <= d + MaxStale
  <2>1. CASE p \in DOMAIN windows /\ w = windows[p] /\ w.resetAt = lastReset[p]
    <3>1. w.count > 0
      BY <2>1 DEF HistoryInv
    <3>2. CountedIn(p, d) # {}
      BY <1>2, <1>6, <3>1, FS_EmptySet
    <3>3. PICK s \in CountedIn(p, d) : TRUE
      BY <3>2
    <3>4. /\ s \in Requests /\ pc[s] = "forwarded" /\ principal[s] = p
          /\ decidedBy[s] = d
      BY <3>3 DEF CountedIn
    <3>5. PICK o \in CountedIn(p, d) : admittedAt[o] + Window <= d + MaxStale
      BY <1>5, <3>4 DEF Recorded, Peers
    <3>6. o \in Requests \ {r} /\ o \in CountedIn(p, d)'
      BY <1>6, <1>7, <3>5 DEF CountedIn
    <3> QED
      BY <1>1, <3>5, <3>6
  <2>2. CASE clock + Window <= w.resetAt + MaxStale
    BY <1>1, <1>3, <1>7, <2>2
  <2> QED
    BY <1>2, <2>1, <2>2
<1>10. ASSUME NEW s \in Requests, pc'[s] = "forwarded" PROVE Recorded(s)'
  <2>1. CASE principal[s] = p /\ decidedBy'[s] = d
    <3>1. Peers(s)' = CountedIn(p, d)'
      BY <1>1, <2>1 DEF Peers, CountedIn
    <3>2. admittedAt'[s] \in Nat /\ admittedAt'[s] <= clock'
      BY <1>1, <1>5, <1>10, <2>1
    <3> QED
      BY <1>1, <1>3, <1>8, <1>9, <2>1, <3>1, <3>2 DEF Recorded
  <2>2. CASE principal[s] = p /\ decidedBy'[s] # d
    <3>1. s # r /\ pc[s] = "forwarded" /\ decidedBy'[s] = decidedBy[s]
      BY <1>1, <1>3, <1>10, <2>2
    <3>2. Peers(s)' = Peers(s) /\ r \notin Peers(s) /\ Peers(s) \subseteq Requests
      BY <1>0, <1>1, <1>3, <2>2, <3>1 DEF Peers, CountedIn
    <3>3. PICK o \in Peers(s) : admittedAt[o] + Window <= decidedBy[s] + MaxStale
      BY <1>5, <2>2, <3>1 DEF Recorded
    <3>4. admittedAt'[o] + Window <= decidedBy'[s] + MaxStale
      BY <1>1, <3>1, <3>2, <3>3
    <3>5. /\ decidedBy'[s] \in Nat /\ admittedAt'[s] \in Nat
          /\ admittedAt'[s] <= clock' /\ decidedBy'[s] <= d /\ decidedBy'[s] <= clock'
      BY <1>1, <1>5, <2>2, <3>1
    <3>6. IsFiniteSet(Peers(s)') /\ Cardinality(Peers(s)') <= Limit
      BY <1>5, <2>2, <3>1, <3>2 DEF Recorded
    <3> QED
      BY <1>1, <1>3, <2>2, <3>2, <3>3, <3>4, <3>5, <3>6 DEF Recorded
  <2>3. CASE principal[s] # p
    <3>1. s # r /\ pc[s] = "forwarded" /\ decidedBy'[s] = decidedBy[s]
          /\ admittedAt'[s] = admittedAt[s]
      BY <1>0, <1>1, <1>10, <2>3
    <3>2. Peers(s)' = Peers(s) /\ r \notin Peers(s) /\ Peers(s) \subseteq Requests
      BY <1>0, <1>1, <2>3, <3>1 DEF Peers, CountedIn
    <3>3. Recorded(s)
      BY <3>1 DEF HistoryInv
    <3>4. PICK o \in Peers(s) : admittedAt[o] + Window <= decidedBy[s] + MaxStale
      BY <3>3 DEF Recorded
    <3>5. admittedAt'[o] + Window <= decidedBy'[s] + MaxStale
      BY <1>1, <3>1, <3>2, <3>4
    <3>6. lastReset'[principal[s]] = lastReset[principal[s]]
      BY <1>1, <2>3, <3>3 DEF Recorded
    <3> QED
      BY <1>1, <3>1, <3>2, <3>3, <3>4, <3>5, <3>6 DEF Recorded
  <2> QED
    BY <2>1, <2>2, <2>3
<1>11. ASSUME NEW x \in Requests, NEW s \in Requests,
              pc'[x] = "forwarded", pc'[s] = "forwarded",
              principal'[x] = principal'[s], decidedBy'[x] < decidedBy'[s]
       PROVE  decidedBy'[x] <= admittedAt'[s] /\ admittedAt'[x] <= admittedAt'[s]
  <2>1. CASE x = r
    <3>1. s # r /\ pc[s] = "forwarded" /\ principal[s] = p /\ decidedBy'[s] = decidedBy[s]
      BY <1>0, <1>1, <1>3, <1>11, <2>1
    <3> QED
      BY <1>1, <1>3, <1>5, <1>11, <2>1, <3>1
  <2>2. CASE x # r /\ s = r
    <3>1. /\ pc[x] = "forwarded" /\ principal[x] = p /\ decidedBy'[x] = decidedBy[x]
          /\ admittedAt'[x] = admittedAt[x]
      BY <1>0, <1>1, <1>11, <2>2
    <3> QED
      BY <1>1, <1>3, <1>5, <1>11, <2>2, <3>1
  <2>3. CASE x # r /\ s # r
    BY <1>1, <1>11, <2>3 DEF HistoryInv
  <2> QED
    BY <2>1, <2>2, <2>3
<1>12. CountsAdmissions' /\ \A q \in DOMAIN windows' : windows'[q].count > 0
  <2> DEFINE C(q) == {s \in Requests : /\ pc'[s] = "forwarded" /\ principal'[s] = q
                                       /\ decidedBy'[s] = windows'[q].resetAt}
  <2>1. ASSUME NEW q \in DOMAIN windows'
        PROVE  windows'[q].count = Cardinality(C(q)) /\ windows'[q].count > 0
    <3>1. PICK e : e = windows'[q].resetAt
      OBVIOUS
    <3>2. C(q) = CountedIn(q, e)'
      BY <3>1 DEF CountedIn
    <3> HIDE DEF C
    <3>3. CASE q = p
      BY <1>1, <1>2, <1>3, <1>8, <3>1, <3>2, <3>3
    <3>4. CASE q # p
      <4>1. /\ q \in DOMAIN windows /\ windows'[q] = windows[q]
            /\ CountedIn(q, e)' = CountedIn(q, e)
        BY <1>1, <1>7, <3>4
      <4> QED
        BY <3>1, <3>2, <4>1 DEF HistoryInv, CountsAdmissions
    <3> QED
      BY <3>3, <3>4
  <2> QED
    BY <2>1 DEF CountsAdmissions, CountedIn
<1>13. \A s \in Requests : pc'[s] # "forwarded" => admittedAt'[s] = -1
  BY <1>1 DEF HistoryInv
<1> QED
  BY <1>10, <1>11, <1>12, <1>13 DEF HistoryInv

\* No admission, no window: the history of the initial state.
LEMMA InitHistory == Init => HistoryInv
BY DEF Init, HistoryInv, CountsAdmissions

\* Every step keeps the history: an admission records itself, and the others
\* let nobody through.
LEMMA NextHistory == Inv /\ HistoryInv /\ [Next]_vars => HistoryInv'
<1> SUFFICES ASSUME Inv, HistoryInv, [Next]_vars PROVE HistoryInv'
  OBVIOUS
<1>0. TypeOK /\ clock \in Nat
  BY DEF Inv, TypeOK
<1>1. CASE UNCHANGED vars
  <2>1. UNCHANGED <<clock, windows, pc, principal, admittedAt, decidedBy, lastReset>>
    BY <1>1 DEF vars
  <2> QED
    BY <1>0, <2>1, QuietHistory
<1>2. CASE Tick
  BY <1>0, <1>2, QuietHistory DEF Tick
<1>3. ASSUME NEW r \in Requests, Unidentified(r) PROVE HistoryInv'
  BY <1>0, <1>3, QuietHistory DEF Unidentified, TypeOK
<1>4. ASSUME NEW r \in Requests, NEW p \in Principals, ReadClock(r, p)
      PROVE  HistoryInv'
  BY <1>0, <1>4, QuietHistory DEF ReadClock, TypeOK
<1>5. ASSUME NEW r \in Requests, Lock(r) PROVE HistoryInv'
  BY <1>0, <1>5, QuietHistory DEF Lock, TypeOK
<1>6. ASSUME NEW r \in Requests, Reject(r) PROVE HistoryInv'
  BY <1>0, <1>6, QuietHistory DEF Reject, TypeOK
<1>7. ASSUME NEW r \in Requests, RejectFull(r) \/ RejectLimit(r) PROVE HistoryInv'
  <2>1. /\ windows' = Settled(windows, principal[r], now[r]) /\ now[r] \in Nat
    BY <1>0, <1>7 DEF RejectFull, RejectLimit, TypeOK
  <2>2. /\ DOMAIN windows' \subseteq DOMAIN windows
        /\ \A p \in DOMAIN windows' : windows'[p] = windows[p]
    BY <2>1, SettledFacts
  <2>3. /\ UNCHANGED <<clock, admittedAt, lastReset, principal>>
        /\ pc[r] = "locked" /\ pc' = [pc EXCEPT ![r] = "rejecting"]
        /\ \A s \in Requests \ {r} : decidedBy'[s] = decidedBy[s]
    BY <1>0, <1>7 DEF RejectFull, RejectLimit, TypeOK
  <2>4. \A s \in Requests : pc'[s] = "forwarded" <=> pc[s] = "forwarded"
    BY <1>0, <2>3 DEF TypeOK
  <2> QED
    BY <1>0, <2>2, <2>3, <2>4, QuietHistory
<1>8. ASSUME NEW r \in Requests, Admit(r) PROVE HistoryInv'
  BY <1>8, AdmitHistory
<1> QED
  BY <1>1, <1>2, <1>3, <1>4, <1>5, <1>6, <1>7, <1>8 DEF Next, Handle

\* Every behaviour of the limiter keeps its history.
THEOREM HistoryHolds == Spec => []HistoryInv
<1> QED
  BY InitHistory, NextHistory, InvHolds, PTL DEF Spec

\* The count of a window is the number of requests forwarded under it, in every
\* interleaving of any number of requests.
THEOREM CountsHold == Spec => []CountsAdmissions
<1>1. HistoryInv => CountsAdmissions
  BY DEF HistoryInv
<1> QED
  BY <1>1, HistoryHolds, PTL

----------------------------------------------------------------------------
(* Bursts.                                                                 *)

\* A window opened by a request that was let through at t or later outlasts
\* the interval that starts at t: nothing of a later window falls into it.
LEMMA OpenedInside ==
    ASSUME Inv, HistoryInv, NEW p \in Principals, NEW t \in Nat,
           NEW o \in Requests, NEW y \in AdmittedIn(p, t),
           pc[o] = "forwarded", principal[o] = p, admittedAt[o] >= t,
           admittedAt[o] + Window <= decidedBy[o] + MaxStale,
           decidedBy[o] < decidedBy[y]
    PROVE  FALSE
<1>1. /\ y \in Requests /\ principal[y] = p
      /\ admittedAt[y] \in t .. t + Window - MaxStale - 1
  BY DEF AdmittedIn
<1>2. pc[y] = "forwarded"
  BY <1>1 DEF HistoryInv
<1>3. decidedBy[o] <= admittedAt[y]
  BY <1>1, <1>2 DEF HistoryInv
<1>4. admittedAt[o] \in Nat /\ decidedBy[o] \in Nat
  BY DEF HistoryInv, Recorded
<1> QED
  BY <1>1, <1>3, <1>4, RateAssumption, StaleAssumption

\* What lies in an interval was let through under two windows at most, and
\* when there are two, the request that opened the first is not among it.
LEMMA BurstLemma ==
    ASSUME Inv, HistoryInv, NEW p \in Principals, NEW t \in Nat
    PROVE  Cardinality(AdmittedIn(p, t)) < 2 * Limit
<1> DEFINE A == AdmittedIn(p, t)
<1>0. Limit \in Nat /\ Limit > 0
  BY RateAssumption
<1>1. ASSUME NEW x \in A
      PROVE  /\ x \in Requests /\ pc[x] = "forwarded" /\ principal[x] = p
             /\ Recorded(x) /\ decidedBy[x] \in Nat
             /\ admittedAt[x] \in Nat /\ admittedAt[x] >= t
             /\ IsFiniteSet(Peers(x)) /\ Cardinality(Peers(x)) \in Nat
             /\ Cardinality(Peers(x)) <= Limit
             /\ \A z \in A : decidedBy[z] = decidedBy[x] => z \in Peers(x)
  <2>1. /\ x \in Requests /\ principal[x] = p
        /\ admittedAt[x] \in t .. t + Window - MaxStale - 1
    BY DEF AdmittedIn
  <2>2. pc[x] = "forwarded" /\ Recorded(x)
    BY <2>1 DEF HistoryInv
  <2>3. \A z \in A : z \in Requests /\ principal[z] = p /\ pc[z] = "forwarded"
    BY DEF HistoryInv, AdmittedIn
  <2>4. \A z \in A : decidedBy[z] = decidedBy[x] => z \in Peers(x)
    BY <2>1, <2>3 DEF Peers, CountedIn
  <2>5. IsFiniteSet(Peers(x)) /\ Cardinality(Peers(x)) <= Limit
    BY <2>2 DEF Recorded
  <2>6. Cardinality(Peers(x)) \in Nat
    BY <2>5, FS_CardinalityType
  <2> QED
    BY <2>1, <2>2, <2>4, <2>5, <2>6 DEF Recorded
<1> HIDE DEF A
\* Never three windows.
<1>2. ASSUME NEW a \in A, NEW b \in A, NEW c \in A,
             decidedBy[a] < decidedBy[b], decidedBy[b] < decidedBy[c]
      PROVE  FALSE
  <2>1. PICK o \in Peers(b) : admittedAt[o] + Window <= decidedBy[b] + MaxStale
    BY <1>1 DEF Recorded
  <2>2. /\ o \in Requests /\ pc[o] = "forwarded" /\ principal[o] = p
        /\ decidedBy[o] = decidedBy[b]
    BY <1>1, <2>1 DEF Peers, CountedIn
  <2>3. admittedAt[a] <= admittedAt[o]
    BY <1>1, <1>2, <2>2 DEF HistoryInv
  <2>4. admittedAt[o] \in Nat
    BY <2>2 DEF HistoryInv, Recorded
  <2>5. admittedAt[o] >= t
    BY <1>1, <2>3, <2>4
  <2> QED
    BY <1>2, <2>1, <2>2, <2>5, OpenedInside DEF A
\* Two windows.
<1>3. ASSUME NEW x \in A, NEW y \in A, decidedBy[x] < decidedBy[y]
      PROVE  Cardinality(A) < 2 * Limit
  <2>1. PICK o \in Peers(x) : admittedAt[o] + Window <= decidedBy[x] + MaxStale
    BY <1>1 DEF Recorded
  <2>2. /\ o \in Requests /\ pc[o] = "forwarded" /\ principal[o] = p
        /\ decidedBy[o] = decidedBy[x]
    BY <1>1, <2>1 DEF Peers, CountedIn
  <2>3. o \notin A
    <3> SUFFICES ASSUME o \in A PROVE FALSE
      OBVIOUS
    <3>1. admittedAt[o] >= t
      BY <1>1
    <3> QED
      BY <1>3, <2>1, <2>2, <3>1, OpenedInside DEF A
  <2> DEFINE X == Peers(x) \ {o}
             Y == Peers(y)
  <2>4. A \subseteq X \cup Y
    <3> SUFFICES ASSUME NEW z \in A PROVE z \in Peers(x) \cup Peers(y)
      BY <2>3
    <3>1. decidedBy[z] \in Nat /\ decidedBy[x] \in Nat /\ decidedBy[y] \in Nat
      BY <1>1
    <3>2. decidedBy[z] = decidedBy[x] \/ decidedBy[z] = decidedBy[y]
      BY <1>2, <1>3, <3>1
    <3> QED
      BY <1>1, <3>2
  <2>5. IsFiniteSet(X) /\ Cardinality(X) = Cardinality(Peers(x)) - 1
    BY <1>1, <2>1, FS_RemoveElement
  <2>6. IsFiniteSet(Y) /\ Cardinality(Y) \in Nat /\ Cardinality(Y) <= Limit
    BY <1>1
  <2>7. Cardinality(X) \in Nat /\ Cardinality(X) <= Limit - 1
    BY <1>0, <1>1, <2>5, FS_CardinalityType
  <2> HIDE DEF X, Y
  <2>8. /\ IsFiniteSet(X \cup Y) /\ IsFiniteSet(X \cap Y)
        /\ Cardinality(X \cup Y) = Cardinality(X) + Cardinality(Y) - Cardinality(X \cap Y)
    BY <2>5, <2>6, FS_Union, FS_Intersection
  <2>9. Cardinality(X \cap Y) \in Nat /\ Cardinality(X \cup Y) \in Nat
    BY <2>8, FS_CardinalityType
  <2>10. IsFiniteSet(A) /\ Cardinality(A) <= Cardinality(X \cup Y)
    BY <2>4, <2>8, FS_Subset
  <2>11. Cardinality(A) \in Nat
    BY <2>10, FS_CardinalityType
  <2> QED
    BY <1>0, <2>6, <2>7, <2>8, <2>9, <2>10, <2>11
\* One window, or none.
<1>4. ASSUME NEW x \in A, \A y \in A : decidedBy[y] = decidedBy[x]
      PROVE  Cardinality(A) < 2 * Limit
  <2>1. A \subseteq Peers(x)
    BY <1>1, <1>4
  <2>2. IsFiniteSet(A) /\ Cardinality(A) <= Cardinality(Peers(x))
    BY <1>1, <2>1, FS_Subset
  <2>3. Cardinality(A) \in Nat
    BY <2>2, FS_CardinalityType
  <2> QED
    BY <1>0, <1>1, <2>2, <2>3
<1>5. CASE A = {}
  BY <1>0, <1>5, FS_EmptySet DEF A
<1>6. ASSUME NEW x \in A, NEW y \in A, decidedBy[y] # decidedBy[x]
      PROVE  Cardinality(A) < 2 * Limit
  <2>1. decidedBy[x] \in Nat /\ decidedBy[y] \in Nat
    BY <1>1
  <2> QED
    BY <1>3, <1>6, <2>1
<1> QED
  BY <1>4, <1>5, <1>6 DEF A

\* Less than two windows' worth of a principal's requests pass in any interval
\* that is shorter than a window by the age of a clock value.
THEOREM BurstHolds == Spec => []BurstBound
<1>1. Inv /\ HistoryInv => BurstBound
  <2> SUFFICES ASSUME Inv, HistoryInv, NEW p \in Principals, NEW t \in 0 .. MaxClock
               PROVE  Cardinality(AdmittedIn(p, t)) < 2 * Limit
    BY DEF BurstBound
  <2>1. t \in Nat
    BY StaleAssumption
  <2> QED
    BY <2>1, BurstLemma
<1> QED
  BY <1>1, InvHolds, HistoryHolds, PTL
====
