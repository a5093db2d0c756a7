-------------------------- MODULE Services_proofs --------------------------
(***************************************************************************)
(* What holds of the circuit breaker for every number of callers and every  *)
(* configuration, and of the storefront for every number of handlers,       *)
(* shoppers, readers and requests, every catalogue and every tree of        *)
(* categories.                                                              *)
(***************************************************************************)
EXTENDS Storefront, CircuitBreaker, Sequences, FiniteSetTheorems, NaturalsInduction, WellFoundedInduction, TLAPS

(* The circuit breaker.                                                    *)

\* NewBreaker's normalisation leaves only usable parameters.
LEMMA ConfigUsable ==
    /\ MinRequests \in Nat \ {0}
    /\ RatioNum \in Nat \ {0}
    /\ RatioDen \in Nat \ {0}
    /\ OpenFor \in Nat \ {0}
    /\ MaxAttempts \in Nat \ {0}
  BY ConfigAssumption DEF MinRequests, RatioNum, RatioDen, OpenFor, MaxAttempts

\* Report's decay rounds half of a counter up.
LEMMA HalfUpBound ==
    \A n \in Nat : HalfUp(n) \in Nat /\ 2 * HalfUp(n) <= n + 1
  BY DEF HalfUp

\* A caller that backs off has an attempt left: Do leaves the loop after the
\* last one.  Without it the type of attempt is not inductive.
RetryBudget == \A c \in Callers : pc[c] = "backoff" => attempt[c] < MaxAttempts

\* The inductive invariant.
BreakerInv == TypeOK /\ WindowBounded /\ RetryBudget

\* A transition of the breaker (changeStateLocked) keeps its types and empties
\* the window.
LEMMA ChangeState ==
    ASSUME BreakerInv, NEW next \in States, changeStateLocked(next)
    PROVE  /\ state' \in States /\ state' = next
           /\ failures' = 0 /\ successes' = 0
           /\ sinceOpened' \in 0..OpenFor
           /\ next = "Open" => sinceOpened' = 0
  BY ConfigUsable DEF BreakerInv, TypeOK, changeStateLocked, States

\* What any report, early or late, does to the breaker: the window stays
\* bounded, an open breaker stays as it is, and an opening restarts the clock.
LEMMA ReportEffect ==
    ASSUME BreakerInv, NEW success \in BOOLEAN, Report(success)
    PROVE  /\ state' \in States /\ failures' \in Nat /\ successes' \in Nat
           /\ sinceOpened' \in 0..OpenFor
           /\ WindowBounded'
           /\ state' # "HalfOpen"
           /\ state = "Open" => state' = "Open" /\ sinceOpened' = sinceOpened
           /\ state # "Open" /\ state' = "Open" => sinceOpened' = 0
<1> USE DEF BreakerInv, TypeOK
<1>1. CASE state = "Open"
  BY <1>1 DEF Report, breakerVars, WindowBounded, States
<1>2. CASE state = "HalfOpen"
  <2>1. PICK next \in {"Closed", "Open"} : changeStateLocked(next)
    BY <1>2 DEF Report
  <2>2. next \in States
    BY DEF States
  <2>3. /\ state' \in States /\ failures' = 0 /\ successes' = 0
        /\ sinceOpened' \in 0..OpenFor /\ state' = next
        /\ next = "Open" => sinceOpened' = 0
    BY <2>1, <2>2, ChangeState DEF changeStateLocked
  <2> QED BY <1>2, <2>3, ConfigUsable DEF WindowBounded
<1>3. CASE state = "Closed"
  <2>0. ReportClosed(success)
    BY <1>3 DEF Report
  <2> DEFINE f == IF success THEN failures ELSE failures + 1
             s == IF success THEN successes + 1 ELSE successes
  <2>1. f \in Nat /\ s \in Nat /\ f + s = failures + successes + 1
    OBVIOUS
  <2>2. f + s <= 2 * MinRequests + 1
    BY <2>1, ConfigUsable DEF WindowBounded
  <2>3. \/ changeStateLocked("Open")
        \/ failures' = f /\ successes' = s /\ f + s <= 2 * MinRequests
             /\ state' = state /\ sinceOpened' = sinceOpened
        \/ failures' = HalfUp(f) /\ successes' = HalfUp(s)
             /\ state' = state /\ sinceOpened' = sinceOpened
    BY <2>0, <2>1, ConfigUsable DEF ReportClosed
  <2>4. CASE changeStateLocked("Open")
    <3>1. "Open" \in States
      BY DEF States
    <3>2. /\ state' \in States /\ state' = "Open" /\ failures' = 0 /\ successes' = 0
          /\ sinceOpened' = 0 /\ sinceOpened' \in 0..OpenFor
      BY <2>4, <3>1, ChangeState
    <3> QED BY <1>3, <3>2, ConfigUsable DEF WindowBounded
  <2>5. CASE failures' = f /\ successes' = s /\ f + s <= 2 * MinRequests
               /\ state' = state /\ sinceOpened' = sinceOpened
    BY <1>3, <2>1, <2>5 DEF WindowBounded, MinRequests
  <2>6. CASE failures' = HalfUp(f) /\ successes' = HalfUp(s)
               /\ state' = state /\ sinceOpened' = sinceOpened
    <3>1. /\ HalfUp(f) \in Nat /\ 2 * HalfUp(f) <= f + 1
          /\ HalfUp(s) \in Nat /\ 2 * HalfUp(s) <= s + 1
      BY <2>1, HalfUpBound
    <3> HIDE DEF f, s
    <3>2. HalfUp(f) + HalfUp(s) <= 2 * MinRequests
      BY <2>1, <2>2, <3>1, ConfigUsable
    <3> QED BY <1>3, <2>6, <3>1, <3>2 DEF WindowBounded, MinRequests
  <2> QED BY <2>3, <2>4, <2>5, <2>6
<1> QED BY <1>1, <1>2, <1>3 DEF States

LEMMA BreakerInit == Init => BreakerInv
  BY ConfigUsable DEF Init, BreakerInv, TypeOK, WindowBounded, RetryBudget, States, Positions

\* Every step of every caller, of the clock and of the dependency keeps the
\* invariant and is a legal step of the cool-off.
LEMMA BreakerStep == BreakerInv /\ [Next]_vars => BreakerInv' /\ (CoolOffStep \/ UNCHANGED vars)
<1> SUFFICES ASSUME BreakerInv, [Next]_vars
             PROVE  BreakerInv' /\ (CoolOffStep \/ UNCHANGED vars)
  OBVIOUS
<1> USE ConfigUsable
<1>1. ASSUME NEW c \in Callers, StartDo(c) PROVE BreakerInv' /\ CoolOffStep
  BY <1>1 DEF StartDo, BreakerInv, TypeOK, WindowBounded, RetryBudget, breakerVars, Positions, CoolOffStep, MinRequests
<1>2. ASSUME NEW c \in Callers, Allow(c) PROVE BreakerInv' /\ CoolOffStep
  <2>1. CASE state = "Open" /\ sinceOpened >= OpenFor /\ changeStateLocked("HalfOpen") /\ Admit(c, "HalfOpen")
    BY <1>2, <2>1 DEF Allow, changeStateLocked, Admit, BreakerInv, TypeOK, WindowBounded, RetryBudget,
                      Positions, States, CoolOffStep
  <2>2. CASE state = "Open" /\ sinceOpened < OpenFor /\ Return(c) /\ UNCHANGED breakerVars
    BY <1>2, <2>2 DEF Allow, Return, breakerVars, BreakerInv, TypeOK, WindowBounded, RetryBudget,
                      Positions, States, CoolOffStep
  <2>3. CASE state # "Open" /\ Admit(c, state) /\ UNCHANGED breakerVars
    BY <1>2, <2>3 DEF Allow, Admit, breakerVars, BreakerInv, TypeOK, WindowBounded, RetryBudget,
                      Positions, States, CoolOffStep
  <2> QED BY <1>2, <2>1, <2>2, <2>3 DEF Allow
<1>3. ASSUME NEW c \in Callers, Succeed(c) PROVE BreakerInv' /\ CoolOffStep
  <2>1. Report(TRUE) /\ Return(c) /\ healthy' = healthy
    BY <1>3, Zenon DEF Succeed
  <2>2. /\ state' \in States /\ failures' \in Nat /\ successes' \in Nat
        /\ sinceOpened' \in 0..OpenFor /\ WindowBounded'
        /\ state = "Open" => state' = "Open" /\ sinceOpened' = sinceOpened
        /\ state # "Open" /\ state' = "Open" => sinceOpened' = 0
    BY <2>1, ReportEffect, Zenon
  <2>3. TypeOK' /\ RetryBudget' /\ CoolOffStep
    BY <2>1, <2>2 DEF Return, BreakerInv, TypeOK, RetryBudget, Positions, States, CoolOffStep
  <2> QED BY <2>2, <2>3 DEF BreakerInv
<1>4. ASSUME NEW c \in Callers, Fail(c) PROVE BreakerInv' /\ CoolOffStep
  <2>1. /\ Report(FALSE) /\ healthy' = healthy
        /\ \/ Return(c)
           \/ /\ attempt[c] < MaxAttempts
              /\ pc' = [pc EXCEPT ![c] = "backoff"]
              /\ admittedIn' = [admittedIn EXCEPT ![c] = "Closed"]
              /\ UNCHANGED attempt
    BY <1>4, Zenon DEF Fail
  <2>2. /\ state' \in States /\ failures' \in Nat /\ successes' \in Nat
        /\ sinceOpened' \in 0..OpenFor /\ WindowBounded'
        /\ state = "Open" => state' = "Open" /\ sinceOpened' = sinceOpened
        /\ state # "Open" /\ state' = "Open" => sinceOpened' = 0
    BY <2>1, ReportEffect, Zenon
  <2>3. TypeOK' /\ RetryBudget' /\ CoolOffStep
    BY <2>1, <2>2 DEF Return, BreakerInv, TypeOK, RetryBudget, Positions, States, CoolOffStep
  <2> QED BY <2>2, <2>3 DEF BreakerInv
<1>5. ASSUME NEW c \in Callers, BackoffElapsed(c) PROVE BreakerInv' /\ CoolOffStep
  BY <1>5 DEF BackoffElapsed, BreakerInv, TypeOK, WindowBounded, RetryBudget, breakerVars, Positions, CoolOffStep
<1>6. ASSUME NEW c \in Callers, BackoffCancelled(c) PROVE BreakerInv' /\ CoolOffStep
  BY <1>6 DEF BackoffCancelled, Return, BreakerInv, TypeOK, WindowBounded, RetryBudget, breakerVars, Positions, States, CoolOffStep
<1>7. CASE Tick
  BY <1>7 DEF Tick, BreakerInv, TypeOK, WindowBounded, RetryBudget, CoolOffStep
<1>8. CASE HealthChange
  BY <1>8 DEF HealthChange, breakerVars, BreakerInv, TypeOK, WindowBounded, RetryBudget, CoolOffStep
<1>9. CASE UNCHANGED vars
  BY <1>9 DEF vars, BreakerInv, TypeOK, WindowBounded, RetryBudget
<1> QED BY <1>1, <1>2, <1>3, <1>4, <1>5, <1>6, <1>7, <1>8, <1>9 DEF Next, CallerStep

\* The variables of CircuitBreaker always have their types: in particular Do
\* never counts an attempt beyond MaxAttempts.
THEOREM TypeCorrect == Spec => []TypeOK
<1>1. BreakerInv => TypeOK
  BY DEF BreakerInv
<1> QED BY BreakerInit, BreakerStep, <1>1, PTL DEF Spec

\* For every configuration and number of callers the rolling window of Report
\* never passes twice the minimum number of requests.
THEOREM WindowAlwaysBounded == Spec => []WindowBounded
<1>1. BreakerInv => WindowBounded
  BY DEF BreakerInv
<1> QED BY BreakerInit, BreakerStep, <1>1, PTL DEF Spec

\* No interleaving of Allow, late reports and the clock cuts a cool-off short.
THEOREM CoolOffAlwaysRespected == Spec => CoolOffRespected
  BY BreakerInit, BreakerStep, PTL DEF Spec, CoolOffRespected

\* Every action keeps a probe in flight while the breaker is half-open: a probe
\* ends by reporting, and any report leaves the half-open state.
LEMMA StepProbe == BreakerInv /\ ProbeInFlight /\ [Next]_vars => ProbeInFlight'
<1> SUFFICES ASSUME BreakerInv, ProbeInFlight, [Next]_vars, state' = "HalfOpen"
             PROVE  \E d \in Callers : pc'[d] = "sending" /\ admittedIn'[d] = "HalfOpen"
  BY DEF ProbeInFlight
<1> USE DEF BreakerInv, TypeOK
<1>1. ASSUME NEW c \in Callers, StartDo(c)
      PROVE  \E d \in Callers : pc'[d] = "sending" /\ admittedIn'[d] = "HalfOpen"
  BY <1>1 DEF StartDo, breakerVars, ProbeInFlight
<1>2. ASSUME NEW c \in Callers, Allow(c)
      PROVE  \E d \in Callers : pc'[d] = "sending" /\ admittedIn'[d] = "HalfOpen"
  <2>1. CASE Admit(c, "HalfOpen")
    BY <1>2, <2>1 DEF Admit
  <2>2. CASE state = "Open" /\ UNCHANGED breakerVars
    BY <2>2 DEF breakerVars
  <2>3. CASE state # "Open" /\ Admit(c, state) /\ UNCHANGED breakerVars
    BY <2>1, <2>3 DEF breakerVars
  <2> QED BY <1>2, <2>1, <2>2, <2>3 DEF Allow
<1>3. ASSUME NEW c \in Callers, Succeed(c) \/ Fail(c) PROVE FALSE
  BY <1>3, ReportEffect, Zenon DEF Succeed, Fail
<1>4. ASSUME NEW c \in Callers, BackoffElapsed(c) \/ BackoffCancelled(c)
      PROVE  \E d \in Callers : pc'[d] = "sending" /\ admittedIn'[d] = "HalfOpen"
  BY <1>4 DEF BackoffElapsed, BackoffCancelled, Return, breakerVars, ProbeInFlight
<1>5. CASE Tick \/ HealthChange \/ UNCHANGED vars
  BY <1>5 DEF Tick, HealthChange, breakerVars, vars, ProbeInFlight
<1> QED BY <1>1, <1>2, <1>3, <1>4, <1>5 DEF Next, CallerStep

\* A half-open breaker is never left without a probe that will decide.
THEOREM ProbeAlwaysInFlight == Spec => []ProbeInFlight
<1>1. Init => ProbeInFlight
  BY DEF Init, ProbeInFlight
<1> QED BY BreakerInit, BreakerStep, StepProbe, <1>1, PTL DEF Spec

----------------------------------------------------------------------------
(* Pages of a listing.                                                     *)

Slugs == DOMAIN Products

LEMMA ShopCounts == \A S : Shop!Cardinality(S) = Cardinality(S)
  BY Zenon DEF Shop!Cardinality, Cardinality

\* ORDER BY puts any two products in one order.
LEMMA SortKey ==
    ASSUME NEW sort
    PROVE  \E key \in [Slugs -> Int] : \A p, r \in Slugs :
               Shop!Before(sort, p, r) <=>
                   key[p] < key[r] \/ (key[p] = key[r] /\ Products[p].created > Products[r].created)
<1> DEFINE By(key) == \A p, r \in Slugs :
               Shop!Before(sort, p, r) <=>
                   key[p] < key[r] \/ (key[p] = key[r] /\ Products[p].created > Products[r].created)
<1>1. \A p \in Slugs : Products[p].price \in Int /\ Products[p].title \in Int /\ Products[p].created \in Int
  BY ShopConstants, Zenon DEF Slugs
<1>2. CASE sort = "price:asc"
  <2>1. PICK key : key = [p \in Slugs |-> Products[p].price]
    OBVIOUS
  <2>2. key \in [Slugs -> Int]
    BY <1>1, <2>1
  <2>3. By(key)
    BY <1>1, <1>2, <2>1 DEF Shop!Before
  <2> QED BY <2>2, <2>3, Zenon
<1>3. CASE sort = "price:desc"
  <2>1. PICK key : key = [p \in Slugs |-> 0 - Products[p].price]
    BY Zenon
  <2>2. key \in [Slugs -> Int]
    BY <1>1, <2>1
  <2>3. By(key)
    BY <1>1, <1>3, <2>1 DEF Shop!Before
  <2> QED BY <2>2, <2>3, Zenon
<1>4. CASE sort = "title:asc"
  <2>1. PICK key : key = [p \in Slugs |-> Products[p].title]
    OBVIOUS
  <2>2. key \in [Slugs -> Int]
    BY <1>1, <2>1
  <2>3. By(key)
    BY <1>1, <1>4, <2>1 DEF Shop!Before
  <2> QED BY <2>2, <2>3, Zenon
<1>5. CASE sort = "title:desc"
  <2>1. PICK key : key = [p \in Slugs |-> 0 - Products[p].title]
    BY Zenon
  <2>2. key \in [Slugs -> Int]
    BY <1>1, <2>1
  <2>3. By(key)
    BY <1>1, <1>5, <2>1 DEF Shop!Before
  <2> QED BY <2>2, <2>3, Zenon
<1>6. CASE sort \notin {"price:asc", "price:desc", "title:asc", "title:desc"}
  <2>1. PICK key : key = [p \in Slugs |-> 0]
    BY Zenon
  <2>2. key \in [Slugs -> Int]
    BY <1>1, <2>1
  <2>3. By(key)
    BY <1>1, <1>6, <2>1 DEF Shop!Before
  <2> QED BY <2>2, <2>3, Zenon
<1> QED BY <1>2, <1>3, <1>4, <1>5, <1>6, Zenon

LEMMA BeforeOrders ==
    ASSUME NEW sort, NEW p \in Slugs, NEW r \in Slugs
    PROVE  /\ ~Shop!Before(sort, p, p)
           /\ p # r => Shop!Before(sort, p, r) \/ Shop!Before(sort, r, p)
           /\ \A s \in Slugs : Shop!Before(sort, s, p) /\ Shop!Before(sort, p, r) => Shop!Before(sort, s, r)
<1>1. PICK key \in [Slugs -> Int] : \A a, b \in Slugs :
          Shop!Before(sort, a, b) <=>
              key[a] < key[b] \/ (key[a] = key[b] /\ Products[a].created > Products[b].created)
  BY SortKey
<1>2. \A a \in Slugs : Products[a].created \in Int
  BY ShopConstants, Zenon DEF Slugs
<1>3. p # r => Products[p].created # Products[r].created
  BY ShopConstants, Zenon DEF Slugs
<1> QED BY <1>1, <1>2, <1>3

Ahead(q, p) == {r \in Shop!Matches(q) : Shop!Before(q.sort, r, p)}
Rank(q, p)  == Cardinality(Ahead(q, p))
Count(q)    == Cardinality(Shop!Matches(q))

LEMMA MatchesFinite ==
    ASSUME NEW q
    PROVE  /\ Shop!Matches(q) \subseteq Slugs /\ IsFiniteSet(Shop!Matches(q))
           /\ Count(q) \in Nat /\ Count(q) <= Half
<1>1. Shop!Matches(q) \subseteq Slugs
  BY Zenon DEF Shop!Matches, Shop!Slugs, Slugs
<1>2. IsFiniteSet(Slugs) /\ Cardinality(Slugs) <= Half /\ Half \in Nat
  BY ShopConstants DEF Slugs
<1>3. IsFiniteSet(Shop!Matches(q)) /\ Count(q) <= Cardinality(Slugs)
  BY <1>1, <1>2, FS_Subset DEF Count
<1>4. Count(q) \in Nat /\ Cardinality(Slugs) \in Nat
  BY <1>2, <1>3, FS_CardinalityType DEF Count
<1> QED BY <1>1, <1>2, <1>3, <1>4

LEMMA RankInRange == ASSUME NEW q, NEW p \in Shop!Matches(q) PROVE Rank(q, p) \in 0..(Count(q) - 1)
<1>1. Ahead(q, p) \subseteq Shop!Matches(q) /\ p \notin Ahead(q, p)
  BY MatchesFinite, BeforeOrders, Zenon DEF Ahead
<1>2. Rank(q, p) \in Nat /\ Rank(q, p) <= Count(q) /\ Count(q) # Rank(q, p)
  BY <1>1, MatchesFinite, FS_Subset, FS_CardinalityType DEF Rank, Count
<1> QED BY <1>2, MatchesFinite

LEMMA RankGrows ==
    ASSUME NEW q, NEW p \in Shop!Matches(q), NEW r \in Shop!Matches(q), Shop!Before(q.sort, p, r)
    PROVE  Rank(q, p) < Rank(q, r)
<1>1. p \in Slugs /\ r \in Slugs /\ \A s \in Shop!Matches(q) : s \in Slugs
  BY MatchesFinite, Zenon
<1>2. Ahead(q, p) \subseteq Ahead(q, r)
  BY <1>1, BeforeOrders, Zenon DEF Ahead
<1>3. p \in Ahead(q, r) /\ p \notin Ahead(q, p)
  BY <1>1, BeforeOrders, Zenon DEF Ahead
<1>4. IsFiniteSet(Ahead(q, r))
  BY MatchesFinite, FS_Subset DEF Ahead
<1>5. Rank(q, p) <= Rank(q, r) /\ Rank(q, r) # Rank(q, p)
  BY <1>2, <1>3, <1>4, FS_Subset DEF Rank
<1> QED BY <1>5, RankInRange, MatchesFinite

LEMMA RankTells ==
    ASSUME NEW q, NEW p \in Shop!Matches(q), NEW r \in Shop!Matches(q)
    PROVE  /\ Rank(q, p) = Rank(q, r) => p = r
           /\ Rank(q, p) < Rank(q, r) => Shop!Before(q.sort, p, r)
<1>1. Rank(q, p) \in Int /\ Rank(q, r) \in Int
  BY RankInRange, MatchesFinite
<1>2. p = r \/ Shop!Before(q.sort, p, r) \/ Shop!Before(q.sort, r, p)
  BY MatchesFinite, BeforeOrders, Zenon
<1>3. Shop!Before(q.sort, p, r) => Rank(q, p) < Rank(q, r)
  BY RankGrows, Zenon
<1>4. Shop!Before(q.sort, r, p) => Rank(q, r) < Rank(q, p)
  BY RankGrows, Zenon
<1> QED BY <1>1, <1>2, <1>3, <1>4

\* So the ranks are all numbers below the count, and every row has its place.
LEMMA RankReached == ASSUME NEW q, NEW m \in 1..Count(q) PROVE \E p \in Shop!Matches(q) : Rank(q, p) = m - 1
<1> DEFINE M == Shop!Matches(q)
           N == 0..(Count(q) - 1)
           f == [p \in M |-> Rank(q, p)]
<1>1. f \in Injection(M, N)
  <2>1. f \in [M -> N]
    BY RankInRange, Zenon
  <2>2. \A a, b \in M : f[a] = f[b] => a = b
    BY RankTells, Zenon
  <2> QED BY <2>1, <2>2, Zenon DEF Injection, IsInjective
<1>2. IsFiniteSet(N) /\ Cardinality(N) = Count(q)
  <2>1. PICK b \in Int : b = Count(q) - 1
    BY MatchesFinite
  <2>2. IsFiniteSet(0..b) /\ Cardinality(0..b) = IF 0 > b THEN 0 ELSE b - 0 + 1
    BY FS_Interval
  <2> QED BY <2>1, <2>2, MatchesFinite
<1>3. f \in Surjection(M, N)
  <2>1. Cardinality(M) = Cardinality(N)
    BY <1>2, Zenon DEF Count
  <2> HIDE DEF f, M, N
  <2> QED BY <1>1, <1>2, <2>1, FS_Injection, Zenon
<1>4. m - 1 \in N
  BY MatchesFinite
<1>5. \E p \in M : f[p] = m - 1
  <2> HIDE DEF f, M, N
  <2> QED BY <1>3, <1>4, Zenon DEF Surjection
<1> QED BY <1>5, Zenon

LEMMA RowAtIs ==
    ASSUME NEW q, NEW m \in 1..Count(q)
    PROVE  Shop!RowAt(q, m) \in Shop!Matches(q) /\ Rank(q, Shop!RowAt(q, m)) = m - 1
  BY RankReached, ShopCounts, Zenon DEF Shop!RowAt, Rank, Ahead

LEMMA RowsSorted ==
    ASSUME NEW q, NEW m \in 1..(Count(q) - 1)
    PROVE  Shop!Before(q.sort, Shop!RowAt(q, m), Shop!RowAt(q, m + 1))
<1>1. m \in 1..Count(q) /\ m + 1 \in 1..Count(q) /\ m - 1 < (m + 1) - 1
  BY MatchesFinite
<1> QED BY <1>1, RowAtIs, RankTells, Zenon

LEMMA RowsAll ==
    ASSUME NEW q, NEW p \in Shop!Matches(q)
    PROVE  \E m \in 1..Count(q) : Shop!RowAt(q, m) = p
<1>1. PICK m : m = Rank(q, p) + 1
  OBVIOUS
<1>2. m \in 1..Count(q) /\ m - 1 = Rank(q, p)
  BY <1>1, RankInRange, MatchesFinite
<1> QED BY <1>2, RowAtIs, RankTells, Zenon

\* Putting pages together.  Concat is defined by recursion on the number of
\* pages; the first page where two solutions differ cannot be.
LEMMA LeastNumber == ASSUME NEW T, T \subseteq Nat, T # {} PROVE \E x \in T : \A y \in T : x <= y
<1>1. PICK x \in T : \A y \in T : ~(<<y, x>> \in OpToRel(<, Nat))
  BY NatLessThanWellFounded, WFMin, Zenon
<1>2. \A y \in T : ~(y < x)
  BY <1>1, Zenon DEF OpToRel
<1> QED BY <1>2

Concats(f, s, k) == f = [i \in 0..k |-> IF i = 0 THEN <<>> ELSE f[i - 1] \o s[i]]

LEMMA ConcatIs ==
    ASSUME NEW s, NEW k \in Nat, Len(s) = k, NEW F, Concats(F, s, k)
    PROVE  Shop!Concat(s) = F[k]
<1> DEFINE g == CHOOSE f : Concats(f, s, k)
<1>1. Concats(g, s, k)
  BY Zenon
<1>2. Shop!Concat(s) = g[k]
  BY Zenon DEF Shop!Concat, Concats
<1> HIDE DEF g
<1>3. ASSUME NEW f, Concats(f, s, k) PROVE f[0] = <<>> /\ \A i \in 1..k : f[i] = f[i - 1] \o s[i]
  <2>1. \A i \in 0..k : f[i] = IF i = 0 THEN <<>> ELSE f[i - 1] \o s[i]
    BY <1>3, Zenon DEF Concats
  <2>2. 0 \in 0..k /\ \A i \in 1..k : i \in 0..k /\ i # 0
    OBVIOUS
  <2> QED BY <2>1, <2>2, Zenon
<1>4. \A i \in 0..k : g[i] = F[i]
  <2> DEFINE T == {i \in 0..k : g[i] # F[i]}
  <2>1. SUFFICES ASSUME T # {} PROVE FALSE
    BY Zenon
  <2>2. T \subseteq Nat
    OBVIOUS
  <2> HIDE DEF T
  <2>3. PICK d \in T : \A y \in T : d <= y
    BY <2>1, <2>2, LeastNumber, Zenon
  <2>4. d \in 0..k /\ g[d] # F[d]
    BY <2>3, Zenon DEF T
  <2>5. d # 0
    BY <1>1, <1>3, <2>4, Zenon
  <2>6. d \in 1..k /\ d - 1 \in 0..k /\ ~(d <= d - 1)
    BY <2>4, <2>5
  <2>7. g[d - 1] = F[d - 1]
    BY <2>3, <2>6, Zenon DEF T
  <2>8. g[d] = g[d - 1] \o s[d] /\ F[d] = F[d - 1] \o s[d]
    BY <1>1, <1>3, <2>6, Zenon
  <2> QED BY <2>4, <2>7, <2>8, Zenon
<1>5. k \in 0..k
  OBVIOUS
<1> QED BY <1>2, <1>4, <1>5, Zenon

FirstOf(A, a)   == [m \in 1..a |-> A[m]]
NextOf(A, a, b) == [j \in 1..b |-> A[a + j]]

LEMMA Joined ==
    ASSUME NEW A, NEW a \in Nat, NEW b \in Nat
    PROVE  FirstOf(A, a) \o NextOf(A, a, b) = FirstOf(A, a + b)
<1> DEFINE S == {A[m] : m \in 1..(a + b)}
           s == [m \in 1..a |-> A[m]]
           t == [j \in 1..b |-> A[a + j]]
           u == [m \in 1..(a + b) |-> A[m]]
<1>1. s \in Seq(S) /\ Len(s) = a /\ \A m \in 1..a : s[m] = A[m]
  OBVIOUS
<1>2. t \in Seq(S) /\ Len(t) = b /\ \A j \in 1..b : t[j] = A[a + j]
  OBVIOUS
<1>3. u \in Seq(S) /\ Len(u) = a + b /\ \A m \in 1..(a + b) : u[m] = A[m]
  OBVIOUS
<1> HIDE DEF s, t, u, S
<1>4. s \o t \in Seq(S) /\ Len(s \o t) = a + b
  BY <1>1, <1>2
<1>5. ASSUME NEW m \in 1..(a + b) PROVE (s \o t)[m] = u[m]
  <2>1. CASE m <= a
    BY <1>1, <1>2, <1>3, <2>1
  <2>2. CASE ~(m <= a)
    <3>1. m - a \in 1..b /\ a + (m - a) = m
      BY <2>2
    <3>2. (s \o t)[m] = t[m - a]
      BY <1>1, <1>2, <2>2
    <3> QED BY <1>2, <1>3, <3>1, <3>2
  <2> QED BY <2>1, <2>2, Zenon
<1>6. s \o t = u
  BY <1>3, <1>4, <1>5
<1> QED BY <1>6, Zenon DEF s, t, u, FirstOf, NextOf

\* The last page is the one that reaches the count.
LEMMA PageCount ==
    ASSUME NEW n \in Nat, NEW l \in Nat \ {0}, NEW k, k = (n + l - 1) \div l
    PROVE  k \in Nat /\ (k - 1) * l < n /\ n <= k * l
  OBVIOUS

LEMMA PageStarts ==
    ASSUME NEW n \in Nat, NEW l \in Nat \ {0}
    PROVE  \A i \in 1..((n + l - 1) \div l) : i \in Nat \ {0} /\ (i - 1) * l < n
<1>1. PICK k : k = (n + l - 1) \div l
  OBVIOUS
<1>2. k \in Nat /\ (k - 1) * l < n
  BY <1>1, PageCount
<1>3. \A i \in 1..k : i \in Nat \ {0} /\ (i - 1) * l < n
  BY <1>2
<1> QED BY <1>1, <1>3, Zenon

PageSize(n, l, i) == IF l <= n - (i - 1) * l THEN l ELSE n - (i - 1) * l
PageAt(A, n, l, i) == [j \in 1..PageSize(n, l, i) |-> A[(i - 1) * l + j]]
PagesOf(A, n, l)   == [i \in 1..((n + l - 1) \div l) |-> PageAt(A, n, l, i)]

\* Pages that each start where the one before ends make the whole.
LEMMA PagesJoin ==
    ASSUME NEW A, NEW n \in Nat, NEW l \in Nat \ {0}
    PROVE  Shop!Concat(PagesOf(A, n, l)) = [m \in 1..n |-> A[m]]
<1>1. PICK k : k = (n + l - 1) \div l
  OBVIOUS
<1>2. k \in Nat /\ (k - 1) * l < n /\ n <= k * l
  BY <1>1, PageCount
<1>3. PICK pages : pages = PagesOf(A, n, l)
  OBVIOUS
<1>4. pages = [i \in 1..k |-> [j \in 1..PageSize(n, l, i) |-> A[(i - 1) * l + j]]]
  BY <1>1, <1>3, Zenon DEF PagesOf, PageAt
<1>5. Len(pages) = k
  BY <1>2, <1>4
<1> DEFINE Upto(i) == IF i * l <= n THEN i * l ELSE n
           F == [i \in 0..k |-> FirstOf(A, Upto(i))]
<1>6. ASSUME NEW i \in 0..k PROVE F[i] = IF i = 0 THEN <<>> ELSE F[i - 1] \o pages[i]
  <2>1. F[i] = FirstOf(A, Upto(i))
    BY <1>6, Zenon
  <2>2. CASE i = 0
    <3>1. Upto(i) = 0
      BY <2>2
    <3>2. FirstOf(A, 0) = <<>>
      BY DEF FirstOf
    <3> QED BY <2>1, <2>2, <3>1, <3>2, Zenon
  <2>3. CASE i # 0
    <3>1. PICK a \in Nat : a = (i - 1) * l
      BY <1>2, <2>3
    <3>2. a < n
      BY <1>2, <2>3, <3>1
    <3>3. PICK b \in Nat : b = PageSize(n, l, i)
      BY <1>2, <3>1, <3>2 DEF PageSize
    <3>4. Upto(i) = a + b
      BY <1>2, <2>3, <3>1, <3>2, <3>3 DEF PageSize
    <3>5. i \in 1..k /\ i - 1 \in 0..k /\ Upto(i - 1) = a
      BY <1>2, <2>3, <3>1, <3>2
    <3>6. pages[i] = NextOf(A, a, b)
      BY <1>4, <3>1, <3>3, <3>5, Zenon DEF NextOf
    <3>7. F[i - 1] = FirstOf(A, a)
      BY <3>5, Zenon
    <3>8. FirstOf(A, a) \o NextOf(A, a, b) = FirstOf(A, a + b)
      BY Joined, Zenon
    <3> QED BY <2>1, <2>3, <3>4, <3>6, <3>7, <3>8, Zenon
  <2> QED BY <2>2, <2>3, Zenon
<1>7. Concats(F, pages, k)
  <2>1. F = [i \in 0..k |-> F[i]]
    BY Zenon
  <2> HIDE DEF F
  <2> QED BY <1>6, <2>1, Zenon DEF Concats
<1>8. k \in 0..k /\ Upto(k) = n
  BY <1>2
<1>9. F[k] = [m \in 1..n |-> A[m]]
  BY <1>8, Zenon DEF FirstOf
<1> HIDE DEF F
<1>10. Shop!Concat(pages) = F[k]
  BY <1>2, <1>5, <1>7, ConcatIs, Zenon
<1> QED BY <1>3, <1>9, <1>10, Zenon

LEMMA MinOfTwo ==
    ASSUME NEW a \in Int, NEW b \in Int
    PROVE  Shop!Min({a, b}) = IF a <= b THEN a ELSE b
<1>1. \E x \in {a, b} : \A y \in {a, b} : x <= y
  OBVIOUS
<1>2. Shop!Min({a, b}) \in {a, b} /\ \A y \in {a, b} : Shop!Min({a, b}) <= y
  BY <1>1, Zenon DEF Shop!Min
<1> QED BY <1>2

\* A listing after parsing, and the listing of one of its pages.
IsListing(q) ==
    q \in [page : {q.page}, limit : {q.limit}, category : {q.category}, sort : {q.sort},
           minPrice : {q.minPrice}, maxPrice : {q.maxPrice}]
Numbered(q, i) == [q EXCEPT !.page = i]

LEMMA ParsedIs ==
    ASSUME NEW raw \in Listings, NEW q, q = Shop!ParseListParams(raw), q # None
    PROVE  IsListing(q) /\ q.limit \in Nat \ {0}
<1>1. /\ raw = [page |-> raw.page, limit |-> raw.limit, category |-> raw.category, sort |-> raw.sort,
                minPrice |-> raw.minPrice, maxPrice |-> raw.maxPrice]
      /\ raw.limit \in Int \union {None} /\ DefaultLimit \in Nat \ {0} /\ MaxLimit \in Nat \ {0}
  BY ShopConstants, Zenon
<1>2. PICK page : page = IF raw.page = None THEN 1 ELSE raw.page
  OBVIOUS
<1>3. PICK limit : limit = IF raw.limit = None THEN DefaultLimit
                           ELSE IF raw.limit > MaxLimit THEN MaxLimit ELSE raw.limit
  OBVIOUS
<1>4. raw \in [page : {raw.page, page}, limit : {raw.limit, limit}, category : {raw.category},
               sort : {raw.sort}, minPrice : {raw.minPrice}, maxPrice : {raw.maxPrice}]
  BY <1>1
<1>5. q = [raw EXCEPT !.page = page, !.limit = limit] /\ (raw.limit # None => ~(raw.limit < 1))
  BY <1>2, <1>3, <1>4 DEF Shop!ParseListParams
<1>6. IsListing(q) /\ q.limit = limit
  BY <1>4, <1>5, Zenon DEF IsListing
<1>7. limit \in Nat \ {0}
  BY <1>1, <1>3, <1>5
<1> QED BY <1>6, <1>7, Zenon

LEMMA NumberedIs ==
    ASSUME NEW q, IsListing(q), NEW i, NEW r, r = Numbered(q, i)
    PROVE  /\ r.page = i /\ r.limit = q.limit /\ r.sort = q.sort /\ r.category = q.category
           /\ r.minPrice = q.minPrice /\ r.maxPrice = q.maxPrice
<1>1. q \in [page : {q.page, i}, limit : {q.limit}, category : {q.category}, sort : {q.sort},
             minPrice : {q.minPrice}, maxPrice : {q.maxPrice}]
  BY DEF IsListing
<1> QED BY <1>1 DEF Numbered

\* int32 holds every offset that a page of the listing has.
LEMMA OffsetExact ==
    ASSUME NEW r, NEW i \in Nat \ {0}, NEW l \in Nat \ {0}, r.page = i, r.limit = l,
           NEW n \in Nat, n <= Half, (i - 1) * l < n
    PROVE  Shop!pageOffset(r) = (i - 1) * l
<1>1. PICK a \in Nat : a = (i - 1) * l
  OBVIOUS
<1>2. Half \in Nat \ {0} /\ a < Half
  BY <1>1, ShopConstants
<1>3. ((a + Half) % (2 * Half)) - Half = a
  BY <1>2
<1>4. Shop!Int32(a) = a
  BY <1>3, Zenon DEF Shop!Int32
<1> QED BY <1>1, <1>4 DEF Shop!pageOffset

ItemsOf(q) == [m \in 1..Count(q) |-> Shop!Item(Shop!RowAt(q, m))]

LEMMA PageIs ==
    ASSUME NEW q, IsListing(q), NEW n, n = Count(q), NEW l \in Nat \ {0}, l = q.limit,
           NEW i \in Nat \ {0}, (i - 1) * l < n
    PROVE  Shop!PageOf(Numbered(q, i)) = PageAt(ItemsOf(q), n, l, i)
<1>1. PICK r : r = Numbered(q, i)
  OBVIOUS
<1>2. /\ r.page = i /\ r.limit = l /\ r.sort = q.sort /\ r.category = q.category
      /\ r.minPrice = q.minPrice /\ r.maxPrice = q.maxPrice
  BY <1>1, NumberedIs
<1>3. Shop!Matches(r) = Shop!Matches(q)
  BY <1>2, Zenon DEF Shop!Matches
<1>4. Shop!CountProductsPublic(r) = n /\ \A m : Shop!RowAt(r, m) = Shop!RowAt(q, m)
  BY <1>2, <1>3, ShopCounts, Zenon DEF Shop!CountProductsPublic, Shop!RowAt, Count
<1>5. n \in Nat /\ n <= Half
  BY MatchesFinite, Zenon
<1>6. PICK a \in Nat : a = (i - 1) * l /\ a < n
  OBVIOUS
<1>7. Shop!pageOffset(r) = a
  BY <1>2, <1>5, <1>6, OffsetExact
<1>8. PICK b \in Nat : b = PageSize(n, l, i) /\ a + b <= n
  BY <1>5, <1>6 DEF PageSize
<1>9. Shop!Min({l, n - a}) = b
  <2>1. l \in Int /\ n - a \in Int
    BY <1>5
  <2>2. Shop!Min({l, n - a}) = IF l <= n - a THEN l ELSE n - a
    BY <2>1, MinOfTwo
  <2> QED BY <1>6, <1>8, <2>2, Zenon DEF PageSize
<1>10. \A j \in 1..b : ItemsOf(q)[a + j] = Shop!Item(Shop!RowAt(q, a + j))
  <2>1. \A j \in 1..b : a + j \in 1..Count(q)
    BY <1>5, <1>8
  <2> QED BY <2>1, Zenon DEF ItemsOf
<1>11. Shop!PageOf(r) = [j \in 1..b |-> Shop!Item(Shop!RowAt(q, a + j))]
  BY <1>2, <1>4, <1>7, <1>9, Zenon DEF Shop!PageOf, Shop!ListProductsPublic
<1>12. Shop!PageOf(r) = [j \in 1..b |-> ItemsOf(q)[a + j]]
  BY <1>10, <1>11, Zenon
<1> QED BY <1>1, <1>6, <1>8, <1>12, Zenon DEF PageAt

\* The items are the matching products in order.
LEMMA ItemsAre ==
    ASSUME NEW q, NEW n, n = Count(q)
    PROVE  /\ Len(ItemsOf(q)) = n
           /\ Shop!Range(ItemsOf(q)) = {Shop!Item(p) : p \in Shop!Matches(q)}
           /\ \A i \in 1..(n - 1) : Shop!Before(q.sort, ItemsOf(q)[i].slug, ItemsOf(q)[i + 1].slug)
<1>1. n \in Nat
  BY MatchesFinite, Zenon
<1>2. DOMAIN ItemsOf(q) = 1..n /\ \A m \in 1..n : ItemsOf(q)[m] = Shop!Item(Shop!RowAt(q, m))
  BY Zenon DEF ItemsOf
<1>3. Len(ItemsOf(q)) = n
  BY <1>1 DEF ItemsOf
<1>4. Shop!Range(ItemsOf(q)) = {Shop!Item(p) : p \in Shop!Matches(q)}
  <2>1. ASSUME NEW x \in Shop!Range(ItemsOf(q)) PROVE x \in {Shop!Item(p) : p \in Shop!Matches(q)}
    <3>1. PICK m \in 1..n : x = Shop!Item(Shop!RowAt(q, m))
      BY <1>2, Zenon DEF Shop!Range
    <3> QED BY <3>1, RowAtIs, Zenon
  <2>2. ASSUME NEW x \in {Shop!Item(p) : p \in Shop!Matches(q)} PROVE x \in Shop!Range(ItemsOf(q))
    <3>1. PICK p \in Shop!Matches(q) : x = Shop!Item(p)
      BY Zenon
    <3>2. PICK m \in 1..n : Shop!RowAt(q, m) = p
      BY RowsAll, Zenon
    <3> QED BY <1>2, <3>1, <3>2, Zenon DEF Shop!Range
  <2> QED BY <2>1, <2>2, Zenon
<1>5. ASSUME NEW i \in 1..(n - 1)
      PROVE  Shop!Before(q.sort, ItemsOf(q)[i].slug, ItemsOf(q)[i + 1].slug)
  <2>1. i \in 1..n /\ i + 1 \in 1..n
    BY <1>1
  <2>2. ItemsOf(q)[i].slug = Shop!RowAt(q, i) /\ ItemsOf(q)[i + 1].slug = Shop!RowAt(q, i + 1)
    <3>1. \A p : Shop!Item(p).slug = p
      BY DEF Shop!Item
    <3> QED BY <1>2, <2>1, <3>1, Zenon
  <2> QED BY <2>2, RowsSorted, Zenon
<1> QED BY <1>3, <1>4, <1>5, Zenon

----------------------------------------------------------------------------
(* Favourites.                                                             *)

\* A toggle that has made its check knows its shopper and its tenant.
FansOK ==
    /\ fav = [h \in FavHandlers |-> fav[h]] /\ told = [u \in Shoppers |-> told[u]]
    /\ favs = [u \in Shoppers |-> favs[u]]
    /\ \A u \in Shoppers : told[u] = [t \in Tenants |-> told[u][t]]
    /\ \A h \in FavHandlers : fav[h].at = "write" => fav[h].user \in Shoppers /\ fav[h].tenant \in Tenants

FansInv == FansOK /\ LastAnswerHolds

LEMMA FansInit == Fans!Init => FansInv
<1> SUFFICES ASSUME Fans!Init PROVE FansInv
  OBVIOUS
<1>1. FansOK
  BY Zenon DEF Fans!Init, FansOK, Fans!Resting
<1>2. LastAnswerHolds
  BY DEF Fans!Init, LastAnswerHolds, Fans!LastAnswerHolds
<1> QED BY <1>1, <1>2, Zenon DEF FansInv

\* The first statement only remembers what it found.
LEMMA FansStart == ASSUME FansInv, NEW h \in FavHandlers, Fans!Start(h) PROVE FansInv'
<1>1. PICK u \in Shoppers, t \in Tenants : Fans!Toggle(h, u, t)
  BY Zenon DEF Fans!Start
<1>2. PICK exists : fav' = [fav EXCEPT ![h] = [at |-> "write", user |-> u, tenant |-> t, exists |-> exists]]
  BY <1>1, Zenon DEF Fans!Toggle
<1>3. favs' = favs /\ told' = told
  BY <1>1, Zenon DEF Fans!Toggle
<1>4. FansOK'
  BY <1>2, <1>3, Zenon DEF FansInv, FansOK
<1> QED BY <1>3, <1>4, Zenon DEF FansInv, LastAnswerHolds, Fans!LastAnswerHolds

LEMMA FansReview == ASSUME FansInv, Fans!Review PROVE FansInv'
<1>1. favs' = favs /\ told' = told /\ fav' = fav
  BY Zenon DEF Fans!Review, Fans!Create
<1> QED BY <1>1, Zenon DEF FansInv, FansOK, LastAnswerHolds, Fans!LastAnswerHolds

\* The row of the shopper after the second statement, with or without its
\* effect: it stays, or it is the one the toggle wrote or took.
LEMMA FansStatement ==
    ASSUME FansInv, NEW h \in FavHandlers, fav[h].at = "write",
           Fans!ToggleStatement(h) \/ UNCHANGED favs
    PROVE  /\ favs' = [u \in Shoppers |-> favs'[u]]
           /\ \A u \in Shoppers : u # fav[h].user => favs'[u] = favs[u]
           /\ LET u == fav[h].user IN
              \/ favs'[u] = favs[u]
              \/ favs[u] = fav[h].tenant /\ favs'[u] = NoTenant
              \/ favs[u] = NoTenant /\ favs'[u] = fav[h].tenant
  BY Zenon DEF FansInv, FansOK, Fans!ToggleStatement, Fans!RemoveFavorite, Fans!AddFavorite

LEMMA FansStep == ASSUME FansInv, NEW h \in FavHandlers, Fans!Step(h) PROVE FansInv'
<1> DEFINE u == fav[h].user
           t == fav[h].tenant
<1>0. fav[h].at = "write" /\ u \in Shoppers /\ t \in Tenants
  BY Zenon DEF Fans!Step, Fans!ToggleWrite, Fans!ToggleFails, FansInv, FansOK
<1>1. PICK answer : /\ Fans!Answered(h, answer)
                    /\ answer = "yes" => favs'[u] = t
                    /\ answer = "no" => favs'[u] # t
  <2>1. CASE Fans!ToggleFails(h)
    BY <2>1 DEF Fans!ToggleFails
  <2>2. CASE Fans!ToggleWrite(h) /\ fav[h].exists
    <3>1. favs' = [favs EXCEPT ![u] = IF favs[u] = t THEN NoTenant ELSE favs[u]]
      BY <2>2, Zenon DEF Fans!ToggleWrite, Fans!ToggleStatement, Fans!RemoveFavorite
    <3>2. favs'[u] # t
      BY <1>0, <3>1, FansConstants, Zenon DEF FansInv, FansOK
    <3>3. Fans!Answered(h, "no")
      BY <2>2, Zenon DEF Fans!ToggleWrite
    <3> QED BY <3>2, <3>3
  <2>3. CASE Fans!ToggleWrite(h) /\ ~fav[h].exists
    <3>1. favs' = [favs EXCEPT ![u] = IF favs[u] = NoTenant THEN t ELSE favs[u]]
      BY <2>3, Zenon DEF Fans!ToggleWrite, Fans!ToggleStatement, Fans!AddFavorite
    <3>2. favs[u] \in {NoTenant, t} => favs'[u] = t
      BY <1>0, <3>1, FansConstants, Zenon DEF FansInv, FansOK
    <3>3. Fans!Answered(h, IF favs[u] \in {NoTenant, t} THEN "yes" ELSE "nothing")
      BY <2>3, Zenon DEF Fans!ToggleWrite
    <3> QED BY <3>2, <3>3
  <2> QED BY <2>1, <2>2, <2>3, Zenon DEF Fans!Step
<1>2. /\ told' = [v \in Shoppers |-> told'[v]]
      /\ \A v \in Shoppers : told'[v] = [s \in Tenants |-> told'[v][s]]
      /\ \A v \in Shoppers, s \in Tenants : v # u \/ s # t => told'[v][s] = told[v][s]
      /\ told'[u][t] = answer
  BY <1>0, <1>1, Zenon DEF Fans!Answered, FansInv, FansOK
<1>3. Fans!ToggleStatement(h) \/ UNCHANGED favs
  BY Zenon DEF Fans!Step, Fans!ToggleWrite, Fans!ToggleFails
<1>4. /\ favs' = [v \in Shoppers |-> favs'[v]]
      /\ \A v \in Shoppers : v # u => favs'[v] = favs[v]
      /\ \/ favs'[u] = favs[u]
         \/ favs[u] = t /\ favs'[u] = NoTenant
         \/ favs[u] = NoTenant /\ favs'[u] = t
  BY <1>0, <1>3, FansStatement, Zenon
<1>5. FansOK'
  BY <1>1, <1>2, <1>4, Zenon DEF Fans!Answered, FansInv, FansOK, Fans!Resting
<1>6. ASSUME NEW v \in Shoppers, NEW s \in Tenants
      PROVE  (told'[v][s] = "yes" => favs'[v] = s) /\ (told'[v][s] = "no" => favs'[v] # s)
  <2>1. (told[v][s] = "yes" => favs[v] = s) /\ (told[v][s] = "no" => favs[v] # s)
    BY <1>6, Zenon DEF FansInv, LastAnswerHolds, Fans!LastAnswerHolds
  <2>2. CASE v # u
    BY <1>2, <1>4, <1>6, <2>1, <2>2, Zenon
  <2>3. CASE v = u /\ s # t
    BY <1>2, <1>4, <1>6, <2>1, <2>3, FansConstants, Zenon
  <2>4. CASE v = u /\ s = t
    BY <1>1, <1>2, <2>4, Zenon
  <2> QED BY <2>2, <2>3, <2>4, Zenon
<1> QED BY <1>5, <1>6, Zenon DEF FansInv, LastAnswerHolds, Fans!LastAnswerHolds

----------------------------------------------------------------------------
(* Addresses.                                                              *)

Rows == {"none", "plain", "default"}
AddrReq ==
    [at : {"idle", "unset", "unsetting", "write", "index", "commit", "delete"},
     a : Addrs \union {CHOOSE a \in Addrs : TRUE}, new : BOOLEAN, def : BOOLEAN,
     unset : SUBSET Addrs, w : [Addrs -> {"same", "plain", "default"}]]

\* What a transaction has written at each place of Create, Update and Delete.
TxOK(r) ==
    /\ r.at # "idle" => r.a \in Addrs
    /\ r.at \in {"unset", "unsetting"} => r.def
    /\ r.at = "delete" => ~r.def
    /\ r.at \in {"idle", "unset", "delete"} => \A b \in Addrs : r.w[b] = "same"
    /\ ~r.def => \A b \in Addrs : b # r.a => r.w[b] = "same"
    /\ r.at \in {"index", "commit"} /\ r.def => r.w[r.a] = "default"
    /\ \A b \in Addrs : r.w[b] = "default" => b = r.a /\ r.def /\ r.at \in {"index", "commit"}

\* Past the unique index with a new default.
Promoting(r) == r.at = "commit" /\ r.def

\* The row locks.
LocksHold ==
    \A g, h \in AddrHandlers : g # h =>
        \A b \in Addrs : req[g].w[b] = "same" \/ req[h].w[b] = "same"

\* The unique index: once past it a transaction sees no other default, and it
\* is the only one past it.
IndexHolds ==
    /\ \A h \in AddrHandlers : Promoting(req[h]) =>
           \A b \in Addrs : b # req[h].a => Book!Seen(h, b) # "default"
    /\ \A g, h \in AddrHandlers : Promoting(req[g]) /\ Promoting(req[h]) => g = h

OneDefault == \A a, b \in Addrs : addr[a] = "default" /\ addr[b] = "default" => a = b

BookInv ==
    /\ addr \in [Addrs -> Rows] /\ req \in [AddrHandlers -> AddrReq]
    /\ \A h \in AddrHandlers : TxOK(req[h])
    /\ LocksHold /\ IndexHolds /\ OneDefault

LEMMA IdleOK == Book!Idle \in AddrReq /\ TxOK(Book!Idle) /\ ~Promoting(Book!Idle) /\ Book!Idle.at = "idle"
               /\ \A b \in Addrs : Book!Idle.w[b] = "same"
  BY Zenon DEF Book!Idle, AddrReq, TxOK, Promoting

LEMMA BookInit == Book!Init => BookInv
<1> SUFFICES ASSUME Book!Init PROVE BookInv
  OBVIOUS
<1>1. /\ addr \in [Addrs -> Rows] /\ OneDefault
  BY BookConstants, Zenon DEF Book!Init, Rows, OneDefault
<1>2. req \in [AddrHandlers -> AddrReq] /\ \A h \in AddrHandlers : req[h] = Book!Idle
  BY IdleOK, Zenon DEF Book!Init
<1>3. LocksHold /\ IndexHolds
  BY <1>2, IdleOK, Zenon DEF LocksHold, IndexHolds
<1> QED BY <1>1, <1>2, <1>3, IdleOK, Zenon DEF BookInv

LEMMA BookSame == ASSUME BookInv, addr' = addr, req' = req PROVE BookInv'
<1>1. LocksHold' /\ OneDefault'
  BY Zenon DEF BookInv, LocksHold, OneDefault
<1>2. IndexHolds'
  BY Zenon DEF BookInv, IndexHolds, Book!Seen
<1> QED BY <1>1, <1>2, Zenon DEF BookInv

\* A step of connection h that commits nothing: what it now holds was free, and
\* a new default past the index sees no other.
LEMMA BookGoes ==
    ASSUME BookInv, NEW h \in AddrHandlers, NEW r \in AddrReq, Book!Go(h, r), addr' = addr, TxOK(r),
           \A b \in Addrs, g \in AddrHandlers : g # h /\ r.w[b] # "same" => req[g].w[b] = "same",
           Promoting(r) =>
               /\ \A b \in Addrs : b # r.a => (IF r.w[b] = "same" THEN addr[b] ELSE r.w[b]) # "default"
               /\ \A g \in AddrHandlers : g # h => ~Promoting(req[g])
    PROVE  BookInv'
<1>1. /\ req' \in [AddrHandlers -> AddrReq] /\ req'[h] = r
      /\ \A g \in AddrHandlers : g # h => req'[g] = req[g]
  BY Zenon DEF BookInv, Book!Go
<1>2. \A g \in AddrHandlers : TxOK(req'[g])
  BY <1>1, Zenon DEF BookInv
<1>3. LocksHold'
  <2> SUFFICES ASSUME NEW f \in AddrHandlers, NEW g \in AddrHandlers, f # g, NEW b \in Addrs
               PROVE  req'[f].w[b] = "same" \/ req'[g].w[b] = "same"
    BY Zenon DEF LocksHold
  <2>1. CASE f = h
    BY <1>1, <2>1, Zenon
  <2>2. CASE g = h
    BY <1>1, <2>2, Zenon
  <2>3. CASE f # h /\ g # h
    <3>1. req[f].w[b] = "same" \/ req[g].w[b] = "same"
      BY Zenon DEF BookInv, LocksHold
    <3> QED BY <1>1, <2>3, <3>1, Zenon
  <2> QED BY <2>1, <2>2, <2>3, Zenon
<1>4. IndexHolds'
  <2>1. ASSUME NEW g \in AddrHandlers, Promoting(req'[g]), NEW b \in Addrs, b # req'[g].a
        PROVE  (IF req'[g].w[b] = "same" THEN addr'[b] ELSE req'[g].w[b]) # "default"
    <3>1. CASE g = h
      BY <1>1, <2>1, <3>1, Zenon
    <3>2. CASE g # h
      BY <1>1, <2>1, <3>2, Zenon DEF BookInv, IndexHolds, Book!Seen
    <3> QED BY <3>1, <3>2, Zenon
  <2>2. ASSUME NEW f \in AddrHandlers, NEW g \in AddrHandlers, Promoting(req'[f]), Promoting(req'[g])
        PROVE  f = g
    <3>1. CASE f # h /\ g # h
      BY <1>1, <2>2, <3>1, Zenon DEF BookInv, IndexHolds
    <3>2. CASE f = h /\ g # h
      BY <1>1, <2>2, <3>2, Zenon
    <3>3. CASE f # h /\ g = h
      BY <1>1, <2>2, <3>3, Zenon
    <3> QED BY <3>1, <3>2, <3>3, Zenon
  <2> QED BY <2>1, <2>2, Zenon DEF IndexHolds, Book!Seen
<1>5. OneDefault' /\ addr' \in [Addrs -> Rows]
  BY Zenon DEF BookInv, OneDefault
<1> QED BY <1>1, <1>2, <1>3, <1>4, <1>5, Zenon DEF BookInv

\* A connection that takes no lock and passes no index.
LEMMA BookMoves ==
    ASSUME BookInv, NEW h \in AddrHandlers, NEW r \in AddrReq, Book!Go(h, r), addr' = addr, TxOK(r),
           \A b \in Addrs : r.w[b] = "same" \/ r.w[b] = req[h].w[b], ~Promoting(r)
    PROVE  BookInv'
<1>1. \A b \in Addrs, g \in AddrHandlers : g # h /\ r.w[b] # "same" => req[g].w[b] = "same"
  BY Zenon DEF BookInv, LocksHold
<1> QED BY <1>1, BookGoes, Zenon

LEMMA BookEnds ==
    ASSUME BookInv, NEW h \in AddrHandlers, Book!End(h), addr' = addr
    PROVE  BookInv'
  BY IdleOK, BookMoves, Zenon DEF Book!End

LEMMA BookStart == ASSUME BookInv, NEW h \in AddrHandlers, Book!Start(h) PROVE BookInv' /\ addr' = addr
<1>0. PICK a \in Addrs : Book!Delete(h, a) \/ \E def \in BOOLEAN : Book!Create(h, a, def) \/ Book!Update(h, a, def)
  BY Zenon DEF Book!Start
<1>1. addr' = addr
  BY <1>0, Zenon DEF Book!Delete, Book!Create, Book!Update
<1> DEFINE Begun(r) == /\ r \in AddrReq /\ TxOK(r) /\ ~Promoting(r)
                       /\ \A b \in Addrs : r.w[b] = "same"
<1>2. PICK r : Begun(r) /\ (Book!Go(h, r) \/ req' = req)
  <2>1. CASE Book!Delete(h, a)
    <3> DEFINE r == [Book!Idle EXCEPT !.at = "delete", !.a = a]
    <3>1. Begun(r)
      BY Zenon DEF Book!Idle, AddrReq, TxOK, Promoting
    <3> QED BY <2>1, <3>1, Zenon DEF Book!Delete
  <2>2. ASSUME NEW def \in BOOLEAN, Book!Create(h, a, def) PROVE \E r : Begun(r) /\ Book!Go(h, r)
    <3> DEFINE r == [Book!Idle EXCEPT !.at = IF def THEN "unset" ELSE "write",
                                      !.a = a, !.new = TRUE, !.def = def]
    <3>1. Begun(r)
      BY <2>2, Zenon DEF Book!Idle, AddrReq, TxOK, Promoting
    <3> QED BY <2>2, <3>1, Zenon DEF Book!Create
  <2>3. ASSUME NEW def \in BOOLEAN, Book!Update(h, a, def)
        PROVE  \E r : Begun(r) /\ (Book!Go(h, r) \/ req' = req)
    <3> DEFINE r == [Book!Idle EXCEPT !.at = IF def THEN "unset" ELSE "write", !.a = a, !.def = def]
    <3>1. Begun(r)
      BY <2>3, Zenon DEF Book!Idle, AddrReq, TxOK, Promoting
    <3> QED BY <2>3, <3>1, Zenon DEF Book!Update
  <2> HIDE DEF Begun
  <2> QED BY <1>0, <2>1, <2>2, <2>3, Zenon
<1>3. CASE req' = req
  BY <1>1, <1>3, BookSame, Zenon
<1> QED BY <1>1, <1>2, <1>3, BookMoves, Zenon

LEMMA BookUnset == ASSUME BookInv, NEW h \in AddrHandlers, Book!Unset(h) PROVE BookInv' /\ addr' = addr
<1>0. req[h] \in AddrReq /\ TxOK(req[h]) /\ req[h].at = "unset" /\ addr' = addr
  BY Zenon DEF BookInv, Book!Unset
<1>1. PICK s \in SUBSET Addrs : Book!Go(h, [req[h] EXCEPT !.at = "unsetting", !.unset = s])
  BY Zenon DEF Book!Unset, Book!UnsetDefaultAddresses
<1> DEFINE r == [req[h] EXCEPT !.at = "unsetting", !.unset = s]
<1>2. r \in AddrReq /\ r.at = "unsetting" /\ r.a = req[h].a /\ r.def = req[h].def /\ r.w = req[h].w
  BY <1>0, Zenon DEF AddrReq
<1> HIDE DEF r
<1>3. TxOK(r) /\ ~Promoting(r)
  BY <1>0, <1>2, Zenon DEF TxOK, Promoting
<1> QED BY <1>0, <1>1, <1>2, <1>3, BookMoves, Zenon DEF r

\* A statement that found the row free takes its lock.
LEMMA LockTaken ==
    ASSUME BookInv, NEW h \in AddrHandlers, NEW a \in Addrs, ~Book!Locked(h, a), NEW w,
           \A b \in Addrs : b # a => w[b] = req[h].w[b]
    PROVE  \A b \in Addrs, g \in AddrHandlers : g # h /\ w[b] # "same" => req[g].w[b] = "same"
<1> SUFFICES ASSUME NEW b \in Addrs, NEW g \in AddrHandlers, g # h, w[b] # "same"
             PROVE  req[g].w[b] = "same"
  BY Zenon
<1>1. CASE b = a
  BY <1>1, Zenon DEF Book!Locked
<1>2. CASE b # a
  BY <1>2, Zenon DEF BookInv, LocksHold
<1> QED BY <1>1, <1>2, Zenon

LEMMA BookUnsetting == ASSUME BookInv, NEW h \in AddrHandlers, Book!Unsetting(h) PROVE BookInv' /\ addr' = addr
<1>0. req[h] \in AddrReq /\ TxOK(req[h]) /\ req[h].at = "unsetting" /\ addr' = addr
  BY Zenon DEF BookInv, Book!Unsetting
<1>1. CASE req[h].unset = {}
  <2> DEFINE r == [req[h] EXCEPT !.at = "write"]
  <2>1. Book!Go(h, r)
    BY <1>1, Zenon DEF Book!Unsetting
  <2>2. r \in AddrReq /\ r.at = "write" /\ r.a = req[h].a /\ r.def = req[h].def /\ r.w = req[h].w
    BY <1>0, Zenon DEF AddrReq
  <2> HIDE DEF r
  <2>3. TxOK(r) /\ ~Promoting(r)
    BY <1>0, <2>2, Zenon DEF TxOK, Promoting
  <2> QED BY <1>0, <2>1, <2>2, <2>3, BookMoves, Zenon
<1>2. CASE req[h].unset # {}
  <2>1. PICK a \in Addrs : Book!UnsetRow(h, a)
    BY <1>0, <1>2, Zenon DEF Book!Unsetting, AddrReq
  <2> DEFINE w == IF addr[a] = "default" THEN Book!Holding(h, a, "plain") ELSE req[h].w
             r == [req[h] EXCEPT !.unset = req[h].unset \ {a}, !.w = w]
  <2>2. Book!Go(h, r) /\ ~Book!Locked(h, a)
    BY <2>1, Zenon DEF Book!UnsetRow
  <2>3. /\ w \in [Addrs -> {"same", "plain", "default"}]
        /\ \A b \in Addrs : b # a => w[b] = req[h].w[b]
        /\ w[a] = "plain" \/ w[a] = req[h].w[a]
    BY <1>0, Zenon DEF Book!Holding, AddrReq
  <2> HIDE DEF w
  <2>4. r \in AddrReq /\ r.at = "unsetting" /\ r.a = req[h].a /\ r.def = req[h].def /\ r.w = w
    BY <1>0, <2>3, Zenon DEF AddrReq
  <2> HIDE DEF r
  <2>5. TxOK(r) /\ ~Promoting(r)
    BY <1>0, <2>3, <2>4, Zenon DEF TxOK, Promoting
  <2>6. \A b \in Addrs, g \in AddrHandlers : g # h /\ r.w[b] # "same" => req[g].w[b] = "same"
    <3>1. \A b \in Addrs, g \in AddrHandlers : g # h /\ w[b] # "same" => req[g].w[b] = "same"
      BY <2>2, <2>3, LockTaken
    <3> QED BY <2>4, <3>1, Zenon
  <2> QED BY <1>0, <2>2, <2>4, <2>5, <2>6, BookGoes, Zenon
<1> QED BY <1>1, <1>2, Zenon

LEMMA BookWrite == ASSUME BookInv, NEW h \in AddrHandlers, Book!Write(h) PROVE BookInv' /\ addr' = addr
<1>0. req[h] \in AddrReq /\ TxOK(req[h]) /\ req[h].at = "write" /\ addr' = addr /\ req[h].a \in Addrs
  BY Zenon DEF BookInv, Book!Write, TxOK
<1>1. CASE Book!End(h)
  BY <1>0, <1>1, BookEnds, Zenon
<1>2. CASE ~Book!End(h)
  <2> DEFINE w == [req[h].w EXCEPT ![req[h].a] = IF req[h].def THEN "default" ELSE "plain"]
             r == [req[h] EXCEPT !.at = IF req[h].def THEN "index" ELSE "commit", !.w = w]
  <2>1. Book!Go(h, r) /\ ~Book!Locked(h, req[h].a)
    BY <1>2, Zenon DEF Book!Write, Book!CreateAddress, Book!UpdateAddress, Book!Holding
  <2>2. /\ w \in [Addrs -> {"same", "plain", "default"}]
        /\ \A b \in Addrs : b # req[h].a => w[b] = req[h].w[b]
        /\ w[req[h].a] = IF req[h].def THEN "default" ELSE "plain"
    BY <1>0, Zenon DEF AddrReq
  <2> HIDE DEF w
  <2>3. /\ r \in AddrReq /\ r.at = IF req[h].def THEN "index" ELSE "commit"
        /\ r.a = req[h].a /\ r.def = req[h].def /\ r.w = w
    BY <1>0, <2>2, Zenon DEF AddrReq
  <2> HIDE DEF r
  <2>4. TxOK(r) /\ ~Promoting(r)
    BY <1>0, <2>2, <2>3 DEF TxOK, Promoting
  <2>5. \A b \in Addrs, g \in AddrHandlers : g # h /\ r.w[b] # "same" => req[g].w[b] = "same"
    <3>1. \A b \in Addrs, g \in AddrHandlers : g # h /\ w[b] # "same" => req[g].w[b] = "same"
      BY <1>0, <2>1, <2>2, LockTaken
    <3> QED BY <2>3, <3>1, Zenon
  <2> QED BY <1>0, <2>1, <2>3, <2>4, <2>5, BookGoes, Zenon
<1> QED BY <1>1, <1>2, Zenon

\* The index lets a transaction pass that sees no other default, when no other
\* transaction holds one: of two new defaults each holds one against the other.
LEMMA BookIndex == ASSUME BookInv, NEW h \in AddrHandlers, Book!Index(h) PROVE BookInv' /\ addr' = addr
<1>0. req[h] \in AddrReq /\ TxOK(req[h]) /\ req[h].at = "index" /\ addr' = addr /\ req[h].a \in Addrs
  BY Zenon DEF BookInv, Book!Index, TxOK
<1>1. CASE Book!Refused(h)
  BY <1>0, <1>1, BookEnds, Zenon DEF Book!Index
<1>2. CASE ~Book!Refused(h)
  <2> DEFINE r == [req[h] EXCEPT !.at = "commit"]
  <2>1. Book!Go(h, r) /\ ~Book!Contested(h)
    BY <1>2, Zenon DEF Book!Index
  <2>2. r \in AddrReq /\ r.at = "commit" /\ r.a = req[h].a /\ r.def = req[h].def /\ r.w = req[h].w
    BY <1>0, Zenon DEF AddrReq
  <2> HIDE DEF r
  <2>3. TxOK(r)
    BY <1>0, <2>2, Zenon DEF TxOK
  <2>4. \A b \in Addrs, g \in AddrHandlers : g # h /\ r.w[b] # "same" => req[g].w[b] = "same"
    BY <2>2, Zenon DEF BookInv, LocksHold
  <2>5. \A b \in Addrs : b # r.a => (IF r.w[b] = "same" THEN addr[b] ELSE r.w[b]) # "default"
    BY <1>2, <2>2, Zenon DEF Book!Refused, Book!Seen
  <2>6. ASSUME Promoting(r), NEW g \in AddrHandlers, g # h, Promoting(req[g]) PROVE FALSE
    <3>1. req[h].w[req[h].a] = "default" /\ req[g].w[req[g].a] = "default" /\ req[g].a \in Addrs
      BY <1>0, <2>2, <2>6, Zenon DEF BookInv, TxOK, Promoting
    <3>2. CASE req[g].a = req[h].a
      BY <1>0, <2>6, <3>1, <3>2, Zenon DEF BookInv, LocksHold
    <3>3. CASE req[g].a # req[h].a
      BY <2>1, <2>6, <3>1, <3>3, Zenon DEF Book!Contested
    <3> QED BY <3>2, <3>3, Zenon
  <2> QED BY <1>0, <2>1, <2>2, <2>3, <2>4, <2>5, <2>6, BookGoes, Zenon
<1> QED BY <1>1, <1>2, Zenon

\* A step of h that ends its request and changes rows it may write: the locks
\* of the others keep what they see, and no default appears behind the index.
LEMMA BookWrites ==
    ASSUME BookInv, NEW h \in AddrHandlers, Book!End(h), addr' \in [Addrs -> Rows], OneDefault',
           \A b \in Addrs : addr'[b] # addr[b] /\ addr'[b] = "default" => Promoting(req[h])
    PROVE  BookInv'
<1>1. /\ req' \in [AddrHandlers -> AddrReq] /\ req'[h] = Book!Idle
      /\ \A g \in AddrHandlers : g # h => req'[g] = req[g]
  BY IdleOK, Zenon DEF BookInv, Book!End, Book!Go
<1>2. \A g \in AddrHandlers : TxOK(req'[g])
  BY <1>1, IdleOK, Zenon DEF BookInv
<1>3. LocksHold'
  <2> SUFFICES ASSUME NEW f \in AddrHandlers, NEW g \in AddrHandlers, f # g, NEW b \in Addrs
               PROVE  req'[f].w[b] = "same" \/ req'[g].w[b] = "same"
    BY Zenon DEF LocksHold
  <2>1. CASE f = h \/ g = h
    BY <1>1, <2>1, IdleOK, Zenon
  <2>2. CASE f # h /\ g # h
    <3>1. req[f].w[b] = "same" \/ req[g].w[b] = "same"
      BY Zenon DEF BookInv, LocksHold
    <3> QED BY <1>1, <2>2, <3>1, Zenon
  <2> QED BY <2>1, <2>2, Zenon
<1>4. IndexHolds'
  <2>1. ASSUME NEW g \in AddrHandlers, Promoting(req'[g]) PROVE g # h /\ req'[g] = req[g] /\ ~Promoting(req[h])
    BY <1>1, <2>1, IdleOK, Zenon DEF BookInv, IndexHolds
  <2>2. ASSUME NEW g \in AddrHandlers, Promoting(req'[g]), NEW b \in Addrs, b # req'[g].a
        PROVE  (IF req'[g].w[b] = "same" THEN addr'[b] ELSE req'[g].w[b]) # "default"
    <3>1. req'[g] = req[g] /\ ~Promoting(req[h])
      BY <2>1, <2>2, Zenon
    <3>2. (IF req[g].w[b] = "same" THEN addr[b] ELSE req[g].w[b]) # "default"
      BY <2>2, <3>1, Zenon DEF BookInv, IndexHolds, Book!Seen
    <3>3. addr'[b] = "default" => addr[b] = "default"
      BY <2>2, <3>1, Zenon
    <3> QED BY <3>1, <3>2, <3>3, Zenon
  <2>3. ASSUME NEW f \in AddrHandlers, NEW g \in AddrHandlers, Promoting(req'[f]), Promoting(req'[g])
        PROVE  f = g
    BY <2>1, <2>3, Zenon DEF BookInv, IndexHolds
  <2> QED BY <2>2, <2>3, Zenon DEF IndexHolds, Book!Seen
<1> QED BY <1>1, <1>2, <1>3, <1>4, Zenon DEF BookInv

\* What leaves the user without a default.
Demotes(h) ==
    /\ req[h].a \in Book!Defaults /\ ~req[h].def
    /\ req[h].at \in {"delete", "commit"} /\ req'[h].at = "idle"

LEMMA BookCommit ==
    ASSUME BookInv, NEW h \in AddrHandlers, Book!Commit(h)
    PROVE  BookInv' /\ (Book!Defaults # {} /\ Book!Defaults' = {} => Demotes(h))
<1>0. /\ req[h] \in AddrReq /\ TxOK(req[h]) /\ req[h].at = "commit" /\ req[h].a \in Addrs
      /\ addr \in [Addrs -> Rows] /\ Book!End(h)
  BY Zenon DEF BookInv, Book!Commit, TxOK
<1>1. addr' = [b \in Addrs |-> IF req[h].w[b] = "same" THEN addr[b] ELSE req[h].w[b]]
  BY Zenon DEF Book!Commit, Book!Seen
<1>2. addr' \in [Addrs -> Rows]
  BY <1>0, <1>1, Zenon DEF AddrReq, Rows
<1>3. req'[h].at = "idle"
  BY <1>0, IdleOK, Zenon DEF BookInv, Book!End, Book!Go
<1>4. CASE req[h].def
  <2>1. Promoting(req[h]) /\ req[h].w[req[h].a] = "default"
    BY <1>0, <1>4, Zenon DEF Promoting, TxOK
  <2>2. \A b \in Addrs : addr'[b] = "default" <=> b = req[h].a
    <3>1. addr'[req[h].a] = "default"
      BY <1>0, <1>1, <2>1
    <3>2. \A b \in Addrs : b # req[h].a => addr'[b] # "default"
      BY <1>1, <2>1, Zenon DEF BookInv, IndexHolds, Book!Seen
    <3> QED BY <3>1, <3>2, Zenon
  <2>3. OneDefault'
    BY <2>2, Zenon DEF OneDefault
  <2>4. Book!Defaults' # {}
    BY <1>0, <2>2, Zenon DEF Book!Defaults
  <2> QED BY <1>0, <1>2, <2>1, <2>3, <2>4, BookWrites, Zenon
<1>5. CASE ~req[h].def
  <2>1. \A b \in Addrs : b # req[h].a => addr'[b] = addr[b]
    BY <1>0, <1>1, <1>5, Zenon DEF TxOK
  <2>2. \A b \in Addrs : addr'[b] = "default" => addr[b] = "default"
    BY <1>0, <1>1, <1>5, Zenon DEF TxOK
  <2>3. OneDefault'
    BY <2>2, Zenon DEF OneDefault, BookInv
  <2>4. Book!Defaults # {} /\ Book!Defaults' = {} => req[h].a \in Book!Defaults
    BY <2>1, Zenon DEF Book!Defaults
  <2>5. BookInv'
    BY <1>0, <1>2, <2>2, <2>3, BookWrites, Zenon
  <2> QED BY <1>0, <1>3, <1>5, <2>4, <2>5, Zenon DEF Demotes
<1> QED BY <1>4, <1>5, Zenon

LEMMA BookDeleteRow ==
    ASSUME BookInv, NEW h \in AddrHandlers, Book!DeleteRow(h)
    PROVE  BookInv' /\ (Book!Defaults # {} /\ Book!Defaults' = {} => Demotes(h))
<1>0. /\ req[h] \in AddrReq /\ TxOK(req[h]) /\ req[h].at = "delete" /\ req[h].a \in Addrs /\ ~req[h].def
      /\ addr \in [Addrs -> Rows] /\ Book!End(h)
  BY Zenon DEF BookInv, Book!DeleteRow, TxOK
<1>1. addr' = [addr EXCEPT ![req[h].a] = "none"]
  BY Zenon DEF Book!DeleteRow, Book!DeleteAddress
<1>2. addr' \in [Addrs -> Rows]
  BY <1>0, <1>1, Zenon DEF Rows
<1>3. req'[h].at = "idle"
  BY <1>0, IdleOK, Zenon DEF BookInv, Book!End, Book!Go
<1>4. /\ \A b \in Addrs : b # req[h].a => addr'[b] = addr[b]
      /\ \A b \in Addrs : addr'[b] = "default" => addr[b] = "default"
  BY <1>0, <1>1, Zenon
<1>5. OneDefault'
  BY <1>4, Zenon DEF OneDefault, BookInv
<1>6. Book!Defaults # {} /\ Book!Defaults' = {} => req[h].a \in Book!Defaults
  BY <1>4, Zenon DEF Book!Defaults
<1>7. BookInv'
  BY <1>0, <1>2, <1>4, <1>5, BookWrites, Zenon
<1> QED BY <1>0, <1>3, <1>6, <1>7, Zenon DEF Demotes

\* The parts count with the operator that the theorems about finite sets use.
LEMMA BookCounts == \A S : Book!Cardinality(S) = Cardinality(S)
  BY Zenon DEF Book!Cardinality, Cardinality

\* A set of addresses that are pairwise equal has one at most.
LEMMA FewDefaults == OneDefault => Cardinality(Book!Defaults) <= 1
<1> SUFFICES ASSUME OneDefault PROVE Cardinality(Book!Defaults) <= 1
  OBVIOUS
<1>1. CASE Book!Defaults = {}
  BY <1>1, FS_EmptySet
<1>2. CASE Book!Defaults # {}
  <2>1. PICK a : a \in Book!Defaults
    BY <1>2, Zenon
  <2>2. \A b \in Book!Defaults : b = a
    BY <2>1, Zenon DEF Book!Defaults, OneDefault
  <2>3. Book!Defaults = {a}
    BY <2>1, <2>2, Zenon
  <2>4. Cardinality(Book!Defaults) = 1
    BY <2>3, FS_Singleton, Zenon
  <2> QED BY <2>4
<1> QED BY <1>1, <1>2, Zenon

\* Every step of the address book.
LEMMA BookSteps ==
    ASSUME BookInv, NEW h \in AddrHandlers, Book!Start(h) \/ Book!Run(h) \/ Book!Fail(h)
    PROVE  BookInv' /\ (Book!Defaults # {} /\ Book!Defaults' = {} => Demotes(h))
<1>1. CASE Book!Commit(h) \/ Book!DeleteRow(h)
  BY <1>1, BookCommit, BookDeleteRow, Zenon
<1>2. CASE ~(Book!Commit(h) \/ Book!DeleteRow(h))
  <2>1. BookInv' /\ addr' = addr
    <3>1. CASE Book!DeadlockVictim(h) \/ Book!Fail(h)
      BY <3>1, BookEnds, Zenon DEF Book!DeadlockVictim, Book!Fail
    <3> QED BY <1>2, <3>1, BookStart, BookUnset, BookUnsetting, BookWrite, BookIndex, Zenon DEF Book!Run
  <2>2. Book!Defaults' = Book!Defaults
    BY <2>1, Zenon DEF Book!Defaults
  <2> QED BY <2>1, <2>2, Zenon
<1> QED BY <1>1, <1>2, Zenon

----------------------------------------------------------------------------
(* Category paths.                                                         *)

Categories == DOMAIN Parents

Linked(p, path) ==
    /\ path # <<>> => path[Len(path)] = Products[p].category
    /\ \A i \in 2..Len(path) : path[i - 1] = Parents[path[i]]

\* The climb has come from the product's category to cat, through the
\* categories of path, each of them once.
Climbing(p, path, cat) ==
    /\ path \in Seq(Categories) /\ cat \in Categories
    /\ Linked(p, path)
    /\ path = <<>> => cat = Products[p].category
    /\ path # <<>> => cat = Parents[path[1]]
    /\ \A i, j \in 1..Len(path) : path[i] = path[j] => i = j

\* What PathIsAncestry says of a path.
Ancestry(p, path) == path # <<>> =>
    /\ Linked(p, path)
    /\ Parents[path[1]] = None \/ \E i \in 2..Len(path) : path[i] = path[1]
    /\ \A i, j \in 2..Len(path) : path[i] = path[j] => i = j

\* One round: the path is complete, or the climb goes on from the parent.
LEMMA ClimbOnce ==
    ASSUME NEW p, NEW path, NEW cat, Climbing(p, path, cat)
    PROVE  LET longer == <<cat>> \o path
           IN  IF cat \in Shop!Range(path) \/ Parents[cat] = None
               THEN Ancestry(p, longer) ELSE Climbing(p, longer, Parents[cat])
<1> DEFINE longer == <<cat>> \o path
<1>1. /\ path \in Seq(Categories) /\ cat \in Categories /\ Len(path) \in Nat /\ DOMAIN path = 1..Len(path)
  BY DEF Climbing
<1>2. /\ longer \in Seq(Categories) /\ Len(longer) = Len(path) + 1 /\ longer # <<>> /\ longer[1] = cat
      /\ \A i \in 2..Len(longer) : longer[i] = path[i - 1] /\ i - 1 \in 1..Len(path)
  BY <1>1
<1>3. path = <<>> <=> Len(path) = 0
  BY <1>1
<1> HIDE DEF longer
<1>4. longer[Len(longer)] = Products[p].category
  <2>1. CASE path = <<>>
    BY <1>2, <1>3, <2>1 DEF Climbing
  <2>2. CASE path # <<>>
    BY <1>1, <1>2, <1>3, <2>2 DEF Climbing, Linked
  <2> QED BY <2>1, <2>2
<1>5. \A i \in 2..Len(longer) : longer[i - 1] = Parents[longer[i]]
  <2> SUFFICES ASSUME NEW i \in 2..Len(longer) PROVE longer[i - 1] = Parents[longer[i]]
    OBVIOUS
  <2>1. CASE i = 2
    BY <1>1, <1>2, <1>3, <2>1 DEF Climbing
  <2>2. CASE i # 2
    <3>1. i - 1 \in 2..Len(path) /\ i - 1 \in 2..Len(longer)
      BY <1>1, <1>2, <2>2
    <3> QED BY <1>2, <3>1 DEF Climbing, Linked
  <2> QED BY <2>1, <2>2
<1>6. Linked(p, longer)
  BY <1>4, <1>5, Zenon DEF Linked
<1>7. \A i, j \in 2..Len(longer) : longer[i] = longer[j] => i = j
  <2> SUFFICES ASSUME NEW i \in 2..Len(longer), NEW j \in 2..Len(longer), longer[i] = longer[j] PROVE i = j
    OBVIOUS
  <2>1. i - 1 \in 1..Len(path) /\ j - 1 \in 1..Len(path) /\ path[i - 1] = path[j - 1]
    BY <1>2, Zenon
  <2>2. i - 1 = j - 1
    BY <2>1, Zenon DEF Climbing
  <2> QED BY <2>2, <1>1, <1>2
<1>8. CASE cat \in Shop!Range(path) \/ Parents[cat] = None
  <2>1. Parents[longer[1]] = None \/ \E i \in 2..Len(longer) : longer[i] = longer[1]
    <3>1. CASE cat \in Shop!Range(path)
      <4>1. PICK i \in 1..Len(path) : path[i] = cat
        BY <1>1, <3>1, Zenon DEF Shop!Range
      <4>2. i + 1 \in 2..Len(longer) /\ longer[i + 1] = cat
        BY <1>1, <1>2, <4>1
      <4> QED BY <1>2, <4>2, Zenon
    <3> QED BY <1>2, <1>8, <3>1, Zenon
  <2>2. Ancestry(p, longer)
    BY <1>6, <1>7, <2>1, Zenon DEF Ancestry
  <2> QED BY <1>8, <2>2, Zenon DEF longer
<1>9. CASE ~(cat \in Shop!Range(path) \/ Parents[cat] = None)
  <2>1. Parents[cat] \in Categories
    BY <1>1, <1>9, ShopConstants, Zenon DEF Categories
  <2>2. \A i, j \in 1..Len(longer) : longer[i] = longer[j] => i = j
    <3>1. \A i \in 2..Len(longer) : longer[i] # cat
      BY <1>1, <1>2, <1>9, Zenon DEF Shop!Range
    <3>2. \A i \in 1..Len(longer) : i = 1 \/ i \in 2..Len(longer)
      BY <1>1, <1>2
    <3> QED BY <1>2, <1>7, <3>1, <3>2, Zenon
  <2>3. Climbing(p, longer, Parents[cat])
    BY <1>2, <1>6, <2>1, <2>2, Zenon DEF Climbing
  <2> QED BY <1>9, <2>3, Zenon DEF longer
<1> QED BY <1>8, <1>9, Zenon

\* A request and a product page have these fields, whatever they hold.
IsRequest(r) == r \in [at : {r.at}, key : {r.key}, q : {r.q}, cat : {r.cat}, value : {r.value}]
IsPage(v) == v \in [total : {v.total}, path : {v.path}, variants : {v.variants}]

\* The updates of a request.
Asked(r, at, key, q)  == [r EXCEPT !.at = at, !.key = key, !.q = q]
Read(r, at, value)    == [r EXCEPT !.at = at, !.value = value]
Paged(r, at, cat, v)  == [r EXCEPT !.at = at, !.cat = cat, !.value = v]
Pathed(r, at, cat, p) == [r EXCEPT !.at = at, !.cat = cat, !.value.path = p]
Varied(r, at, w)      == [r EXCEPT !.at = at, !.value.variants = w]

LEMMA AskedIs ==
    ASSUME NEW r, IsRequest(r), NEW at, NEW key, NEW q, NEW s,
           s = Asked(r, at, key, q)
    PROVE  IsRequest(s) /\ s.at = at /\ s.key = key
<1>1. r \in [at : {r.at, at}, key : {r.key, key}, q : {r.q, q}, cat : {r.cat}, value : {r.value}]
  BY DEF IsRequest
<1> QED BY <1>1, Zenon DEF IsRequest, Asked

LEMMA ReadIs ==
    ASSUME NEW r, IsRequest(r), NEW at, NEW value, NEW s,
           s = Read(r, at, value)
    PROVE  IsRequest(s) /\ s.at = at /\ s.key = r.key /\ s.value = value
<1>1. r \in [at : {r.at, at}, key : {r.key}, q : {r.q}, cat : {r.cat}, value : {r.value, value}]
  BY DEF IsRequest
<1> QED BY <1>1, Zenon DEF IsRequest, Read

LEMMA PagedIs ==
    ASSUME NEW r, IsRequest(r), NEW at, NEW cat, NEW v, NEW s,
           s = Paged(r, at, cat, v)
    PROVE  IsRequest(s) /\ s.at = at /\ s.key = r.key /\ s.cat = cat /\ s.value = v
<1>1. r \in [at : {r.at, at}, key : {r.key}, q : {r.q}, cat : {r.cat, cat}, value : {r.value, v}]
  BY DEF IsRequest
<1> QED BY <1>1, Zenon DEF IsRequest, Paged

LEMMA PathedIs ==
    ASSUME NEW r, IsRequest(r), IsPage(r.value), NEW at, NEW cat, NEW p, NEW s,
           s = Pathed(r, at, cat, p)
    PROVE  /\ IsRequest(s) /\ s.at = at /\ s.key = r.key /\ s.cat = cat
           /\ IsPage(s.value) /\ s.value.path = p
<1> DEFINE w == [r.value EXCEPT !.path = p]
<1>1. r.value \in [total : {r.value.total}, path : {r.value.path, p}, variants : {r.value.variants}]
  BY DEF IsPage
<1>2. IsPage(w) /\ w.path = p
  BY <1>1 DEF IsPage
<1>3. r \in [at : {r.at, at}, key : {r.key}, q : {r.q}, cat : {r.cat, cat}, value : {r.value, w}]
  BY DEF IsRequest
<1>4. Pathed(r, at, cat, p) = Paged(r, at, cat, w)
  BY <1>3 DEF Pathed, Paged
<1> HIDE DEF w
<1> QED BY <1>2, <1>4, PagedIs

LEMMA VariedIs ==
    ASSUME NEW r, IsRequest(r), IsPage(r.value), NEW at, NEW w, NEW s,
           s = Varied(r, at, w)
    PROVE  IsRequest(s) /\ s.at = at /\ s.key = r.key /\ s.value.path = r.value.path
<1> DEFINE v == [r.value EXCEPT !.variants = w]
<1>1. r.value \in [total : {r.value.total}, path : {r.value.path}, variants : {r.value.variants, w}]
  BY DEF IsPage
<1>2. v.path = r.value.path
  BY <1>1
<1>3. r \in [at : {r.at, at}, key : {r.key}, q : {r.q}, cat : {r.cat}, value : {r.value, v}]
  BY DEF IsRequest
<1>4. Varied(r, at, w) = Read(r, at, v)
  BY <1>3 DEF Varied, Read
<1> HIDE DEF v
<1> QED BY <1>2, <1>4, ReadIs

\* A request of a reader: a product page carries a path on its way or a
\* complete one.
ReaderOK(r) ==
    /\ IsRequest(r)
    /\ r.at \in {"category", "variants"} => r.key \in Slugs /\ IsPage(r.value)
    /\ r.at = "category" => Climbing(r.key, r.value.path, r.cat)
    /\ r.at \in {"variants", "store"} /\ r.key \in Slugs => Ancestry(r.key, r.value.path)

ShopInv ==
    /\ rd = [r \in Readers |-> rd[r]] /\ \A r \in Readers : ReaderOK(rd[r])
    /\ cache = [k \in Shop!Keys |-> cache[k]]
    /\ \A p \in Slugs : cache[p] # None => Ancestry(p, cache[p].path)

LEMMA AwayOK == ReaderOK(Shop!Away)
<1>1. IsRequest(Shop!Away) /\ Shop!Away.at = "idle"
  BY DEF IsRequest, Shop!Away
<1> QED BY <1>1 DEF ReaderOK

LEMMA ShopInit == Shop!Init => ShopInv
<1> SUFFICES ASSUME Shop!Init PROVE ShopInv
  OBVIOUS
<1>1. rd = [r \in Readers |-> rd[r]] /\ \A r \in Readers : rd[r] = Shop!Away
  BY Zenon DEF Shop!Init
<1>2. cache = [k \in Shop!Keys |-> cache[k]] /\ \A p \in Slugs : cache[p] = None
  BY Zenon DEF Shop!Init, Shop!Keys, Shop!Slugs, Slugs
<1> QED BY <1>1, <1>2, AwayOK, Zenon DEF ShopInv

LEMMA ReaderMoves ==
    ASSUME ShopInv, NEW r \in Readers, NEW s, Shop!ReadTo(r, s), ReaderOK(s), cache' = cache
    PROVE  ShopInv'
<1>1. rd' = [x \in Readers |-> rd'[x]] /\ \A x \in Readers : rd'[x] = IF x = r THEN s ELSE rd[x]
  BY Zenon DEF ShopInv, Shop!ReadTo
<1>2. \A x \in Readers : ReaderOK(rd'[x])
  BY <1>1, Zenon DEF ShopInv
<1> QED BY <1>1, <1>2, Zenon DEF ShopInv

LEMMA EntriesDrop ==
    ASSUME ShopInv, rd' = rd, cache' = [k \in Shop!Keys |-> cache'[k]],
           \A k \in Shop!Keys : cache'[k] \in {None, cache[k]}
    PROVE  ShopInv'
<1>1. \A p \in Slugs : p \in Shop!Keys
  BY Zenon DEF Slugs, Shop!Slugs, Shop!Keys
<1> QED BY <1>1, Zenon DEF ShopInv

LEMMA ShopStart == ASSUME ShopInv, NEW r \in Readers, Shop!Start(r) PROVE ShopInv'
<1>1. ASSUME NEW k, NEW q, Shop!Lookup(r, k, q) PROVE ShopInv'
  <2>1. PICK s : s = Asked(Shop!Away, "read", k, q)
    OBVIOUS
  <2>2. IsRequest(s) /\ s.at = "read"
    BY <2>1, AwayOK, AskedIs DEF ReaderOK
  <2>3. ReaderOK(s)
    BY <2>2 DEF ReaderOK
  <2>4. CASE UNCHANGED rd
    BY <1>1, <2>4, Zenon DEF Shop!Lookup, ShopInv
  <2>5. CASE Shop!ReadTo(r, s)
    BY <1>1, <2>3, <2>5, ReaderMoves, Zenon DEF Shop!Lookup
  <2> QED BY <1>1, <2>1, <2>4, <2>5, Zenon DEF Shop!Lookup, Asked
<1> QED BY <1>1, Zenon DEF Shop!Start, Shop!Products_

LEMMA ShopPage == ASSUME ShopInv, NEW r \in Readers, Shop!GetProductDetail(r) PROVE ShopInv'
<1>1. PICK o : o = rd[r]
  OBVIOUS
<1>2. IsRequest(o) /\ o.key \in Slugs /\ Products[o.key].category \in Categories \union {None}
  BY <1>1, ShopConstants, Zenon
     DEF ShopInv, ReaderOK, Shop!GetProductDetail, Shop!Slugs, Slugs, Categories
<1>3. PICK page : page = Shop!GetProductBySlug(o.key)
  OBVIOUS
<1>4. page.category = Products[o.key].category
  BY <1>3, Zenon DEF Shop!GetProductBySlug
<1>5. PICK at : at = IF page.category = None THEN "variants" ELSE "category"
  OBVIOUS
<1>6. PICK v : v = [total |-> page.total, path |-> <<>>, variants |-> None]
  BY Zenon
<1>7. PICK s : s = Paged(o, at, page.category, v)
  OBVIOUS
<1>8. Shop!ReadTo(r, s) /\ cache' = cache
  BY <1>1, <1>3, <1>5, <1>6, <1>7, Zenon DEF Shop!GetProductDetail, Paged
<1>9. IsRequest(s) /\ s.at = at /\ s.key = o.key /\ s.cat = page.category /\ s.value = v
  BY <1>2, <1>7, PagedIs
<1>10. IsPage(s.value) /\ s.value.path = <<>>
  <2>1. IsPage(v) /\ v.path = <<>>
    BY <1>6 DEF IsPage
  <2> QED BY <1>9, <2>1, Zenon
<1>11. s.at = "category" => page.category \in Categories
  BY <1>2, <1>4, <1>5, <1>9, Zenon
<1>12. s.at = "category" => Climbing(s.key, <<>>, s.cat)
  BY <1>4, <1>9, <1>11 DEF Climbing, Linked
<1>13. Ancestry(s.key, <<>>)
  BY Zenon DEF Ancestry
<1>14. ReaderOK(s)
  BY <1>2, <1>9, <1>10, <1>12, <1>13, Zenon DEF ReaderOK
<1> QED BY <1>8, <1>14, ReaderMoves, Zenon

LEMMA ShopClimb == ASSUME ShopInv, NEW r \in Readers, Shop!categoryPath(r) PROVE ShopInv'
<1>1. PICK o : o = rd[r]
  OBVIOUS
<1>2. PICK path : path = o.value.path
  OBVIOUS
<1>3. IsRequest(o) /\ IsPage(o.value) /\ o.key \in Slugs /\ Climbing(o.key, path, o.cat)
  BY <1>1, <1>2, Zenon DEF ShopInv, ReaderOK, Shop!categoryPath
<1>4. PICK longer : longer = <<o.cat>> \o path
  BY Zenon
<1>5. IF o.cat \in Shop!Range(path) \/ Parents[o.cat] = None
      THEN Ancestry(o.key, longer) ELSE Climbing(o.key, longer, Parents[o.cat])
  BY <1>3, <1>4, ClimbOnce, Zenon
<1>6. CASE o.cat \in Shop!Range(path) \/ Parents[o.cat] = None
  <2>1. PICK s : s = Pathed(o, "variants", None, longer)
    OBVIOUS
  <2>2. Shop!ReadTo(r, s) /\ cache' = cache
    BY <1>1, <1>2, <1>4, <1>6, <2>1, Zenon DEF Shop!categoryPath, Shop!GetCategoryByID, Pathed
  <2>3. /\ IsRequest(s) /\ s.at = "variants" /\ s.key = o.key
        /\ IsPage(s.value) /\ s.value.path = longer
    BY <1>3, <2>1, PathedIs
  <2>4. s.at # "category"
    BY <2>3
  <2>5. ReaderOK(s)
    BY <1>3, <1>5, <1>6, <2>3, <2>4, Zenon DEF ReaderOK
  <2> QED BY <2>2, <2>5, ReaderMoves, Zenon
<1>7. CASE ~(o.cat \in Shop!Range(path) \/ Parents[o.cat] = None)
  <2>1. PICK s : s = Pathed(o, "category", Parents[o.cat], longer)
    OBVIOUS
  <2>2. Shop!ReadTo(r, s) /\ cache' = cache
    BY <1>1, <1>2, <1>4, <1>7, <2>1, Zenon DEF Shop!categoryPath, Shop!GetCategoryByID, Pathed
  <2>3. /\ IsRequest(s) /\ s.at = "category" /\ s.key = o.key /\ s.cat = Parents[o.cat]
        /\ IsPage(s.value) /\ s.value.path = longer
    BY <1>3, <2>1, PathedIs
  <2>4. s.at \notin {"variants", "store"}
    BY <2>3
  <2>5. ReaderOK(s)
    BY <1>3, <1>5, <1>7, <2>3, <2>4, Zenon DEF ReaderOK
  <2> QED BY <2>2, <2>5, ReaderMoves, Zenon
<1> QED BY <1>6, <1>7, Zenon

\* The path is left out, or the variants follow it.
LEMMA ShopPageGoes ==
    ASSUME ShopInv, NEW r \in Readers, Shop!PathLeftOut(r) \/ Shop!DetailVariants(r) PROVE ShopInv'
<1>1. PICK o : o = rd[r]
  OBVIOUS
<1>2. /\ IsRequest(o) /\ IsPage(o.value) /\ o.key \in Slugs
      /\ o.at = "variants" => Ancestry(o.key, o.value.path)
  BY <1>1, Zenon DEF ShopInv, ReaderOK, Shop!PathLeftOut, Shop!DetailVariants
<1>3. CASE Shop!PathLeftOut(r)
  <2>0. PICK none : none = <<>>
    OBVIOUS
  <2>1. PICK s : s = Pathed(o, "variants", None, none)
    OBVIOUS
  <2>2. Shop!ReadTo(r, s) /\ cache' = cache
    BY <1>1, <1>3, <2>0, <2>1, Zenon DEF Shop!PathLeftOut, Pathed
  <2>3. /\ IsRequest(s) /\ s.at = "variants" /\ s.key = o.key
        /\ IsPage(s.value) /\ s.value.path = none
    BY <1>2, <2>1, PathedIs
  <2>4. s.at # "category" /\ Ancestry(s.key, none)
    BY <2>0, <2>3, Zenon DEF Ancestry
  <2>5. ReaderOK(s)
    BY <1>2, <2>3, <2>4, Zenon DEF ReaderOK
  <2> QED BY <2>2, <2>5, ReaderMoves, Zenon
<1>4. CASE Shop!DetailVariants(r)
  <2>1. PICK s : s = Varied(o, "store", Shop!ListVariantsByProduct(o.key))
    OBVIOUS
  <2>2. Shop!ReadTo(r, s) /\ cache' = cache /\ o.at = "variants"
    BY <1>1, <1>4, <2>1, Zenon DEF Shop!DetailVariants, Varied
  <2>3. IsRequest(s) /\ s.at = "store" /\ s.key = o.key /\ s.value.path = o.value.path
    BY <1>2, <2>1, VariedIs
  <2>4. s.at \notin {"category", "variants"} /\ s.at # "category"
    BY <2>3
  <2>5. ReaderOK(s)
    BY <1>2, <2>2, <2>3, <2>4, Zenon DEF ReaderOK
  <2> QED BY <2>2, <2>5, ReaderMoves, Zenon
<1> QED BY <1>3, <1>4, Zenon

\* The two reads that are not of a page, and a statement that fails.
LEMMA ShopOther ==
    ASSUME ShopInv, NEW r \in Readers, Shop!ListProducts(r) \/ Shop!SalesRange(r) \/ Shop!ReadFails(r)
    PROVE  ShopInv'
<1>1. CASE Shop!ReadFails(r)
  BY <1>1, AwayOK, ReaderMoves, Zenon DEF Shop!ReadFails
<1>2. CASE Shop!ListProducts(r) \/ Shop!SalesRange(r)
  <2>1. PICK o : o = rd[r]
    OBVIOUS
  <2>2. PICK w : Shop!ReadTo(r, Read(o, "store", w)) /\ cache' = cache /\ o.key \in {"list", "sales"}
    BY <1>2, <2>1, Zenon DEF Shop!ListProducts, Shop!SalesRange, Read
  <2>3. IsRequest(o) /\ o.key \notin Slugs
    BY <2>1, <2>2, ShopConstants, Zenon DEF ShopInv, ReaderOK, Slugs
  <2>4. PICK s : s = Read(o, "store", w)
    OBVIOUS
  <2>5. IsRequest(s) /\ s.at = "store" /\ s.key = o.key
    BY <2>3, <2>4, ReadIs
  <2>6. s.at \notin {"category", "variants"} /\ s.at # "category"
    BY <2>5
  <2>7. ReaderOK(s)
    BY <2>3, <2>5, <2>6, Zenon DEF ReaderOK
  <2> QED BY <2>2, <2>4, <2>7, ReaderMoves, Zenon
<1> QED BY <1>1, <1>2, Zenon

LEMMA ShopStore == ASSUME ShopInv, NEW r \in Readers, Shop!Store(r) PROVE ShopInv'
<1>1. CASE cache' = cache
  BY <1>1, AwayOK, ReaderMoves, Zenon DEF Shop!Store
<1>2. CASE cache' = [cache EXCEPT ![rd[r].key] = rd[r].value]
  <2>1. rd' = [x \in Readers |-> rd'[x]] /\ \A x \in Readers : rd'[x] = IF x = r THEN Shop!Away ELSE rd[x]
    BY Zenon DEF ShopInv, Shop!Store, Shop!ReadTo
  <2>2. \A x \in Readers : ReaderOK(rd'[x])
    BY <2>1, AwayOK, Zenon DEF ShopInv
  <2>3. /\ cache' = [k \in Shop!Keys |-> cache'[k]]
        /\ \A k \in Shop!Keys : cache'[k] = IF k = rd[r].key THEN rd[r].value ELSE cache[k]
    BY <1>2, Zenon DEF ShopInv
  <2>4. \A p \in Slugs : p \in Shop!Keys
    BY Zenon DEF Slugs, Shop!Slugs, Shop!Keys
  <2>5. rd[r].key \in Slugs => Ancestry(rd[r].key, rd[r].value.path)
    BY Zenon DEF ShopInv, ReaderOK, Shop!Store
  <2>6. \A p \in Slugs : cache'[p] # None => Ancestry(p, cache'[p].path)
    BY <2>3, <2>4, <2>5, Zenon DEF ShopInv
  <2> QED BY <2>1, <2>2, <2>3, <2>6, Zenon DEF ShopInv
<1> QED BY <1>1, <1>2, Zenon DEF Shop!Store, Shop!SetJSON

\* The webhook and the other writers only ever drop entries.
LEMMA ShopWrites ==
    ASSUME ShopInv,
           \/ Shop!Sell \/ Shop!Rollback \/ Shop!invalidateCaches \/ Shop!RefreshSalesDaily
           \/ \E b \in Baskets : Shop!Settle(b)
           \/ \E k \in Shop!Keys : Shop!TTL(k)
    PROVE  ShopInv'
<1>1. CASE cache' = cache /\ rd' = rd
  BY <1>1, Zenon DEF ShopInv
<1>2. ASSUME NEW k, cache' = [cache EXCEPT ![k] = None], rd' = rd PROVE ShopInv'
  <2>1. /\ cache' = [x \in Shop!Keys |-> cache'[x]]
        /\ \A x \in Shop!Keys : cache'[x] = IF x = k THEN None ELSE cache[x]
    BY <1>2, Zenon DEF ShopInv
  <2> QED BY <1>2, <2>1, EntriesDrop, Zenon
<1>3. CASE Shop!invalidateCaches
  <2>1. PICK dropped : cache' = [k \in Shop!Keys |-> IF k \in dropped THEN None ELSE cache[k]]
    BY <1>3, Zenon DEF Shop!invalidateCaches
  <2>2. rd' = rd /\ cache' = [k \in Shop!Keys |-> cache'[k]]
        /\ \A k \in Shop!Keys : cache'[k] \in {None, cache[k]}
    BY <1>3, <2>1, Zenon DEF Shop!invalidateCaches
  <2> QED BY <2>2, EntriesDrop, Zenon
<1>4. CASE Shop!Sell
  BY <1>1, <1>2, <1>4, Zenon DEF Shop!Sell, Shop!InvalidateProduct, Shop!InvalidateList, Shop!Clear,
     Shop!Commit, Shop!DeleteKey
<1>5. CASE Shop!Rollback \/ Shop!RefreshSalesDaily \/ \E b \in Baskets : Shop!Settle(b)
  BY <1>1, <1>5, Zenon DEF Shop!Rollback, Shop!RefreshSalesDaily, Shop!Settle
<1>6. CASE \E k \in Shop!Keys : Shop!TTL(k)
  BY <1>2, <1>6, Zenon DEF Shop!TTL
<1> QED BY <1>3, <1>4, <1>5, <1>6, Zenon

ShopStep ==
    \/ \E r \in Readers : Shop!Start(r) \/ Shop!Run(r) \/ Shop!ReadFails(r)
    \/ Shop!Sell \/ Shop!Rollback \/ Shop!invalidateCaches \/ Shop!RefreshSalesDaily
    \/ \E b \in Baskets : Shop!Settle(b)
    \/ \E k \in Shop!Keys : Shop!TTL(k)

LEMMA ShopSteps == ASSUME ShopInv, ShopStep PROVE ShopInv'
<1>1. CASE \E r \in Readers : Shop!Start(r) \/ Shop!Run(r) \/ Shop!ReadFails(r)
  BY <1>1, ShopStart, ShopPage, ShopClimb, ShopPageGoes, ShopOther, ShopStore, Zenon DEF Shop!Run
<1> QED BY <1>1, ShopWrites, Zenon DEF ShopStep

----------------------------------------------------------------------------
(* The parts together: a step of one leaves the others alone.              *)

LEMMA BookRests == BookInv /\ UNCHANGED bookVars => BookInv'
  BY BookSame, Zenon DEF bookVars

LEMMA FansRests == FansInv /\ UNCHANGED fansVars => FansInv'
  BY Zenon DEF fansVars, FansInv, FansOK, LastAnswerHolds, Fans!LastAnswerHolds

LEMMA ShopRests == ShopInv /\ UNCHANGED shopVars => ShopInv'
  BY Zenon DEF shopVars, ShopInv

\* A step belongs to one part.
BookStep == UNCHANGED <<fansVars, shopVars>> /\ \E h \in AddrHandlers : Book!Start(h) \/ Book!Run(h) \/ Book!Fail(h)
FansMove == UNCHANGED <<bookVars, shopVars>> /\ (Fans!Review \/ \E h \in FavHandlers : Fans!Start(h) \/ Fans!Step(h))
ShopMove == UNCHANGED <<bookVars, fansVars>> /\ (ShopStep \/ UNCHANGED shopVars)

LEMMA StepOfOnePart == [StoreNext]_storeVars => BookStep \/ FansMove \/ ShopMove
<1>1. UNCHANGED storeVars => UNCHANGED <<bookVars, fansVars>> /\ UNCHANGED shopVars
  BY Zenon DEF storeVars
<1> QED BY <1>1, Zenon
     DEF StoreNext, BookStep, FansMove, ShopMove, ShopStep, InBook, InFans, InShop, BookRuns, ShopReads, ShopSells,
         Expires

LEMMA StoreStep ==
    BookInv /\ FansInv /\ ShopInv /\ [StoreNext]_storeVars
        => BookInv' /\ FansInv' /\ ShopInv' /\ [Book!DefaultMoves]_bookVars
<1> SUFFICES ASSUME BookInv, FansInv, ShopInv, [StoreNext]_storeVars
             PROVE  BookInv' /\ FansInv' /\ ShopInv' /\ [Book!DefaultMoves]_bookVars
  OBVIOUS
<1>1. CASE BookStep
  <2>1. PICK h \in AddrHandlers : Book!Start(h) \/ Book!Run(h) \/ Book!Fail(h)
    BY <1>1, Zenon DEF BookStep
  <2>2. BookInv' /\ (Book!Defaults # {} /\ Book!Defaults' = {} => Demotes(h))
    BY <2>1, BookSteps, Zenon
  <2>3. (Cardinality(Book!Defaults) <= 1)'
    <3>1. OneDefault'
      BY <2>2, Zenon DEF BookInv
    <3> QED BY <3>1, FewDefaults, PTL
  <2>4. Book!DefaultMoves
    <3>1. CASE Book!Defaults # {} /\ Book!Defaults' = {}
      BY <2>2, <2>3, <3>1, BookCounts, Zenon DEF Book!DefaultMoves, Demotes
    <3> QED BY <2>3, <3>1, BookCounts, Zenon DEF Book!DefaultMoves
  <2> QED BY <1>1, <2>2, <2>4, FansRests, ShopRests, Zenon DEF BookStep
<1>2. CASE FansMove
  BY <1>2, FansReview, FansStart, FansStep, BookRests, ShopRests, Zenon DEF FansMove
<1>3. CASE ShopMove
  BY <1>3, FansRests, BookRests, ShopSteps, ShopRests, Zenon DEF ShopMove
<1> QED BY <1>1, <1>2, <1>3, StepOfOnePart, Zenon

LEMMA StoreInvAlways == StoreSpec => [](BookInv /\ FansInv /\ ShopInv) /\ DefaultKept
<1>1. StoreInit => BookInv /\ FansInv /\ ShopInv
  BY BookInit, FansInit, ShopInit, Zenon DEF StoreInit
<1> QED BY <1>1, StoreStep, PTL DEF StoreSpec, DefaultKept

\* Addresses: whatever requests race, fail or are cancelled, the user's default
\* moves and is never doubled; only a request about that very address ends it.
THEOREM DefaultIsKept == StoreSpec => DefaultKept
  BY StoreInvAlways, PTL

\* Favourites: the last answer of a toggle is what the table holds, for any
\* number of shoppers, tenants and toggles at once.
THEOREM AnswersHold == StoreSpec => []LastAnswerHolds
<1>1. FansInv => LastAnswerHolds
  BY Zenon DEF FansInv
<1> QED BY <1>1, StoreInvAlways, PTL

\* Catalogue: a cached page shows the ancestry of the product's category,
\* whatever the tree of categories, loops included.
THEOREM PathsAreAncestry == StoreSpec => []PathIsAncestry
<1>1. ShopInv => PathIsAncestry
  <2> SUFFICES ASSUME ShopInv, NEW p \in Slugs, cache[p] # None, cache[p].path # <<>>
               PROVE  LET path == cache[p].path
                      IN  /\ path[Len(path)] = Products[p].category
                          /\ \A i \in 2..Len(path) : path[i - 1] = Parents[path[i]]
                          /\ Parents[path[1]] = None \/ \E i \in 2..Len(path) : path[i] = path[1]
                          /\ \A i, j \in 2..Len(path) : path[i] = path[j] => i = j
    BY Zenon DEF PathIsAncestry, Shop!PathIsAncestry, Slugs, Shop!Slugs
  <2>1. PICK path : path = cache[p].path
    OBVIOUS
  <2>2. Ancestry(p, path) /\ path # <<>>
    BY <2>1, Zenon DEF ShopInv
  <2> QED BY <2>1, <2>2, Zenon DEF Ancestry, Linked
<1> QED BY <1>1, StoreInvAlways, PTL

\* Catalogue: for any products, prices, titles and creation times, any sorting
\* and any page size the pages partition the matching products.
THEOREM PagesAlwaysPartition == StoreSpec => []PagesPartition
<1>1. Shop!PagesPartition
  <2> SUFFICES ASSUME NEW raw \in Listings, NEW q, q = Shop!ParseListParams(raw), q # None,
                      NEW n, n = Shop!CountProductsPublic(q), NEW all,
                      all = Shop!Concat([i \in 1..((n + q.limit - 1) \div q.limit) |->
                                                Shop!PageOf([q EXCEPT !.page = i])])
               PROVE  /\ Len(all) = n
                      /\ Shop!Range(all) = {Shop!Item(p) : p \in Shop!Matches(q)}
                      /\ \A i \in 1..(n - 1) : Shop!Before(q.sort, all[i].slug, all[i + 1].slug)
    BY Zenon DEF Shop!PagesPartition
  <2>1. IsListing(q) /\ q.limit \in Nat \ {0}
    BY ParsedIs, Zenon
  <2>2. n = Count(q) /\ n \in Nat
    BY ShopCounts, MatchesFinite, Zenon DEF Shop!CountProductsPublic, Count
  <2>3. PICK l \in Nat \ {0} : l = q.limit
    BY <2>1, Zenon
  <2>4. PICK A : A = ItemsOf(q)
    OBVIOUS
  <2>5. \A i \in 1..((n + l - 1) \div l) : Shop!PageOf(Numbered(q, i)) = PageAt(A, n, l, i)
    <3> SUFFICES ASSUME NEW i \in 1..((n + l - 1) \div l) PROVE Shop!PageOf(Numbered(q, i)) = PageAt(A, n, l, i)
      BY Zenon
    <3>1. i \in Nat \ {0} /\ (i - 1) * l < n
      BY <2>2, PageStarts
    <3>2. Shop!PageOf(Numbered(q, i)) = PageAt(ItemsOf(q), n, l, i)
      BY <2>1, <2>2, <2>3, <3>1, PageIs, Zenon
    <3> QED BY <2>4, <3>2, Zenon
  <2>6. all = Shop!Concat(PagesOf(A, n, l))
    BY <2>3, <2>5, Zenon DEF PagesOf, Numbered
  <2>7. all = [m \in 1..n |-> A[m]]
    BY <2>2, <2>6, PagesJoin, ZenonT(40)
  <2>8. all = ItemsOf(q)
    BY <2>2, <2>4, <2>7, Zenon DEF ItemsOf
  <2> QED BY <2>2, <2>8, ItemsAre, Zenon
<1>2. PagesPartition
  BY <1>1, Zenon DEF PagesPartition
<1> QED BY <1>2, PTL
=============================================================================
