-------------------------- MODULE CircuitBreaker --------------------------
(***************************************************************************)
(* The failure-ratio circuit breaker (internal/resilience/circuit.go) and  *)
(* the retrying HTTP client that consults it (httpwrap.go).  Every caller  *)
(* is a goroutine inside HTTPClient.Do; all callers of one client share    *)
(* one Breaker, whose mutex makes Allow and Report atomic.                 *)
(*                                                                         *)
(* Time is the age of the last opening, in ticks, capped at OpenFor: the   *)
(* code only ever compares time.Since(openedAt) with openFor.              *)
(***************************************************************************)
EXTENDS Integers, FiniteSets

CONSTANTS
    Callers,            \* goroutines that may be inside Do at the same time
    ConfMinRequests,    \* NewBreaker's arguments, as configured ...
    ConfRatioNum,       \* ... the failure ratio is ConfRatioNum / ConfRatioDen
    ConfRatioDen,
    ConfOpenFor,
    ConfMaxAttempts     \* HTTPClient.MaxAttempts, as configured

ASSUME ConfigAssumption ==
    /\ ConfMinRequests \in Int
    /\ ConfRatioNum \in Int
    /\ ConfRatioDen \in Nat \ {0}
    /\ ConfOpenFor \in Int
    /\ ConfMaxAttempts \in Int

VARIABLES
    state,          \* Breaker.state
    failures,       \* Breaker.failures
    successes,      \* Breaker.successes
    sinceOpened,    \* time.Since(Breaker.openedAt), capped at OpenFor
    pc,             \* where each caller is in Do
    attempt,        \* Do's loop counter
    admittedIn,     \* the breaker state in which Allow admitted the request in flight
    healthy         \* every request is answered below 500 in time and no caller gives up

breakerVars == <<state, failures, successes, sinceOpened>>
vars == <<state, failures, successes, sinceOpened, pc, attempt, admittedIn, healthy>>

---------------------------------------------------------------------------
\* NewBreaker's and Do's defaults for unusable configuration.
MinRequests == IF ConfMinRequests <= 0 THEN 1 ELSE ConfMinRequests
RatioNum == IF ConfRatioNum <= 0 THEN 1 ELSE IF ConfRatioNum > ConfRatioDen THEN 1 ELSE ConfRatioNum
RatioDen == IF ConfRatioNum <= 0 THEN 2 ELSE IF ConfRatioNum > ConfRatioDen THEN 1 ELSE ConfRatioDen
OpenFor == IF ConfOpenFor <= 0 THEN 30 ELSE ConfOpenFor
MaxAttempts == IF ConfMaxAttempts <= 0 THEN 1 ELSE ConfMaxAttempts

States == {"Closed", "Open", "HalfOpen"}
Positions == {"idle", "allow", "sending", "backoff"}

Init ==
    /\ state = "Closed"
    /\ failures = 0
    /\ successes = 0
    /\ sinceOpened = OpenFor        \* openedAt is the zero time
    /\ pc = [c \in Callers |-> "idle"]
    /\ attempt = [c \in Callers |-> 0]
    /\ admittedIn = [c \in Callers |-> "Closed"]
    /\ healthy \in BOOLEAN

---------------------------------------------------------------------------
\* Mutant: opening does not stamp openedAt.
changeStateLocked_NoStamp(next) ==
    /\ state' = next
    /\ failures' = 0
    /\ successes' = 0
    /\ sinceOpened' = OpenFor

changeStateLocked(next) ==
    /\ state' = next
    /\ failures' = 0
    /\ successes' = 0
    /\ sinceOpened' = CASE next = "Open" -> 0
                        [] next = "Closed" -> OpenFor
                        [] next = "HalfOpen" -> sinceOpened

\* int(math.Ceil(float64(n) * 0.5))
HalfUp(n) == (n + 1) \div 2

AtLeastRatio(f, total) == f * RatioDen >= RatioNum * total

ReportClosed(success) ==
    LET f == IF success THEN failures ELSE failures + 1
        s == IF success THEN successes + 1 ELSE successes
    IN  \/ /\ f + s < MinRequests
           /\ failures' = f
           /\ successes' = s
           /\ UNCHANGED <<state, sinceOpened>>
        \/ /\ f + s >= MinRequests
           /\ AtLeastRatio(f, f + s)
           /\ changeStateLocked("Open")
        \/ /\ f + s >= MinRequests
           /\ ~AtLeastRatio(f, f + s)
           /\ failures' = IF f + s > 2 * MinRequests THEN HalfUp(f) ELSE f
           /\ successes' = IF f + s > 2 * MinRequests THEN HalfUp(s) ELSE s
           /\ UNCHANGED <<state, sinceOpened>>

\* Mutant: a successful probe leaves the breaker half-open.
Report_ProbeIgnored(success) ==
    \/ state = "Open" /\ UNCHANGED breakerVars
    \/ state = "HalfOpen" /\ (IF success THEN UNCHANGED breakerVars ELSE changeStateLocked("Open"))
    \/ state = "Closed" /\ ReportClosed(success)

Report(success) ==
    \/ state = "Open" /\ UNCHANGED breakerVars
    \/ state = "HalfOpen" /\ changeStateLocked(IF success THEN "Closed" ELSE "Open")
    \/ state = "Closed" /\ ReportClosed(success)

---------------------------------------------------------------------------
\* One call of Do enters its retry loop.
StartDo(c) ==
    /\ pc[c] = "idle"
    /\ pc' = [pc EXCEPT ![c] = "allow"]
    /\ attempt' = [attempt EXCEPT ![c] = 1]
    /\ UNCHANGED <<breakerVars, admittedIn, healthy>>

\* Do returns: with a response, the last error, or ErrOpenCircuit.
Return(c) ==
    /\ pc' = [pc EXCEPT ![c] = "idle"]
    /\ attempt' = [attempt EXCEPT ![c] = 0]
    /\ admittedIn' = [admittedIn EXCEPT ![c] = "Closed"]

Admit(c, in) ==
    /\ pc' = [pc EXCEPT ![c] = "sending"]
    /\ admittedIn' = [admittedIn EXCEPT ![c] = in]
    /\ UNCHANGED attempt

\* Mutant: an open breaker refuses without looking at the time.
Allow_StaysOpen(c) ==
    /\ pc[c] = "allow"
    /\ IF state = "Open" THEN Return(c) ELSE Admit(c, state)
    /\ UNCHANGED <<breakerVars, healthy>>

\* breaker.Allow; a refusal ends the call.
Allow(c) ==
    /\ pc[c] = "allow"
    /\ \/ /\ state = "Open"
          /\ sinceOpened >= OpenFor
          /\ changeStateLocked("HalfOpen")
          /\ Admit(c, "HalfOpen")
       \/ /\ state = "Open"
          /\ sinceOpened < OpenFor
          /\ Return(c)
          /\ UNCHANGED breakerVars
       \/ /\ state # "Open"
          /\ Admit(c, state)
          /\ UNCHANGED breakerVars
    /\ UNCHANGED healthy

\* doOnce answers below 500: report and return the response.
Succeed(c) ==
    /\ pc[c] = "sending"
    /\ Report(TRUE)
    /\ Return(c)
    /\ UNCHANGED healthy

\* doOnce errs (timeout and a cancelled caller included) or answers >= 500:
\* report, then give up after the last attempt or back off.
Fail(c) ==
    /\ pc[c] = "sending"
    /\ ~healthy
    /\ Report(FALSE)
    /\ \/ attempt[c] = MaxAttempts /\ Return(c)
       \/ /\ attempt[c] < MaxAttempts
          /\ pc' = [pc EXCEPT ![c] = "backoff"]
          /\ admittedIn' = [admittedIn EXCEPT ![c] = "Closed"]
          /\ UNCHANGED attempt
    /\ UNCHANGED healthy

\* Mutant: the retry loop forgets to count.
BackoffElapsed_NoCount(c) ==
    /\ pc[c] = "backoff"
    /\ pc' = [pc EXCEPT ![c] = "allow"]
    /\ UNCHANGED <<breakerVars, attempt, admittedIn, healthy>>

\* The backoff timer fires: next iteration of the loop.
BackoffElapsed(c) ==
    /\ pc[c] = "backoff"
    /\ pc' = [pc EXCEPT ![c] = "allow"]
    /\ attempt' = [attempt EXCEPT ![c] = @ + 1]
    /\ UNCHANGED <<breakerVars, admittedIn, healthy>>

\* The caller's context ends during the backoff.
BackoffCancelled(c) ==
    /\ pc[c] = "backoff"
    /\ Return(c)
    /\ UNCHANGED <<breakerVars, healthy>>

Tick ==
    /\ sinceOpened < OpenFor
    /\ sinceOpened' = sinceOpened + 1
    /\ UNCHANGED <<state, failures, successes, pc, attempt, admittedIn, healthy>>

\* The dependency breaks or recovers.
HealthChange ==
    /\ healthy' = ~healthy
    /\ UNCHANGED <<breakerVars, pc, attempt, admittedIn>>

CallerStep(c) == Allow(c) \/ Succeed(c) \/ Fail(c) \/ BackoffElapsed(c) \/ BackoffCancelled(c)

Next ==
    \/ \E c \in Callers : StartDo(c) \/ CallerStep(c)
    \/ Tick
    \/ HealthChange

Spec == Init /\ [][Next]_vars

\* Do blocks on nothing but the request, which doOnce bounds by a timeout, and
\* on its backoff timer; the clock runs.
Fairness == WF_vars(Tick) /\ \A c \in Callers : WF_vars(CallerStep(c))

FairSpec == Spec /\ Fairness

---------------------------------------------------------------------------
(* Properties.                                                             *)

TypeOK ==
    /\ state \in States
    /\ failures \in Nat
    /\ successes \in Nat
    /\ sinceOpened \in 0..OpenFor
    /\ pc \in [Callers -> Positions]
    /\ attempt \in [Callers -> 0..MaxAttempts]
    /\ admittedIn \in [Callers -> States]
    /\ healthy \in BOOLEAN

\* Report's decay keeps the rolling window bounded: however many requests are
\* reported while the breaker stays closed, the two counters together never pass
\* twice the minimum, and a breaker that is not closed holds no counts.
WindowBounded ==
    /\ failures + successes <= 2 * MinRequests
    /\ state # "Closed" => failures = 0 /\ successes = 0

\* Every opening, from closed or from a failed probe, is followed by a whole
\* cool-off: its clock starts at zero, the breaker stays open until it has run
\* out whatever the requests admitted earlier report meanwhile, no request is
\* sent before that, and it can only be left towards half-open.
CoolOffStep ==
    /\ state # "Open" /\ state' = "Open" => sinceOpened' = 0
    /\ state = "Open" =>
           /\ state' # "Open" => state' = "HalfOpen" /\ sinceOpened >= OpenFor
           /\ sinceOpened < OpenFor =>
                  \A c \in Callers : pc'[c] = "sending" => pc[c] = "sending"
CoolOffRespected == [][CoolOffStep]_vars

\* A half-open breaker always waits for a probe of its own that is in flight, also
\* when requests admitted before the opening report in between: it cannot get
\* stuck half-open with nothing left to decide the recovery.
ProbeInFlight ==
    state = "HalfOpen" => \E c \in Callers : pc[c] = "sending" /\ admittedIn[c] = "HalfOpen"

\* Every call of Do returns: the attempts run out, or the breaker refuses.
DoReturns == \A c \in Callers : pc[c] # "idle" ~> pc[c] = "idle"

\* If the dependency stays healthy from some point on and calls keep arriving,
\* the breaker ends up closed for good, whatever was in flight or counted.
BreakerRecovers ==
    (<>[]healthy /\ []<>(\E c \in Callers : pc[c] = "allow")) => <>[](state = "Closed")

===========================================================================
