------------------------------ MODULE Requests ------------------------------
(***************************************************************************)
(* The way of a request through the API process (cmd/api/main.go and its   *)
(* middlewares) until its handler has run, with the state that requests     *)
(* share: the semaphore of requests in flight, the sliding-window limiter   *)
(* and the idempotency keys in Redis, the audit log, and the shutdown of    *)
(* the process.  Time is a counter; Redis outlives the process.             *)
(***************************************************************************)
EXTENDS Integers, FiniteSets

CONSTANTS
    None,
    Ids,            \* requests, numbered from 1
    Traffic,        \* what a request may be: see Request in MCRequests
    InFlightLimits, \* the values of HTTP_MAX_INFLIGHT to start the process with
    Max, Window,    \* the limiter
    KeyTTL,         \* of idempotency keys
    Grace,          \* APIMaxShutdownGrace
    BodyMax, DefaultTenant,
    MaxDelay,       \* bound on the time from a limiter's clock reading to Redis
    MaxTime, MaxTroubles

\* The values that are not positive switch the limiter off, or are replaced.
ASSUME RequestConstants ==
    /\ Ids \subseteq Nat
    /\ InFlightLimits \subseteq Nat \ {0}
    /\ Max \in Nat \ {0} /\ Window \in Nat \ {0} /\ KeyTTL \in Nat \ {0}
    /\ Grace \in Nat /\ MaxDelay \in Nat /\ MaxTime \in Nat

VARIABLES
    now, troubles,
    slots,          \* HTTP_MAX_INFLIGHT
    proc,           \* "up", "draining", "down"
    signalled,      \* when SIGTERM came, or None
    req,            \* [Ids -> the state of the request]
    window,         \* the limiter's sorted set: [score, id]
    windowEnds,     \* when Redis drops the sorted set
    keys,           \* [Keys -> when the idempotency key ends]
    audit,          \* rows [id, status]
    passed, runs    \* history: what the limiter let through, what ran with a key

vars == <<now, troubles, slots, proc, signalled, req, window, windowEnds, keys, audit, passed, runs>>
redis == <<window, windowEnds, keys>>
history == <<passed, runs>>
process == <<now, slots, proc, signalled>>

Keys == {q.key : q \in Traffic} \ {None}
Fresh == [at |-> "away", q |-> None, t |-> 0, claim |-> None, status |-> 0,
          audited |-> TRUE, late |-> 0]

Init ==
    /\ now = 0 /\ troubles = 0 /\ slots \in InFlightLimits /\ proc = "up" /\ signalled = None
    /\ req = [r \in Ids |-> Fresh]
    /\ window = {} /\ windowEnds = 0 /\ keys = [k \in Keys |-> 0]
    /\ audit = {} /\ passed = {} /\ runs = {}

----------------------------------------------------------------------------
\* The checks that look at the request alone

\* internal/security/bodylimit.go
BodyLimit(q) == q.size <= BodyMax

\* internal/security/csrf.go: the token of the header must be the cookie's
CSRF(q) == q.method = "GET" \/ q.bearer # None \/ (q.csrf # None /\ q.csrf = q.cookie)

\* internal/tenant/middleware.go: the header, else the subdomain, else the default
Resolve(q) == IF q.tenant # None THEN q.tenant ELSE q.subdomain
Tenant(q) == IF Resolve(q) # None THEN Resolve(q) ELSE DefaultTenant

\* internal/auth: a bearer token, else the access cookie, signed and in its time
extractToken(q) == IF q.bearer # None THEN q.bearer ELSE q.session
ParseAccessToken(token) == token \in {"user", "admin"}
RequireAuth(q) == extractToken(q) # None /\ ParseAccessToken(extractToken(q))
requireRole(q) == extractToken(q) = "admin"

\* The middlewares of the routes before and after the idempotency key,
\* cmd/api/main.go; the administrators' routes take no key.
Before == [checkout |-> {}, intent |-> {"auth"}, admin |-> {"auth", "role"}]
Behind == [checkout |-> {"auth"}, intent |-> {}, admin |-> {}]

----------------------------------------------------------------------------
To(r, s) == req' = [req EXCEPT ![r] = s]
\* An answer ends the request, which gives back its slot, but for one that
\* holds a key: that is renewed before.
Ending(s, status) ==
    [s EXCEPT !.at = IF s.claim = None THEN "done" ELSE "close", !.status = status, !.t = 0]
Answer(r, status) == To(r, Ending(req[r], status))
Trouble == troubles < MaxTroubles /\ troubles' = troubles + 1

\* On to the stage at, unless one of the checks turns the request away.
Protect(s, checks, at) ==
    IF "auth" \in checks /\ ~RequireAuth(s.q) THEN Ending(s, 401)
    ELSE IF "role" \in checks /\ ~requireRole(s.q) THEN Ending(s, 403)
    ELSE [s EXCEPT !.at = at]

\* Behind the limiter.
Pass(r) == To(r, Protect([req[r] EXCEPT !.t = 0], Before[req[r].q.route],
                         IF req[r].q.route = "admin" THEN "running" ELSE "idem"))

Waiting == {r \in Ids : req[r].at = "semaphore"}
Inside  == {r \in Ids : req[r].at \notin {"away", "semaphore", "done", "lost"}}
Active  == Waiting \union Inside

\* Requests are alike: they arrive in the order of their numbers.
Arrive(r, q) ==
    /\ proc = "up" /\ req[r].at = "away" /\ \A x \in 1..(r - 1) : req[x].at # "away"
    /\ To(r, [Fresh EXCEPT !.at = "semaphore", !.q = q])
    /\ UNCHANGED <<process, troubles, redis, audit, history>>

\* Mutant: one slot too many.
Admit_OneMore(r) ==
    /\ req[r].at = "semaphore" /\ Cardinality(Inside) <= slots
    /\ To(r, [req[r] EXCEPT !.at = "limit", !.t = now])
    /\ UNCHANGED <<process, troubles, redis, audit, history>>

\* A slot is free; then the checks that need nothing else, and Allow's
\* reading of the clock.
Admit(r) ==
    /\ req[r].at = "semaphore" /\ Cardinality(Inside) < slots
    /\ IF ~BodyLimit(req[r].q) THEN Answer(r, 413)
       ELSE IF ~CSRF(req[r].q) THEN Answer(r, 403)
       ELSE To(r, [req[r] EXCEPT !.at = "limit", !.t = now])
    /\ UNCHANGED <<process, troubles, redis, audit, history>>

\* The client gives up while it waits for a slot.
Cancelled(r) ==
    /\ req[r].at = "semaphore" /\ Trouble
    /\ To(r, [req[r] EXCEPT !.at = "done", !.status = 408])
    /\ UNCHANGED <<process, redis, audit, history>>

\* Mutant: the request is counted before it is added.
Allowed_Before(live) == Cardinality(live) - 1 <= Max

Allowed(live) == Cardinality(live) <= Max

\* Allow, the pipeline: drop the old, add this one even if it is then refused,
\* count, renew the expiry.
Allow(r) ==
    LET old  == IF now < windowEnds THEN {e \in window : e.score > req[r].t - Window} ELSE {}
        live == old \union {[score |-> req[r].t, id |-> r]}
    IN  /\ req[r].at = "limit"
        /\ window' = live /\ windowEnds' = now + Window
        /\ IF Allowed(live)
           THEN Pass(r) /\ passed' = passed \union {[id |-> r, at |-> now]}
           ELSE Answer(r, 429) /\ UNCHANGED passed
        /\ UNCHANGED <<process, troubles, keys, audit, runs>>

\* Redis does not answer: the request goes through unlimited.
AllowFails(r) ==
    /\ req[r].at = "limit" /\ Trouble
    /\ Pass(r)
    /\ UNCHANGED <<process, redis, audit, history>>

Live(k) == now < keys[k]

\* Idem.Middleware: SETNX decides; a request without a key passes.  The
\* handler starts; what it does is the subject of the other modules.
Idem(r) ==
    LET k == req[r].q.key
        claim == IF k = None THEN None ELSE now
        s == Protect([req[r] EXCEPT !.claim = claim], Behind[req[r].q.route], "running")
    IN  /\ req[r].at = "idem"
        /\ IF k # None /\ Live(k) THEN Answer(r, 409) /\ UNCHANGED <<keys, runs>>
           ELSE /\ To(r, s)
                /\ keys' = IF k = None THEN keys ELSE [keys EXCEPT ![k] = now + KeyTTL]
                /\ runs' = IF k = None \/ s.at # "running" THEN runs
                           ELSE runs \union {[id |-> r, key |-> k, claim |-> now, end |-> None]}
        /\ UNCHANGED <<process, troubles, window, windowEnds, audit, passed>>

\* The answer of SETNX is an error, whether or not the key was set.
IdemFails(r) ==
    LET k == req[r].q.key
    IN  /\ req[r].at = "idem" /\ k # None /\ Trouble
        /\ keys' \in {keys, [keys EXCEPT ![k] = IF Live(k) THEN @ ELSE now + KeyTTL]}
        /\ Answer(r, 500)
        /\ UNCHANGED <<process, window, windowEnds, audit, history>>

\* Mutant: the row is written with the status the recorder starts with.
Record_NoStatus(r, status) == audit' = audit \union {[id |-> r, status |-> 200]}

\* internal/audit: InsertAuditLog with the status the handler wrote
Record(r, status) == audit' = audit \union {[id |-> r, status |-> status]}

\* It answers, one that needs a tenant with 400 without; then HTTPRecorder on
\* the administrators' routes, whose error is only logged.
Returns(r) ==
    /\ req[r].at = "running"
    /\ \E status \in IF Tenant(req[r].q) = None THEN {400} ELSE {200, 500} :
           IF req[r].q.route = "admin"
           THEN \/ Record(r, status) /\ Answer(r, status) /\ UNCHANGED troubles
                \/ /\ Trouble /\ UNCHANGED audit
                   /\ To(r, [Ending(req[r], status) EXCEPT !.audited = FALSE])
           ELSE Answer(r, status) /\ UNCHANGED <<audit, troubles>>
    /\ UNCHANGED <<process, redis, history>>

\* Mutant: the slot is given back only when the handler returns.
Panics_KeepsSlot(r) ==
    /\ req[r].at = "running" /\ Trouble
    /\ To(r, [req[r] EXCEPT !.at = "stuck", !.status = 500, !.audited = FALSE])
    /\ UNCHANGED <<process, redis, audit, history>>

\* A panic skips the audit; Recoverer answers 500 after the deferred calls.
Panics(r) ==
    /\ req[r].at = "running" /\ Trouble
    /\ To(r, [Ending(req[r], 500) EXCEPT !.audited = FALSE])
    /\ UNCHANGED <<process, redis, audit, history>>

Ended(r) == {IF x.id = r THEN [x EXCEPT !.end = now] ELSE x : x \in runs}

\* Mutant: the key is deleted when the request is over.
Renewed_Deleted(k) == [keys EXCEPT ![k] = 0]

\* Expire does nothing to a key that is gone.
Renewed(k) == [keys EXCEPT ![k] = IF Live(k) THEN now + KeyTTL ELSE @]

\* The deferred calls of a request that took a key: it is renewed, whatever
\* the outcome, and the slot freed.
Close(r) ==
    /\ req[r].at = "close"
    /\ \/ keys' = Renewed(req[r].q.key) /\ runs' = Ended(r) /\ UNCHANGED troubles
       \/ Trouble /\ UNCHANGED <<keys, runs>>
    /\ To(r, [req[r] EXCEPT !.at = "done"])
    /\ UNCHANGED <<process, window, windowEnds, audit, passed>>

----------------------------------------------------------------------------
\* SIGTERM: SetReady(false), then Shutdown stops the listener.
Sigterm ==
    /\ proc = "up" /\ Trouble
    /\ proc' = "draining" /\ signalled' = now
    /\ UNCHANGED <<now, slots, req, redis, audit, history>>

\* Mutant: only the requests that have a slot are waited for.
Drained_Inside == Inside = {} \/ now >= signalled + Grace

\* Shutdown returns when no connection is active or the grace is over.
Drained == Active = {} \/ now >= signalled + Grace

Exit ==
    /\ proc = "draining" /\ Drained
    /\ proc' = "down"
    /\ req' = [r \in Ids |-> IF r \in Active
                             THEN [req[r] EXCEPT !.at = "lost", !.late = now - signalled] ELSE req[r]]
    /\ UNCHANGED <<now, slots, troubles, signalled, redis, audit, history>>

\* health.Ready; a fresh process is ready once it serves.
Restart ==
    /\ proc = "down"
    /\ proc' = "up" /\ signalled' = None
    /\ UNCHANGED <<now, slots, troubles, req, redis, audit, history>>

\* Time passes, but not while a limiter's clock reading is too old.
Tick ==
    /\ now < MaxTime /\ now' = now + 1
    /\ \A r \in Ids : req[r].at = "limit" => now < req[r].t + MaxDelay
    /\ UNCHANGED <<troubles, slots, proc, signalled, req, redis, audit, history>>

Step(r) == Allow(r) \/ Idem(r) \/ Returns(r) \/ Close(r)
Fault(r) == Cancelled(r) \/ AllowFails(r) \/ IdemFails(r) \/ Panics(r)

Next ==
    \/ \E r \in Ids : (\E q \in Traffic : Arrive(r, q)) \/ Admit(r) \/ Step(r) \/ Fault(r)
    \/ Sigterm \/ Exit \/ Restart \/ Tick

\* Goroutines that can go on do, a channel serves its senders in turn, and
\* handlers return.
Spec ==
    /\ Init /\ [][Next]_vars
    /\ \A r \in Ids : WF_vars(Step(r)) /\ SF_vars(Admit(r))
    /\ WF_vars(Exit)

----------------------------------------------------------------------------
\* Types, and the semaphore (main.go:503-519): there are never more requests
\* behind it than HTTP_MAX_INFLIGHT, whatever waits, panics or is cancelled.
TypeOK ==
    /\ now \in 0..MaxTime /\ proc \in {"up", "draining", "down"}
    /\ Cardinality(Inside) <= slots
    /\ audit \subseteq [id : Ids, status : {200, 400, 500}]
    /\ \A e \in window : e.score <= now

\* Handlers do not run twice for one idempotency key: two requests with the
\* same key that ran took it at least the key's lifetime apart and, if the
\* first was over before its key ended, the second only a whole lifetime after
\* it was over.  Crashes, lost answers of Redis and restarts do not matter.
RunsApart ==
    \A x, y \in runs :
        x.id # y.id /\ x.key = y.key /\ x.claim <= y.claim =>
            /\ y.claim >= x.claim + KeyTTL
            /\ x.end # None /\ x.end < x.claim + KeyTTL => y.claim >= x.end + KeyTTL

\* However the clock readings and the pipelines of concurrent requests
\* interleave, the limiter lets through at most Max requests in any period of
\* its window less the longest delay between the two.
RateHolds ==
    \A from \in 0..MaxTime :
        Cardinality({p \in passed : p.at \in from..(from + Window - MaxDelay - 1)}) <= Max

\* The audit log has one row for every administrator's request whose handler
\* ran, with the status it was answered with, and none for one that was turned
\* away; only a panic or a failed insert loses the row.
AuditTrail ==
    \A r \in Ids :
        LET rows == {x \in audit : x.id = r}
        IN  /\ req[r].at = "done" /\ req[r].q.route = "admin" /\ req[r].audited
                  => (rows # {}) = (req[r].status \in {200, 400, 500})
            /\ \A x \in rows : req[r].q.route = "admin" /\ requireRole(req[r].q) /\ x.status = req[r].status

\* A request is cut off by the end of the process only when the whole grace
\* period has passed since the signal, wherever it was, waiting for a slot included.
GraceGiven == \A r \in Ids : req[r].at = "lost" => req[r].late >= Grace

\* Every request that arrived is answered, or cut off by the shutdown: slots
\* come back also from handlers that panic.
Answered == \A r \in Ids : req[r].at = "semaphore" ~> req[r].at \in {"done", "lost"}
=============================================================================
