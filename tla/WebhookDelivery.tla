--------------------------- MODULE WebhookDelivery ---------------------------
(***************************************************************************)
(* Outgoing webhooks: the event bus (internal/events), the scheduling of   *)
(* deliveries, the worker's handler with its distributed lock and replay   *)
(* guard, backoff and dead letters, and the administration of endpoints    *)
(* (internal/notify, internal/lock).                                       *)
(*                                                                         *)
(* Every Redis, Postgres or HTTP call is a step.  The task queue is        *)
(* reduced to what TaskQueue shows about it: a delivery's task is queued   *)
(* or claimed by a job, a claimed one comes back after the visibility      *)
(* timeout, and the deduplication key lives until the task is done.        *)
(* UNIQUE (endpoint_id, event_id) makes the pair the identity of a row.    *)
(***************************************************************************)
EXTENDS Integers, FiniteSets

CONSTANTS
    Endpoints, Events, Workers,
    Topic,          \* the topic of each event
    TopicLists,     \* topics of an endpoint request, as written by the client
    LowerTrim,      \* a written topic in lower case without blanks
    Enabled,        \* WEBHOOK_DELIVERY_ENABLED
    MaxAttempts,    \* WEBHOOK_DEFAULT_MAX_ATTEMPTS
    MailTopics,     \* topics that NOTIFY_EMAIL_TOPIC_... leaves on
    GuardOn,        \* WEBHOOK_REPLAY_TTL_SEC is positive
    EvalKnown,      \* the Redis server knows EVAL
    None,
    MaxUpdates,     \* bound: requests that administer endpoints and deliveries
    MaxTroubles     \* bound: failed calls, expiries, deaths and missed deadlines

Deliveries == Endpoints \X Events

ASSUME DeliveryConstants ==
    /\ MaxAttempts \in Int
    /\ GuardOn \in BOOLEAN
    /\ EvalKnown \in BOOLEAN
    /\ Enabled \in BOOLEAN
    /\ MaxTroubles \in Nat
    /\ MaxUpdates \in Nat
    /\ None \notin Workers \union Deliveries \union Endpoints

VARIABLES
    endpoint,       \* webhook_endpoints: state and normalised topics
    emit,           \* the Emit call of each event
    mailed,         \* events for which a mail was sent
    row,            \* webhook_deliveries
    dlq,            \* deliveries with a row in webhook_dlq
    queued,         \* deliveries with a task in the queue
    claimed,        \* tasks in the processing set, with the job that claimed them
    dedup,          \* deliveries whose deduplication key exists
    dead,           \* deliveries whose task is in queue_dlq
    job,            \* the job of each worker goroutine
    lock,           \* the token under lock:delivery:<id>
    guard,          \* deliveries whose replay key wh:<endpoint>:<event> exists
    replay,         \* the ReplayDelivery request in progress
    updates,
    \* History: workers whose lock expired while they were inside and how often
    \* that happened, how often each replay key went away, in which of those
    \* eras an endpoint answered 2xx, and the number of troubles.
    lapsed, lapses, era, acked, troubles

busVars == <<endpoint, emit, mailed>>
queueVars == <<queued, claimed, dedup, dead>>
guardVars == <<guard, era>>
lockVars == <<lock, lapsed, lapses>>
adminVars == <<replay, updates>>
vars == <<busVars, row, dlq, queueVars, job, lockVars, guardVars, adminVars, acked, troubles>>

NoRow == [status |-> "none", attempt |-> 0, due |-> TRUE, tried |-> FALSE]
Exists(d) == row[d].status # "none"

NoJob == [at |-> "idle", d |-> None, live |-> TRUE, attempt |-> 0, res |-> "nil", era |-> 0]

Trouble == troubles < MaxTroubles /\ troubles' = troubles + 1

Init ==
    /\ endpoint = [p \in Endpoints |-> [state |-> "none", topics |-> {}]]
    /\ emit = [e \in Events |-> [at |-> "none", todo |-> {}, now |-> None]]
    /\ mailed = {}
    /\ row = [d \in Deliveries |-> NoRow]
    /\ dlq = {}
    /\ queued = {} /\ claimed = {} /\ dedup = {} /\ dead = {}
    /\ job = [w \in Workers |-> NoJob]
    /\ lock = [d \in Deliveries |-> None]
    /\ lapsed = {} /\ lapses = 0
    /\ guard = {}
    /\ era = [d \in Deliveries |-> 0]
    /\ acked = [d \in Deliveries |-> {}]
    /\ replay = [at |-> "none", d |-> None]
    /\ updates = 0
    /\ troubles = 0

----------------------------------------------------------------------------
\* The statements of webhooks.sql.  An UPDATE of a row that is gone changes
\* nothing; deleting an endpoint takes its deliveries and their dead letters
\* with it (ON DELETE CASCADE).

Columns(active, ts) == [state |-> IF active THEN "active" ELSE "inactive", topics |-> ts]
CreateWebhookEndpoint(p, active, ts) == endpoint' = [endpoint EXCEPT ![p] = Columns(active, ts)]
UpdateWebhookEndpoint(p, active, ts) == endpoint' = [endpoint EXCEPT ![p] = Columns(active, ts)]
GetWebhookEndpoint(p) == endpoint[p]

DeleteWebhookEndpoint(p) ==
    /\ endpoint' = [endpoint EXCEPT ![p] = [state |-> "deleted", topics |-> {}]]
    /\ row' = [d \in Deliveries |-> IF d[1] = p THEN NoRow ELSE row[d]]
    /\ dlq' = {d \in dlq : d[1] # p}

ListActiveEndpointsForTopic(t) ==
    {p \in Endpoints : /\ endpoint[p].state = "active"
                       /\ endpoint[p].topics = {} \/ t \in endpoint[p].topics}

EnqueueDelivery(d) == row' = [row EXCEPT ![d] = [NoRow EXCEPT !.status = "PENDING"]]
GetDeliveryByID(d) == row[d]
UpdateDelivery(d, new) == row' = IF Exists(d) THEN [row EXCEPT ![d] = new] ELSE row

MarkDelivering(d) == UpdateDelivery(d, [row[d] EXCEPT !.status = "DELIVERING", !.tried = TRUE])
MarkDelivered(d) == UpdateDelivery(d, [row[d] EXCEPT !.status = "DELIVERED", !.due = TRUE])
MarkFailedWithBackoff(d) ==
    UpdateDelivery(d, [row[d] EXCEPT !.status = "FAILED", !.attempt = @ + 1, !.due = FALSE])
MoveToDLQ(d) == UpdateDelivery(d, [row[d] EXCEPT !.status = "DLQ", !.due = TRUE])
ResetDeliveryForReplay(d) ==
    UpdateDelivery(d, [row[d] EXCEPT !.status = "PENDING", !.attempt = 0, !.due = TRUE])

InsertWebhookDlq(d) == dlq' = IF Exists(d) THEN dlq \union {d} ELSE dlq
DeleteDlqByDelivery(d) == dlq' = dlq \ {d}

----------------------------------------------------------------------------
\* Administration of endpoints.  Requests with an invalid id, body or URL are
\* refused and change nothing.

normaliseTopics(ts) == {LowerTrim[t] : t \in ts} \ {""}

Update == updates < MaxUpdates /\ updates' = updates + 1

CreateEndpoint(p, active, ts) ==
    /\ endpoint[p].state = "none"
    /\ CreateWebhookEndpoint(p, active, normaliseTopics(ts))
    /\ UNCHANGED <<emit, mailed, row, dlq, queueVars, job, lockVars, guardVars, adminVars, acked, troubles>>

UpdateEndpoint(p, active, ts) ==
    /\ endpoint[p].state \in {"active", "inactive"}
    /\ Update
    /\ UpdateWebhookEndpoint(p, active, normaliseTopics(ts))
    /\ UNCHANGED <<emit, mailed, row, dlq, queueVars, job, lockVars, guardVars, replay, acked, troubles>>

DeleteEndpoint(p) ==
    /\ endpoint[p].state \in {"active", "inactive"}
    /\ Update
    /\ DeleteWebhookEndpoint(p)
    /\ UNCHANGED <<emit, mailed, queueVars, job, lockVars, guardVars, replay, acked, troubles>>

----------------------------------------------------------------------------
\* queue.Enqueuer.Enqueue: SETNX, and ZADD if the key was new.  A failed call
\* leaves nothing, or the key without a task.

Enqueue(d) ==
    /\ dedup' = dedup \union {d}
    /\ queued' = IF d \in dedup THEN queued ELSE queued \union {d}

EnqueueFails(d) ==
    /\ \/ UNCHANGED dedup
       \/ d \notin dedup /\ dedup' = dedup \union {d}
    /\ UNCHANGED queued

----------------------------------------------------------------------------
\* events.Bus.Emit, Dispatcher.Schedule and EmailNotifier.Notify for one event.

EmitAt(e, at, todo, now) == emit' = [emit EXCEPT ![e] = [at |-> at, todo |-> todo, now |-> now]]

\* InsertDomainEvent.
EmitInsert(e) ==
    /\ emit[e].at = "none"
    /\ EmitAt(e, IF Enabled THEN "list" ELSE "notify", {}, None)
    /\ UNCHANGED <<endpoint, mailed, row, dlq, queueVars, job, lockVars, guardVars, adminVars, acked, troubles>>

ScheduleList(e) ==
    /\ emit[e].at = "list"
    /\ LET found == ListActiveEndpointsForTopic(Topic[e])
       IN EmitAt(e, IF found = {} THEN "notify" ELSE "insert", found, None)
    /\ UNCHANGED <<endpoint, mailed, row, dlq, queueVars, job, lockVars, guardVars, adminVars, acked, troubles>>

\* What Emit does after an endpoint.
NextEndpoint(e, todo) == EmitAt(e, IF todo = {} THEN "notify" ELSE "insert", todo, None)

\* INSERT of the delivery.  A violated constraint (the endpoint is gone, the
\* row is there already) goes on with the next endpoint.
ScheduleInsert(e, p) ==
    /\ emit[e].at = "insert"
    /\ p \in emit[e].todo
    /\ IF endpoint[p].state = "deleted" \/ Exists(<<p, e>>)
       THEN NextEndpoint(e, emit[e].todo \ {p}) /\ UNCHANGED row
       ELSE /\ EnqueueDelivery(<<p, e>>)
            /\ EmitAt(e, "enqueue", emit[e].todo \ {p}, p)
    /\ UNCHANGED <<endpoint, mailed, dlq, queueVars, job, lockVars, guardVars, adminVars, acked, troubles>>

\* Mutant: the row is left to a poller.
ScheduleEnqueue_Skipped(e) ==
    /\ emit[e].at = "enqueue"
    /\ NextEndpoint(e, emit[e].todo)
    /\ UNCHANGED <<queueVars, endpoint, mailed, row, dlq, job, lockVars, guardVars, adminVars, acked, troubles>>

\* Dispatcher.EnqueueDelivery.
ScheduleEnqueue(e) ==
    /\ emit[e].at = "enqueue"
    /\ \/ Enqueue(<<emit[e].now, e>>) /\ UNCHANGED troubles
       \/ EnqueueFails(<<emit[e].now, e>>) /\ Trouble
    /\ NextEndpoint(e, emit[e].todo)
    /\ UNCHANGED <<claimed, dead, endpoint, mailed, row, dlq, job, lockVars, guardVars, adminVars, acked>>

\* EmailNotifier.Notify for a payload with a recipient.
Notify(e) ==
    /\ emit[e].at = "notify"
    /\ mailed' = IF Topic[e] \in MailTopics THEN mailed \union {e} ELSE mailed
    /\ EmitAt(e, "done", {}, None)
    /\ UNCHANGED <<endpoint, row, dlq, queueVars, job, lockVars, guardVars, adminVars, acked, troubles>>

\* A failed statement of Schedule (the next endpoint follows, or the notifiers).
EmitCallFails(e) ==
    /\ emit[e].at \in {"list", "insert"}
    /\ Trouble
    /\ IF emit[e].at = "list" THEN EmitAt(e, "notify", {}, None)
       ELSE \E p \in emit[e].todo : NextEndpoint(e, emit[e].todo \ {p})
    /\ UNCHANGED <<endpoint, mailed, row, dlq, queueVars, job, lockVars, guardVars, adminVars, acked>>

\* The process ends inside Emit, or before it (the caller had committed).
EmitterDies(e) ==
    /\ emit[e].at # "done"
    /\ Trouble
    /\ EmitAt(e, "done", {}, None)
    /\ UNCHANGED <<endpoint, mailed, row, dlq, queueVars, job, lockVars, guardVars, adminVars, acked>>

----------------------------------------------------------------------------
\* DeliveryWorker.Handle in a job of the queue.  A call with a context that is
\* done fails; any other call may.

Works(w) == job[w].live /\ UNCHANGED troubles
Fails(w) == IF job[w].live THEN Trouble ELSE UNCHANGED troubles

Go(w, at) == job' = [job EXCEPT ![w].at = at]
Finish(w, res) == job' = [job EXCEPT ![w].at = "release", ![w].res = res]

MaxAttempt == IF MaxAttempts <= 0 THEN 6 ELSE MaxAttempts

\* The job has the lock (or had it: see lapsed).
Inside(w) == job[w].at \notin {"idle", "lock", "return"}

\* The queue's worker claims a task.
Claim(w, d) ==
    /\ job[w].at = "idle"
    /\ d \in queued
    /\ queued' = queued \ {d}
    /\ claimed' = claimed \union {<<d, w>>}
    /\ job' = [job EXCEPT ![w] = [NoJob EXCEPT !.at = "lock", !.d = d]]
    /\ UNCHANGED <<busVars, row, dlq, dedup, dead, lockVars, guardVars, adminVars, acked, troubles>>

\* Locker.WithLock: SETNX with the job's token, again and again.
Acquire(w) ==
    /\ job[w].at = "lock"
    /\ lock[job[w].d] = None
    /\ Works(w)
    /\ lock' = [lock EXCEPT ![job[w].d] = w]
    /\ Go(w, "check")
    /\ UNCHANGED <<busVars, row, dlq, queueVars, lapsed, lapses, guardVars, adminVars, acked>>

\* SETNX fails, possibly after the key was set, or the context is done while
\* the job waits for the lock.
AcquireFails(w) ==
    /\ job[w].at = "lock"
    /\ Fails(w)
    /\ \/ UNCHANGED lock
       \/ job[w].live /\ lock[job[w].d] = None /\ lock' = [lock EXCEPT ![job[w].d] = w]
    /\ job' = [job EXCEPT ![w].at = "return", ![w].res = "err"]
    /\ UNCHANGED <<busVars, row, dlq, queueVars, lapsed, lapses, guardVars, adminVars, acked>>

\* GetDeliveryByID, twice: what the second one returns decides.
Check(w) ==
    /\ job[w].at = "check"
    /\ \/ /\ Works(w)
          /\ LET r == GetDeliveryByID(job[w].d)
             IN CASE r.status = "none" -> Finish(w, "err")
                  [] r.status \in {"DELIVERED", "DLQ"} -> Finish(w, "nil")
                  [] r.status \notin {"none", "DELIVERED", "DLQ"} /\ ~r.due -> Go(w, "requeue")
                  [] OTHER -> job' = [job EXCEPT ![w].at = "mark", ![w].attempt = r.attempt]
       \/ Fails(w) /\ Finish(w, "err")
    /\ UNCHANGED <<busVars, row, dlq, queueVars, lockVars, guardVars, adminVars, acked>>

\* processDelivery.
StartAttempt(w) ==
    /\ job[w].at = "mark"
    /\ \/ Works(w) /\ MarkDelivering(job[w].d) /\ Go(w, "load")
       \/ Fails(w) /\ Finish(w, "err") /\ UNCHANGED row
    /\ UNCHANGED <<busVars, dlq, queueVars, lockVars, guardVars, adminVars, acked>>

\* GetWebhookEndpoint and GetDomainEvent; an error goes to failDelivery.
Load(w) ==
    /\ job[w].at = "load"
    /\ \/ /\ Works(w)
          /\ Go(w, IF GetWebhookEndpoint(job[w].d[1]).state = "deleted" THEN "broken" ELSE "guard")
       \/ Fails(w) /\ Go(w, "broken")
    /\ UNCHANGED <<busVars, row, dlq, queueVars, lockVars, guardVars, adminVars, acked>>

\* Mutant: the answer of SETNX is ignored.
Guard_Ignored(w) ==
    /\ job[w].at = "guard"
    /\ \/ /\ Works(w)
          /\ guard' = guard \union {job[w].d}
          /\ job' = [job EXCEPT ![w].at = "post", ![w].era = era[job[w].d]]
       \/ Fails(w) /\ Go(w, "failed") /\ UNCHANGED guard
    /\ UNCHANGED <<busVars, row, dlq, queueVars, lockVars, era, adminVars, acked>>

\* RedisReplayProtector.
ReplayAcquire(d) == guard' = guard \union {d}
ReplayRelease(d) == guard' = guard \ {d}

\* deliver: a replay key that exists counts as a delivery.
Guard(w) ==
    /\ job[w].at = "guard"
    /\ \/ /\ Works(w)
          /\ IF GuardOn THEN ReplayAcquire(job[w].d) ELSE UNCHANGED guard
          /\ IF GuardOn /\ job[w].d \in guard
             THEN Go(w, "delivered")
             ELSE job' = [job EXCEPT ![w].at = "post", ![w].era = era[job[w].d]]
       \/ Fails(w) /\ Go(w, "failed") /\ UNCHANGED guard
    /\ UNCHANGED <<busVars, row, dlq, queueVars, lockVars, era, adminVars, acked>>

\* The request, through HTTPClient.Do: 2xx, or another answer, an open breaker,
\* or no answer.  A 2xx whose body cannot be read is a failed attempt too.
Post(w) ==
    /\ job[w].at = "post"
    /\ \E answer \in {"2xx", "2xx cut", "other"} :
          /\ answer = "2xx" => job[w].live
          /\ acked' = IF answer = "other" THEN acked
                      ELSE [acked EXCEPT ![job[w].d] = @ \union {job[w].era}]
          /\ Go(w, IF answer = "2xx" THEN "delivered" ELSE "failed")
          /\ IF answer = "2xx cut" THEN Fails(w) ELSE UNCHANGED troubles
    /\ UNCHANGED <<busVars, row, dlq, queueVars, lockVars, guardVars, adminVars>>

Delivered(w) ==
    /\ job[w].at = "delivered"
    /\ \/ Works(w) /\ MarkDelivered(job[w].d) /\ Finish(w, "nil")
       \/ Fails(w) /\ Finish(w, "err") /\ UNCHANGED row
    /\ UNCHANGED <<busVars, dlq, queueVars, lockVars, guardVars, adminVars, acked>>

\* Mutant: one attempt more before the dead letters.
LastAttempt_OneMore(w) == job[w].attempt >= MaxAttempt

LastAttempt(w) == job[w].attempt + 1 >= MaxAttempt

\* The row is not due before the delay of nextDelay has passed.
BackOff(w) ==
    /\ ~LastAttempt(w)
    /\ \/ Works(w) /\ MarkFailedWithBackoff(job[w].d) /\ Go(w, "requeue")
       \/ Fails(w) /\ Finish(w, "err") /\ UNCHANGED row

\* After a request that failed, the error of MoveToDLQ is ignored...
AttemptFails(w) ==
    /\ job[w].at = "failed"
    /\ \/ BackOff(w)
       \/ /\ LastAttempt(w)
          /\ (Works(w) /\ MoveToDLQ(job[w].d)) \/ (Fails(w) /\ UNCHANGED row)
          /\ Go(w, "dlq")
    /\ UNCHANGED <<busVars, dlq, queueVars, lockVars, guardVars, adminVars, acked>>

\* ...after an endpoint or event that cannot be read, it is returned.
failDelivery(w) ==
    /\ job[w].at = "broken"
    /\ \/ BackOff(w)
       \/ /\ LastAttempt(w)
          /\ \/ Works(w) /\ MoveToDLQ(job[w].d) /\ Go(w, "dlq")
             \/ Fails(w) /\ Finish(w, "err") /\ UNCHANGED row
    /\ UNCHANGED <<busVars, dlq, queueVars, lockVars, guardVars, adminVars, acked>>

\* The error of the insertion, a violated foreign key included, is ignored.
DeadLetter(w) ==
    /\ job[w].at = "dlq"
    /\ (Works(w) /\ InsertWebhookDlq(job[w].d)) \/ (Fails(w) /\ UNCHANGED dlq)
    /\ Finish(w, "nil")
    /\ UNCHANGED <<busVars, row, queueVars, lockVars, guardVars, adminVars, acked>>

\* EnqueueDelivery after a failed attempt, or for a row that is not due.
Requeue(w) ==
    /\ job[w].at = "requeue"
    /\ \/ Works(w) /\ Enqueue(job[w].d) /\ Finish(w, "nil")
       \/ Fails(w) /\ EnqueueFails(job[w].d) /\ Finish(w, "err")
    /\ UNCHANGED <<claimed, dead, busVars, row, dlq, lockVars, guardVars, adminVars, acked>>

\* Mutant: DEL without comparing the token.
release_AnyToken(w) ==
    /\ job[w].at = "release"
    /\ lock' = [lock EXCEPT ![job[w].d] = None]
    /\ Go(w, "return")
    /\ lapsed' = lapsed \ {w}
    /\ UNCHANGED <<lapses, busVars, row, dlq, queueVars, guardVars, adminVars, acked, troubles>>

\* Locker.release, with a context of its own: the key goes if it still holds
\* the job's token.  If the call fails, the key stays until it expires.
release(w) ==
    /\ job[w].at = "release"
    /\ \/ /\ lock' = IF lock[job[w].d] = w \/ ~EvalKnown
                      THEN [lock EXCEPT ![job[w].d] = None] ELSE lock
          /\ UNCHANGED troubles
       \/ Trouble /\ UNCHANGED lock
    /\ Go(w, "return")
    /\ lapsed' = lapsed \ {w}
    /\ UNCHANGED <<lapses, busVars, row, dlq, queueVars, guardVars, adminVars, acked>>

\* The queue's ack or handleFailure, which use the job's context: a retry, a
\* dead letter after the last attempt, or nothing at all.
Return(w) ==
    /\ job[w].at = "return"
    /\ LET d == job[w].d
       IN IF ~job[w].live THEN UNCHANGED queueVars
          ELSE /\ claimed' = claimed \ {<<d, w>>}
               /\ \/ job[w].res = "nil" /\ dedup' = dedup \ {d} /\ UNCHANGED <<queued, dead>>
                  \/ job[w].res = "err" /\ queued' = queued \union {d} /\ UNCHANGED <<dedup, dead>>
                  \/ job[w].res = "err" /\ dead' = dead \union {d} /\ dedup' = dedup \ {d} /\ UNCHANGED queued
    /\ job' = [job EXCEPT ![w] = NoJob]
    /\ UNCHANGED <<busVars, row, dlq, lockVars, guardVars, adminVars, acked, troubles>>

\* The soft deadline of the job: while it waits for a lock that another one
\* holds, or in the middle of its work.
Deadline(w) ==
    /\ job[w].at # "idle" /\ job[w].live
    /\ job' = [job EXCEPT ![w].live = FALSE]
    /\ IF job[w].at = "lock" /\ lock[job[w].d] # None THEN UNCHANGED troubles ELSE Trouble
    /\ UNCHANGED <<busVars, row, dlq, queueVars, lockVars, guardVars, adminVars, acked>>

\* The worker process ends in the middle of the job.
Die(w) ==
    /\ job[w].at # "idle"
    /\ Trouble
    /\ job' = [job EXCEPT ![w] = NoJob]
    /\ lapsed' = lapsed \ {w}
    /\ UNCHANGED <<lapses, busVars, row, dlq, queueVars, lock, guardVars, adminVars, acked>>

----------------------------------------------------------------------------
\* Time.

InTime(w, d) == job[w].d = d /\ job[w].live

\* The visibility timeout of a claimed task.
Redeliver(d, w) ==
    /\ <<d, w>> \in claimed
    /\ claimed' = claimed \ {<<d, w>>}
    /\ queued' = queued \union {d}
    /\ IF InTime(w, d) THEN Trouble ELSE UNCHANGED troubles
    /\ UNCHANGED <<busVars, row, dlq, dedup, dead, job, lockVars, guardVars, adminVars, acked>>

BackoffPasses(d) ==
    /\ Exists(d) /\ ~row[d].due
    /\ row' = [row EXCEPT ![d].due = TRUE]
    /\ UNCHANGED <<busVars, dlq, queueVars, job, lockVars, guardVars, adminVars, acked, troubles>>

\* The time to live of the lock, the replay key and the deduplication key.

\* Mutant: SET without a time to live.
LockExpires_NoTTL(d) == d \notin Deliveries /\ UNCHANGED vars

LockExpires(d) ==
    /\ lock[d] # None
    /\ lock' = [lock EXCEPT ![d] = None]
    /\ IF job[lock[d]].d = d /\ Inside(lock[d])
       THEN Trouble /\ lapsed' = lapsed \union {lock[d]} /\ lapses' = lapses + 1
       ELSE UNCHANGED <<lapsed, lapses, troubles>>
    /\ UNCHANGED <<busVars, row, dlq, queueVars, job, guardVars, adminVars, acked>>

GuardExpires(d) ==
    /\ d \in guard
    /\ Trouble
    /\ guard' = guard \ {d}
    /\ era' = [era EXCEPT ![d] = @ + 1]
    /\ UNCHANGED <<busVars, row, dlq, queueVars, job, lockVars, adminVars, acked>>

DedupExpires(d) ==
    /\ d \in dedup
    /\ Trouble
    /\ dedup' = dedup \ {d}
    /\ UNCHANGED <<busVars, row, dlq, queued, claimed, dead, job, lockVars, guardVars, adminVars, acked>>

----------------------------------------------------------------------------
\* AdminHandler.ReplayDelivery: three statements, the errors of the last two
\* ignored; and the replay of a dead letter of the queue.

ReplayReset(d) ==
    /\ replay.at = "none"
    /\ Exists(d)
    /\ Update
    /\ ResetDeliveryForReplay(d)
    /\ replay' = [at |-> "dlq", d |-> d]
    /\ UNCHANGED <<busVars, dlq, queueVars, job, lockVars, guardVars, acked, troubles>>

ReplayDeleteDlq ==
    /\ replay.at = "dlq"
    /\ \/ DeleteDlqByDelivery(replay.d) /\ UNCHANGED troubles
       \/ Trouble /\ UNCHANGED dlq
    /\ replay' = [replay EXCEPT !.at = "guard"]
    /\ UNCHANGED <<busVars, row, queueVars, job, lockVars, guardVars, updates, acked>>

ReplayUnguard ==
    /\ replay.at = "guard"
    /\ \/ /\ ReplayRelease(replay.d)
          /\ era' = [era EXCEPT ![replay.d] = IF replay.d \in guard THEN @ + 1 ELSE @]
          /\ UNCHANGED troubles
       \/ Trouble /\ UNCHANGED guardVars
    /\ replay' = [at |-> "none", d |-> None]
    /\ UNCHANGED <<busVars, row, dlq, queueVars, job, lockVars, updates, acked>>

ReplayTask(d) ==
    /\ d \in dead
    /\ Update
    /\ Enqueue(d)
    /\ dead' = dead \ {d}
    /\ UNCHANGED <<busVars, row, dlq, claimed, job, lockVars, guardVars, replay, acked, troubles>>

----------------------------------------------------------------------------
EmitStep(e) ==
    \/ EmitInsert(e) \/ ScheduleList(e) \/ ScheduleEnqueue(e) \/ Notify(e)
    \/ \E p \in Endpoints : ScheduleInsert(e, p)

JobStep(w) ==
    \/ Acquire(w) \/ AcquireFails(w) \/ Check(w) \/ StartAttempt(w) \/ Load(w) \/ Guard(w)
    \/ Post(w) \/ Delivered(w) \/ AttemptFails(w) \/ failDelivery(w) \/ DeadLetter(w)
    \/ Requeue(w) \/ release(w) \/ Return(w)

Admin ==
    \/ \E p \in Endpoints, active \in BOOLEAN, ts \in TopicLists :
           CreateEndpoint(p, active, ts) \/ UpdateEndpoint(p, active, ts)
    \/ \E p \in Endpoints : DeleteEndpoint(p)
    \/ \E d \in Deliveries : ReplayReset(d) \/ ReplayTask(d)
    \/ ReplayDeleteDlq \/ ReplayUnguard

Next ==
    \/ Admin
    \/ \E e \in Events : EmitStep(e) \/ EmitCallFails(e) \/ EmitterDies(e)
    \/ \E w \in Workers : JobStep(w) \/ Deadline(w) \/ Die(w)
    \/ \E d \in Deliveries :
           \/ BackoffPasses(d) \/ LockExpires(d) \/ GuardExpires(d) \/ DedupExpires(d)
           \/ \E w \in Workers : Claim(w, d) \/ Redeliver(d, w)

Spec == Init /\ [][Next]_vars

\* Calls return, the workers of the queue poll it, and time passes.
FairSpec ==
    /\ Spec
    /\ \A e \in Events : WF_vars(EmitStep(e) /\ emit[e].at # "none")
    /\ \A w \in Workers :
          /\ WF_vars(JobStep(w))
          /\ \A d \in Deliveries : WF_vars(Claim(w, d)) /\ WF_vars(Redeliver(d, w))
    /\ \A d \in Deliveries :
          /\ WF_vars(BackoffPasses(d))
          /\ WF_vars(LockExpires(d) /\ ~(job[lock[d]].d = d /\ Inside(lock[d])))

----------------------------------------------------------------------------
(* WithLock around the handler: two jobs work on one delivery only if the    *)
(* lock of one of them has expired under it, whatever is redelivered, dies   *)
(* or is released late (redislock.go:22, webhook_worker.go:39).              *)
OneAtATime ==
    EvalKnown => \A v, w \in Workers :
        v # w /\ Inside(v) /\ Inside(w) /\ job[v].d = job[w].d => v \in lapsed \/ w \in lapsed

(* The replay guard: as long as its key stays, one event is answered with    *)
(* 2xx by an endpoint at most once, even by jobs that run at the same time   *)
(* (webhook.go:278): a job about to post is alone in its era, and nobody     *)
(* has been answered in it.                                                  *)
PostedOnce ==
    GuardOn => \A w \in Workers : job[w].at = "post" =>
        /\ job[w].era \notin acked[job[w].d]
        /\ \A v \in Workers \ {w} :
               job[v].at = "post" /\ job[v].d = job[w].d => job[v].era # job[w].era

(* The attempts of a delivery stay below its maximum, except that every lock *)
(* that expires under its job may add one (two jobs then count on the same   *)
(* row): redeliveries, deaths and replays add none (webhook.go:174,          *)
(* MarkFailedWithBackoff).                                                   *)
AttemptsBounded == EvalKnown => \A d \in Deliveries : row[d].attempt < MaxAttempt + lapses

InHand(d) ==
    \/ d \in queued
    \/ emit[d[2]].at = "enqueue" /\ emit[d[2]].now = d[1]
    \/ \E w \in Workers : job[w].at # "idle" /\ job[w].d = d

(* Schedule: unless something fails, a delivery that no job has tried yet is *)
(* on its way to one (webhook.go:58-81), however often endpoints change,     *)
(* rows are reset and events are emitted at the same time.                   *)
ScheduledIsTried == troubles = 0 => \A d \in Deliveries : Exists(d) /\ ~row[d].tried => InHand(d)

(* WithLock behaves as a lease (redislock.go): one owner at a time, a key    *)
(* goes only when its owner gives it back or its time is over, and a job     *)
(* whose lease expired takes the key from nobody.                            *)
LockLease == INSTANCE Lease WITH
    Keys <- Deliveries, Clients <- Workers, owner <- lock,
    inside <- [w \in Workers |-> IF Inside(w) THEN job[w].d ELSE None], overdue <- lapsed
ImplementsLease == LockLease!Spec

(* A lock is given back, on every path through the handler, or expires when *)
(* its worker died or could not reach Redis (redislock.go:38-54): no         *)
(* delivery stays locked for ever.                                           *)
LocksAreFreed == \A d \in Deliveries : lock[d] # None ~> lock[d] = None

(* "DeliverByID processes a single delivery, re-enqueuing it when backoff    *)
(* applies" (webhook.go:109): a failed delivery is attempted again.          *)
FailedIsRetried == \A d \in Deliveries : row[d].status = "FAILED" ~> row[d].status # "FAILED"

============================================================================
