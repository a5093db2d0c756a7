----------------------------- MODULE TaskQueue -----------------------------
(***************************************************************************)
(* The Redis queue of one task kind (internal/queue): Enqueue with its     *)
(* deduplication key, the worker processes (Run and its job goroutines),   *)
(* redelivery after the visibility timeout, retries, dead letters and      *)
(* their replay.                                                           *)
(*                                                                         *)
(* Every Redis or Postgres call is one step.  A member of a sorted set is  *)
(* a message: its JSON text differs from every other one by the time stamp *)
(* available_at, so the stamp is its identity.  Time is reduced to what    *)
(* the code compares: a queued message is due or not, a claimed one is     *)
(* late or not.                                                            *)
(***************************************************************************)
EXTENDS Integers, FiniteSets

CONSTANTS
    Keys,           \* idempotency keys; every caller of Enqueue passes one
    Workers,        \* worker processes of this kind
    Clients,        \* requests that enqueue a task or replay a dead letter
    Stamps,         \* values of available_at that can be live at once
    MaxAttempts,    \* max_attempts of every task
    Concurrency,    \* concurrent jobs of a worker process
    MaxRequests,    \* bound: requests of clients
    MaxTroubles     \* bound: see troubles below

ASSUME QueueConstants ==
    /\ MaxAttempts \in Nat \ {0}
    /\ Concurrency \in Nat \ {0}
    /\ MaxRequests \in Nat
    /\ MaxTroubles \in Nat

\* taskMessage: the fields the queue itself reads.
Messages == [key : Keys, attempt : Nat, stamp : Stamps]

VARIABLES
    queue,          \* the sorted set queue:<kind>
    due,            \* its members whose available_at has passed
    processing,     \* the sorted set queue:<kind>:processing
    late,           \* its members whose visibility deadline has passed
    dedup,          \* keys whose deduplication key exists
    dlq,            \* rows of queue_dlq
    call,           \* the Enqueue or replay request of a client
    at,             \* where the loop of a worker is
    ctx,            \* the context its Redis calls use
    hand,           \* the message it holds between two calls ({} or one)
    expired,        \* what its requeueExpired still has to redeliver
    jobs,           \* job goroutines of all workers
    requests,       \* requests of clients so far
    \* History: keys of tasks accepted and not done yet, except those that a
    \* failure hit while they were in no store (Drop), and the number of
    \* crashes, stops, failed calls and missed deadlines so far.
    owed,
    troubles

clientVars == <<call, requests>>
loopVars == <<at, ctx, hand, expired>>
storeVars == <<queue, due, processing, late, dedup, dlq>>
vars == <<storeVars, clientVars, loopVars, jobs, owed, troubles>>

Positions == {"poll", "popped", "notdue", "wait", "requeue", "readd", "down"}
JobSteps == {"run", "ackRem", "ackDel", "rem", "retry", "dlq", "del"}
Jobs == [w : Workers, msg : Messages, step : JobSteps, live : BOOLEAN, waited : BOOLEAN]
Calls == [step : {"idle", "setnx", "add", "delete", "dropped"}, key : Keys,
          attempt : Nat, entry : SUBSET Messages]

Trouble == troubles < MaxTroubles /\ troubles' = troubles + 1

UsedStamps ==
    {m.stamp : m \in queue \union processing \union dlq \union {j.msg : j \in jobs}
                     \union (UNION {hand[w] \union expired[w] : w \in Workers})
                     \union (UNION {call[c].entry : c \in Clients})}
StampFree == \E s \in Stamps : s \notin UsedStamps
NewStamp == CHOOSE s \in Stamps : s \notin UsedStamps
Message(k, n) == [key |-> k, attempt |-> n, stamp |-> NewStamp]

JobsOf(w) == {j \in jobs : j.w = w}

\* Messages that the process of w has taken out of one place and not yet put
\* into the next.
Between(w) ==
    (IF at[w] \in {"popped", "notdue", "readd"} THEN hand[w] ELSE {})
        \union {j.msg : j \in {i \in JobsOf(w) : i.step \in {"retry", "dlq"}}}

\* A failure hits the messages M in between: those still in processing are
\* redelivered, the others are lost.
Drop(M) == owed' = owed \ {m.key : m \in M \ processing}

----------------------------------------------------------------------------
\* Enqueuer.Enqueue, and requeueEntry around it.

Idle(c) == [call[c] EXCEPT !.step = "idle", !.attempt = 0, !.entry = {}]

EnqueueStart(c, k) ==
    /\ call[c].step = "idle"
    /\ requests < MaxRequests
    /\ requests' = requests + 1
    /\ call' = [call EXCEPT ![c] = [step |-> "setnx", key |-> k, attempt |-> 0, entry |-> {}]]
    /\ UNCHANGED <<storeVars, loopVars, jobs, owed, troubles>>

\* The replayed task has one attempt less.
ReplayAttempt(e) == IF e.attempt > 0 THEN e.attempt - 1 ELSE 0

\* ReplayDLQ reads an entry.
ReplayStart(c, e) ==
    /\ call[c].step = "idle"
    /\ e \in dlq
    /\ requests < MaxRequests
    /\ requests' = requests + 1
    /\ call' = [call EXCEPT ![c] =
                  [step |-> "setnx", key |-> e.key, attempt |-> ReplayAttempt(e), entry |-> {e}]]
    /\ UNCHANGED <<storeVars, loopVars, jobs, owed, troubles>>

\* Mutant: the answer of SETNX is ignored.
EnqueueSetNX_Unchecked(c) ==
    /\ call[c].step = "setnx"
    /\ dedup' = dedup \union {call[c].key}
    /\ call' = [call EXCEPT ![c].step = "add"]
    /\ UNCHANGED <<queue, due, processing, late, dlq, loopVars, requests, jobs, owed, troubles>>

\* SETNX; a key that exists makes Enqueue return nil without a task.
EnqueueSetNX(c) ==
    /\ call[c].step = "setnx"
    /\ \/ /\ call[c].key \notin dedup
          /\ dedup' = dedup \union {call[c].key}
          /\ call' = [call EXCEPT ![c].step = "add"]
       \/ /\ call[c].key \in dedup
          /\ UNCHANGED dedup
          /\ call' = [call EXCEPT ![c] = IF @.entry = {} THEN Idle(c)
                                         ELSE [@ EXCEPT !.step = "dropped"]]
    /\ UNCHANGED <<queue, due, processing, late, dlq, loopVars, requests, jobs, owed, troubles>>

\* ZADD of the task; only a producer passes a delay.
EnqueueAdd(c) ==
    /\ call[c].step = "add"
    /\ StampFree
    /\ LET m == Message(call[c].key, call[c].attempt) IN
         /\ queue' = queue \union {m}
         /\ \/ due' = due \union {m}
            \/ call[c].entry = {} /\ UNCHANGED due
    /\ owed' = owed \union {call[c].key}
    /\ call' = [call EXCEPT ![c] = IF @.entry = {} THEN Idle(c) ELSE [@ EXCEPT !.step = "delete"]]
    /\ UNCHANGED <<processing, late, dedup, dlq, loopVars, requests, jobs, troubles>>

\* DeleteQueueDlq, which also follows an Enqueue that added nothing.
DeleteEntry(c) ==
    /\ call[c].step \in {"delete", "dropped"}
    /\ dlq' = dlq \ call[c].entry
    /\ owed' = IF call[c].step = "dropped" THEN owed \ {call[c].key} ELSE owed
    /\ call' = [call EXCEPT ![c] = Idle(c)]
    /\ UNCHANGED <<queue, due, processing, late, dedup, loopVars, requests, jobs, troubles>>

\* Any of these calls fails, or the process dies before the next one.
CallFails(c) ==
    /\ call[c].step # "idle"
    /\ Trouble
    /\ call' = [call EXCEPT ![c] = Idle(c)]
    /\ UNCHANGED <<storeVars, loopVars, requests, jobs, owed>>

----------------------------------------------------------------------------
\* The loop of Worker.Run.

Live(w) == ctx[w] # "cancelled"

Step(w, p, h) ==
    /\ at' = [at EXCEPT ![w] = p]
    /\ hand' = [hand EXCEPT ![w] = h]

\* The process of w ends with everything in its memory.
Exit(w) ==
    /\ at' = [at EXCEPT ![w] = "down"]
    /\ hand' = [hand EXCEPT ![w] = {}]
    /\ expired' = [expired EXCEPT ![w] = {}]
    /\ jobs' = jobs \ JobsOf(w)
    /\ Drop(Between(w))
    /\ UNCHANGED <<storeVars, clientVars, ctx>>

\* ZPOPMIN: a due message if there is one.
Pop(w) ==
    /\ at[w] = "poll"
    /\ Live(w)
    /\ \E m \in IF due = {} THEN queue ELSE due :
         /\ queue' = queue \ {m}
         /\ due' = due \ {m}
         /\ Step(w, IF m \in due THEN "popped" ELSE "notdue", {m})
    /\ UNCHANGED <<processing, late, dedup, dlq, clientVars, ctx, expired, jobs, owed, troubles>>

\* A message that is not due goes back; the error of this ZADD is ignored.
PushBack(w) ==
    /\ at[w] = "notdue"
    /\ Step(w, "poll", {})
    /\ \/ /\ Live(w)
          /\ queue' = queue \union hand[w]
          /\ UNCHANGED <<owed, troubles>>
       \/ /\ IF Live(w) THEN Trouble ELSE UNCHANGED troubles
          /\ Drop(hand[w])
          /\ UNCHANGED queue
    /\ UNCHANGED <<due, processing, late, dedup, dlq, clientVars, ctx, expired, jobs>>

Claimed(w) == {[m EXCEPT !.attempt = @ + 1] : m \in hand[w]}

NewJob(w, m, waited) ==
    [w |-> w, msg |-> m, step |-> "run", live |-> Live(w), waited |-> waited]

\* Mutant: the job starts without an entry in the processing set.
Claim_Unrecorded(w) ==
    /\ at[w] = "popped"
    /\ Live(w)
    /\ Cardinality(JobsOf(w)) < Concurrency
    /\ jobs' = jobs \union {NewJob(w, m, FALSE) : m \in Claimed(w)}
    /\ Step(w, "poll", {})
    /\ UNCHANGED <<storeVars, clientVars, ctx, expired, owed, troubles>>

\* ZADD to the processing set, which starts the visibility timeout, and then the
\* semaphore: if it is free the job starts at once, otherwise the loop waits.
Claim(w) ==
    /\ at[w] = "popped"
    /\ Live(w)
    /\ processing' = processing \union Claimed(w)
    /\ IF Cardinality(JobsOf(w)) < Concurrency
       THEN /\ jobs' = jobs \union {NewJob(w, m, FALSE) : m \in Claimed(w)}
            /\ Step(w, "poll", {})
       ELSE /\ Step(w, "wait", Claimed(w))
            /\ UNCHANGED jobs
    /\ UNCHANGED <<queue, due, late, dedup, dlq, clientVars, ctx, expired, owed, troubles>>

\* An error of that ZADD ends Run, and the process, without waiting for the jobs.
ClaimFails(w) ==
    /\ at[w] = "popped"
    /\ IF Live(w) THEN Trouble ELSE UNCHANGED troubles
    /\ Exit(w)

\* A job has returned and the waiting one starts.
Spawn(w) ==
    /\ at[w] = "wait"
    /\ Cardinality(JobsOf(w)) < Concurrency
    /\ jobs' = jobs \union {NewJob(w, m, TRUE) : m \in hand[w]}
    /\ Step(w, "poll", {})
    /\ UNCHANGED <<storeVars, clientVars, ctx, expired, owed, troubles>>

\* requeueExpired reads the late members when its ticker fires, and once more,
\* with a fresh context, when the worker has stopped and its jobs have returned.
RequeueStart(w) ==
    /\ at[w] = "poll"
    /\ late # {}
    /\ Live(w)
    /\ at' = [at EXCEPT ![w] = "requeue"]
    /\ expired' = [expired EXCEPT ![w] = late]
    /\ UNCHANGED <<storeVars, clientVars, ctx, hand, jobs, owed, troubles>>

Drain(w) ==
    /\ at[w] = "poll"
    /\ ctx[w] = "cancelled"
    /\ JobsOf(w) = {}
    /\ ctx' = [ctx EXCEPT ![w] = "background"]
    /\ at' = [at EXCEPT ![w] = "requeue"]
    /\ expired' = [expired EXCEPT ![w] = late]
    /\ UNCHANGED <<storeVars, clientVars, hand, jobs, owed, troubles>>

\* ZREM of one of them, whoever removed it before; errors are ignored.
RequeueRem(w) ==
    /\ at[w] = "requeue"
    /\ \E m \in expired[w] :
         /\ expired' = [expired EXCEPT ![w] = @ \ {m}]
         /\ Step(w, "readd", {m})
         /\ \/ /\ Live(w)
               /\ processing' = processing \ {m}
               /\ late' = late \ {m}
               /\ UNCHANGED troubles
            \/ /\ IF Live(w) THEN Trouble ELSE UNCHANGED troubles
               /\ UNCHANGED <<processing, late>>
    /\ UNCHANGED <<queue, due, dedup, dlq, clientVars, ctx, jobs, owed>>

\* Mutant: what was late is removed and forgotten.
RequeueAdd_Forgets(w) ==
    /\ at[w] = "readd"
    /\ Step(w, "requeue", {})
    /\ UNCHANGED <<storeVars, clientVars, ctx, expired, jobs, owed, troubles>>

\* ZADD of the message, with the same attempt and a new time.
RequeueAdd(w) ==
    /\ at[w] = "readd"
    /\ Step(w, "requeue", {})
    /\ \/ /\ Live(w)
          /\ StampFree
          /\ LET M == {Message(m.key, m.attempt) : m \in hand[w]} IN
               /\ queue' = queue \union M
               /\ due' = due \union M
          /\ UNCHANGED <<owed, troubles>>
       \/ /\ IF Live(w) THEN Trouble ELSE UNCHANGED troubles
          /\ Drop(hand[w])
          /\ UNCHANGED <<queue, due>>
    /\ UNCHANGED <<processing, late, dedup, dlq, clientVars, ctx, expired, jobs>>

\* Back to the poll, or the end of the process if this was the drain.
RequeueDone(w) ==
    /\ at[w] = "requeue"
    /\ expired[w] = {}
    /\ at' = [at EXCEPT ![w] = IF ctx[w] = "background" THEN "down" ELSE "poll"]
    /\ UNCHANGED <<storeVars, clientVars, ctx, hand, expired, jobs, owed, troubles>>

\* SIGTERM cancels the context of the loop and of its jobs.
Stop(w) ==
    /\ at[w] # "down"
    /\ ctx[w] = "live"
    /\ Trouble
    /\ ctx' = [ctx EXCEPT ![w] = "cancelled"]
    /\ jobs' = {IF j.w = w THEN [j EXCEPT !.live = FALSE] ELSE j : j \in jobs}
    /\ UNCHANGED <<storeVars, clientVars, at, hand, expired, owed>>

\* A ZPOPMIN with the cancelled context ends Run without waiting for the jobs.
PopCancelled(w) ==
    /\ at[w] = "poll"
    /\ ctx[w] = "cancelled"
    /\ Exit(w)
    /\ UNCHANGED troubles

Crash(w) ==
    /\ at[w] # "down"
    /\ Trouble
    /\ Exit(w)

Restart(w) ==
    /\ at[w] = "down"
    /\ at' = [at EXCEPT ![w] = "poll"]
    /\ ctx' = [ctx EXCEPT ![w] = "live"]
    /\ UNCHANGED <<storeVars, clientVars, hand, expired, jobs, owed, troubles>>

----------------------------------------------------------------------------
\* The goroutine of a job: Handler, then ack or handleFailure.

Moved(j, s) == jobs' = (jobs \ {j}) \union {[j EXCEPT !.step = s]}
Ended(j) == jobs' = jobs \ {j}

HandlerReturns(j) ==
    /\ j.step = "run"
    /\ \/ Moved(j, "ackRem") /\ owed' = owed \ {j.msg.key}
       \/ Moved(j, "rem") /\ UNCHANGED owed
    /\ UNCHANGED <<storeVars, clientVars, loopVars, troubles>>

\* Mutant: one attempt too many before the dead-letter queue.
Following_OneMore(j) ==
    CASE j.step = "ackRem" -> "ackDel"
      [] j.step = "rem" -> IF j.msg.attempt > MaxAttempts THEN "dlq" ELSE "retry"
      [] j.step = "dlq" -> "del"
      [] OTHER -> "end"

\* The call that a job makes after the one it is at.
Following(j) ==
    CASE j.step = "ackRem" -> "ackDel"
      [] j.step = "rem" -> IF j.msg.attempt >= MaxAttempts THEN "dlq" ELSE "retry"
      [] j.step = "dlq" -> "del"
      [] OTHER -> "end"

Advance(j) == IF Following(j) = "end" THEN Ended(j) ELSE Moved(j, Following(j))

\* ZREM from the processing set, for success and failure alike.
Remove(j) ==
    /\ j.step \in {"ackRem", "rem"}
    /\ processing' = processing \ {j.msg}
    /\ late' = late \ {j.msg}
    /\ UNCHANGED <<queue, due, dedup, dlq>>

\* ZADD of the retry, due after the backoff.
Retry(j) ==
    /\ j.step = "retry"
    /\ StampFree
    /\ queue' = queue \union {Message(j.msg.key, j.msg.attempt)}
    /\ UNCHANGED <<due, processing, late, dedup, dlq>>

\* pushToDLQ.
PushToDLQ(j) ==
    /\ j.step = "dlq"
    /\ dlq' = dlq \union {j.msg}
    /\ UNCHANGED <<queue, due, processing, late, dedup>>

\* DEL of the deduplication key.
Release(j) ==
    /\ j.step \in {"ackDel", "del"}
    /\ dedup' = dedup \ {j.msg.key}
    /\ UNCHANGED <<queue, due, processing, late, dlq>>

JobCall(j) ==
    /\ j.live
    /\ Remove(j) \/ Retry(j) \/ PushToDLQ(j) \/ Release(j)
    /\ Advance(j)
    /\ UNCHANGED <<clientVars, loopVars, owed, troubles>>

\* A call that fails; the code goes on with the next one.
JobCallFails(j) ==
    /\ j.live
    /\ j.step # "run"
    /\ Trouble
    /\ Advance(j)
    /\ IF j.step \in {"retry", "dlq"} THEN Drop({j.msg}) ELSE UNCHANGED owed
    /\ UNCHANGED <<storeVars, clientVars, loopVars>>

\* Once the context of a job is done its calls have no effect: nothing happens
\* until it ends.
JobEnds(j) ==
    /\ ~j.live
    /\ j.step # "run"
    /\ Ended(j)
    /\ IF j.step \in {"retry", "dlq"} THEN Drop({j.msg}) ELSE UNCHANGED owed
    /\ UNCHANGED <<storeVars, clientVars, loopVars, troubles>>

SoftDeadline(j) ==
    /\ j.live
    /\ Trouble
    /\ jobs' = (jobs \ {j}) \union {[j EXCEPT !.live = FALSE]}
    /\ UNCHANGED <<storeVars, clientVars, loopVars, owed>>

----------------------------------------------------------------------------
\* Time.

BecomesDue(m) ==
    /\ m \in queue \ due
    /\ due' = due \union {m}
    /\ UNCHANGED <<queue, processing, late, dedup, dlq, clientVars, loopVars, jobs, owed, troubles>>

Expire(m) ==
    /\ m \in processing \ late
    /\ late' = late \union {m}
    /\ UNCHANGED <<queue, due, processing, dedup, dlq, clientVars, loopVars, jobs, owed>>

Waiting(m) == \E w \in Workers : at[w] = "wait" /\ m \in hand[w]
RunningWith(m) == {j \in jobs : j.msg = m /\ j.live}

\* The visibility timeout of a claimed message passes.  The soft deadline is
\* shorter, so its job, if there was one, is dead or has a context that is done.
VisibilityElapsed(m) ==
    /\ Expire(m)
    /\ ~Waiting(m)
    /\ RunningWith(m) = {}
    /\ UNCHANGED troubles

\* The timeout runs while the loop waits for the semaphore, the soft deadline
\* only after: the timeout may pass before or during a job that is in time.
VisibilityTooShort(m) ==
    /\ Expire(m)
    /\ Waiting(m) \/ \E j \in RunningWith(m) : j.waited
    /\ Trouble

DedupExpires(k) ==
    /\ k \in dedup
    /\ Trouble
    /\ dedup' = dedup \ {k}
    /\ UNCHANGED <<queue, due, processing, late, dlq, clientVars, loopVars, jobs, owed>>

----------------------------------------------------------------------------
Init ==
    /\ queue = {} /\ due = {} /\ processing = {} /\ late = {} /\ dedup = {} /\ dlq = {}
    /\ call \in [Clients -> {[step |-> "idle", key |-> k, attempt |-> 0, entry |-> {}] : k \in Keys}]
    /\ requests = 0
    /\ at = [w \in Workers |-> "poll"]
    /\ ctx = [w \in Workers |-> "live"]
    /\ hand = [w \in Workers |-> {}]
    /\ expired = [w \in Workers |-> {}]
    /\ jobs = {}
    /\ owed = {}
    /\ troubles = 0

ClientStep(c) == EnqueueSetNX(c) \/ EnqueueAdd(c) \/ DeleteEntry(c)
LoopStep(w) ==
    \/ Pop(w) \/ PushBack(w) \/ Claim(w) \/ Spawn(w)
    \/ RequeueRem(w) \/ RequeueAdd(w) \/ RequeueDone(w)
    \/ ClaimFails(w) \/ Drain(w) \/ PopCancelled(w) \/ Restart(w)
JobStep(j) == HandlerReturns(j) \/ JobCall(j) \/ JobEnds(j)

Next ==
    \/ \E c \in Clients : \/ \E k \in Keys : EnqueueStart(c, k)
                          \/ \E e \in dlq : ReplayStart(c, e)
                          \/ ClientStep(c) \/ CallFails(c)
    \/ \E w \in Workers : LoopStep(w) \/ RequeueStart(w) \/ Stop(w) \/ Crash(w)
    \/ \E j \in jobs : JobStep(j) \/ JobCallFails(j) \/ SoftDeadline(j)
    \/ \E m \in queue : BecomesDue(m)
    \/ \E m \in processing : VisibilityElapsed(m) \/ VisibilityTooShort(m)
    \/ \E k \in Keys : DedupExpires(k)

Spec == Init /\ [][Next]_vars

\* Calls return, the loops go round and serve the ticker (select prefers it to
\* the default case), handlers end at the latest some time after their soft
\* deadline, the time of a message comes, and a worker that went down is
\* started again.
FairSpec ==
    /\ Spec
    /\ \A c \in Clients : WF_vars(ClientStep(c))
    /\ \A w \in Workers : WF_vars(LoopStep(w)) /\ SF_vars(RequeueStart(w))
    /\ WF_vars(\E j \in jobs : JobStep(j))
    /\ SF_vars(\E m \in queue : BecomesDue(m))
    /\ WF_vars(\E m \in processing : VisibilityElapsed(m))

----------------------------------------------------------------------------
\* Types; a worker process runs at most Concurrency jobs at a time.
TypeOK ==
    /\ queue \subseteq Messages /\ due \subseteq queue
    /\ processing \subseteq Messages /\ late \subseteq processing
    /\ dedup \subseteq Keys
    /\ dlq \subseteq Messages
    /\ call \in [Clients -> Calls]
    /\ requests \in Nat
    /\ at \in [Workers -> Positions]
    /\ ctx \in [Workers -> {"live", "cancelled", "background"}]
    /\ hand \in [Workers -> SUBSET Messages]
    /\ expired \in [Workers -> SUBSET Messages]
    /\ jobs \subseteq Jobs
    /\ \A w \in Workers : Cardinality(JobsOf(w)) <= Concurrency
    /\ owed \subseteq Keys
    /\ troubles \in Nat

\* The copies of task k that run again without an administrator.
Copies(k) ==
    {m \in queue \union processing \union (UNION {Between(w) : w \in Workers}) : m.key = k}

\* A task that Enqueue accepted is not lost before its handler has succeeded: it
\* is queued, claimed, on its way between the two, or a dead letter.  The only
\* exceptions are the failures that Drop names, which hit it after a removal
\* (ZPOPMIN, ZREM) and before the insertion that follows, and a replay of a dead
\* letter whose deduplication key still exists.
NothingLost == \A k \in owed : Copies(k) # {} \/ \E e \in dlq : e.key = k

\* Every attempt beyond max_attempts is the consequence of a failure of its own:
\* redelivery alone, however workers race for it, never runs a task more often.
RetriesPaid ==
    \A m \in queue \union processing \union dlq : m.attempt <= MaxAttempts + troubles

\* queue.go:38-39: as long as nothing fails or expires, a key has at most one copy
\* of its task, across enqueues, retries, acknowledgements, dead letters and
\* replays in any interleaving.
SingleCopy == troubles = 0 => \A k \in Keys : \A m, n \in Copies(k) : m = n

\* An accepted task is eventually done or dead-lettered (or lost as in
\* NothingLost), through crashes, stops and redeliveries.
TasksSettle == \A k \in Keys : k \in owed ~> (k \notin owed \/ \E e \in dlq : e.key = k)

============================================================================
