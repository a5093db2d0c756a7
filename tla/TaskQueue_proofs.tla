-------------------------- MODULE TaskQueue_proofs --------------------------
(***************************************************************************)
(* Proofs about the task queue, for any number of keys, workers, clients   *)
(* and failures.                                                           *)
(***************************************************************************)
EXTENDS TaskQueue, FiniteSetTheorems, TLAPS

\* The types, without the bound on concurrent jobs.
Types ==
    /\ queue \subseteq Messages /\ due \subseteq queue
    /\ processing \subseteq Messages /\ late \subseteq processing
    /\ dedup \subseteq Keys
    /\ dlq \subseteq Messages
    /\ call \in [Clients -> Calls]
    /\ requests \in Nat
    /\ at \in [Workers -> Positions]
    /\ ctx \in [Workers -> {"live", "cancelled", "background"}]
    /\ hand \in [Workers -> SUBSET Messages]
    /\ expired \in [Workers -> SUBSET Messages]
    /\ jobs \subseteq Jobs
    /\ owed \subseteq Keys
    /\ troubles \in Nat

\* A message with a new stamp differs from every message that is anywhere.
LEMMA NewMessage ==
    ASSUME StampFree, NEW k \in Keys, NEW n \in Nat
    PROVE  /\ Message(k, n) \in Messages
           /\ Message(k, n).key = k /\ Message(k, n).attempt = n
           /\ \A m \in queue : m.stamp # Message(k, n).stamp
           /\ \A m \in dlq : m.stamp # Message(k, n).stamp
           /\ \A j \in jobs : j.msg.stamp # Message(k, n).stamp
           /\ \A w \in Workers : \A m \in hand[w] : m.stamp # Message(k, n).stamp
           /\ \A c \in Clients : \A m \in call[c].entry : m.stamp # Message(k, n).stamp
<1>1. NewStamp \in Stamps /\ NewStamp \notin UsedStamps
  BY Zenon DEF StampFree, NewStamp
<1>2. Message(k, n) = [key |-> k, attempt |-> n, stamp |-> NewStamp]
  BY Zenon DEF Message
<1> HIDE DEF NewStamp
<1> DEFINE Hands == UNION {hand[w] \union expired[w] : w \in Workers}
           Entries == UNION {call[c].entry : c \in Clients}
           Everywhere == queue \union processing \union dlq \union {j.msg : j \in jobs}
                           \union Hands \union Entries
<1>3. \A m \in Everywhere : m.stamp \in UsedStamps
  <2>1. UsedStamps = {m.stamp : m \in Everywhere}
    BY Zenon DEF UsedStamps
  <2> HIDE DEF Everywhere
  <2> QED BY <2>1, Zenon
<1>4. \A j \in jobs : j.msg.stamp \in UsedStamps
  BY <1>3, Zenon
<1>5. ASSUME NEW w \in Workers, NEW m \in hand[w] PROVE m.stamp \in UsedStamps
  <2>1. hand[w] \union expired[w] \in {hand[v] \union expired[v] : v \in Workers}
    BY Zenon
  <2>2. m \in Hands
    BY <2>1, Zenon
  <2> HIDE DEF Hands, Entries
  <2> QED BY <1>3, <2>2, Zenon
<1>6. ASSUME NEW c \in Clients, NEW m \in call[c].entry PROVE m.stamp \in UsedStamps
  <2>1. call[c].entry \in {call[d].entry : d \in Clients}
    BY Zenon
  <2>2. m \in Entries
    BY <2>1, Zenon
  <2> HIDE DEF Hands, Entries
  <2> QED BY <1>3, <2>2, Zenon
<1> QED BY <1>1, <1>2, <1>3, <1>4, <1>5, <1>6 DEF Messages

\* The messages that a worker holds, with one attempt more.
LEMMA ClaimedMessages ==
    ASSUME Types, NEW w \in Workers, NEW n \in Claimed(w)
    PROVE  /\ n \in Messages
           /\ \E m \in hand[w] : /\ n.key = m.key /\ n.stamp = m.stamp
                                 /\ n.attempt = m.attempt + 1
<1>1. PICK m \in hand[w] : n = [m EXCEPT !.attempt = @ + 1]
  BY Zenon DEF Claimed
<1>2. m \in Messages
  BY Zenon DEF Types
<1> QED BY <1>1, <1>2 DEF Messages

LEMMA InitTypes == Init => Types
  BY QueueConstants DEF Init, Types, Calls, Positions

\* What a client does keeps the types.
LEMMA ClientTypes ==
    ASSUME Types, NEW c \in Clients,
           \/ \E k \in Keys : EnqueueStart(c, k)
           \/ \E e \in dlq : ReplayStart(c, e)
           \/ ClientStep(c)
           \/ CallFails(c)
    PROVE  Types'
<1> USE DEF Types
<1>0. call[c] \in Calls /\ Idle(c) \in Calls
  BY Zenon DEF Idle, Calls
<1>1. ASSUME NEW k \in Keys, EnqueueStart(c, k) PROVE Types'
  BY <1>1 DEF EnqueueStart, storeVars, loopVars, Calls
<1>2. ASSUME NEW e \in dlq, ReplayStart(c, e) PROVE Types'
  <2>1. e \in Messages /\ e.key \in Keys /\ e.attempt \in Nat
    BY Zenon DEF Messages
  <2>2. ReplayAttempt(e) \in Nat
    BY <2>1 DEF ReplayAttempt
  <2>3. call' \in [Clients -> Calls]
    BY <1>2, <2>1, <2>2, Zenon DEF ReplayStart, Calls
  <2> QED BY <1>2, <2>3 DEF ReplayStart, storeVars, loopVars
<1>3. CASE EnqueueSetNX(c)
  <2>1. call[c].key \in Keys /\ [call[c] EXCEPT !.step = "add"] \in Calls
          /\ [call[c] EXCEPT !.step = "dropped"] \in Calls
    BY <1>0, Zenon DEF Calls
  <2>2. call' \in [Clients -> Calls]
    BY <1>0, <1>3, <2>1, Zenon DEF EnqueueSetNX
  <2> QED BY <1>3, <2>1, <2>2, Zenon DEF EnqueueSetNX, loopVars
<1>4. CASE EnqueueAdd(c)
  <2>1. call[c].key \in Keys /\ call[c].attempt \in Nat /\ [call[c] EXCEPT !.step = "delete"] \in Calls
    BY <1>0, Zenon DEF Calls
  <2>2. Message(call[c].key, call[c].attempt) \in Messages
    BY <1>4, <2>1, NewMessage, Zenon DEF EnqueueAdd
  <2>3. call' \in [Clients -> Calls]
    BY <1>0, <1>4, <2>1, Zenon DEF EnqueueAdd
  <2> QED BY <1>4, <2>1, <2>2, <2>3, Zenon DEF EnqueueAdd, loopVars
<1>5. CASE DeleteEntry(c)
  BY <1>0, <1>5, Zenon DEF DeleteEntry, loopVars
<1>6. CASE CallFails(c)
  BY <1>0, <1>6 DEF CallFails, Trouble, storeVars, loopVars
<1> QED BY <1>1, <1>2, <1>3, <1>4, <1>5, <1>6, Zenon DEF ClientStep

LEMMA ExitTypes ==
    ASSUME Types, NEW w \in Workers, Exit(w), troubles' \in Nat
    PROVE  Types'
  BY Zenon DEF Types, Exit, Drop, JobsOf, Positions, storeVars, clientVars

LEMMA TroubleType == ASSUME Types, Trouble \/ UNCHANGED troubles PROVE troubles' \in Nat
  BY DEF Types, Trouble

\* What the loop of a worker does keeps the types.
LEMMA LoopTypes ==
    ASSUME Types, NEW w \in Workers,
           LoopStep(w) \/ RequeueStart(w) \/ Stop(w) \/ Crash(w)
    PROVE  Types'
<1>0. /\ hand[w] \subseteq Messages /\ Claimed(w) \subseteq Messages
      /\ \A m \in Messages : m.key \in Keys /\ m.attempt \in Nat
      /\ \A m \in Messages, b \in BOOLEAN : NewJob(w, m, b) \in Jobs
  <2>1. Claimed(w) \subseteq Messages
    BY ClaimedMessages, Zenon
  <2>2. \A m \in Messages, b \in BOOLEAN : NewJob(w, m, b) \in Jobs
    BY Zenon DEF NewJob, Jobs, JobSteps, Live
  <2> QED BY <2>1, <2>2, Zenon DEF Types, Messages
<1>1. CASE Pop(w)
  BY <1>1 DEF Types, Pop, Step, Positions, clientVars
<1>2. CASE PushBack(w)
  BY <1>0, <1>2, TroubleType, Zenon DEF Types, PushBack, Step, Drop, Positions, clientVars
<1>3. CASE Claim(w)
  <2>1. {NewJob(w, m, FALSE) : m \in Claimed(w)} \subseteq Jobs
    BY <1>0, Zenon
  <2> QED BY <1>0, <1>3, <2>1, Zenon DEF Types, Claim, Step, Positions, clientVars
<1>4. CASE Spawn(w)
  <2>1. {NewJob(w, m, TRUE) : m \in hand[w]} \subseteq Jobs
    BY <1>0, Zenon
  <2> QED BY <1>4, <2>1, Zenon DEF Types, Spawn, Step, Positions, storeVars, clientVars
<1>5. CASE RequeueRem(w)
  <2>1. PICK m \in expired[w] :
          /\ expired' = [expired EXCEPT ![w] = @ \ {m}]
          /\ Step(w, "readd", {m})
          /\ \/ processing' = processing \ {m} /\ late' = late \ {m}
             \/ UNCHANGED <<processing, late>>
          /\ Trouble \/ UNCHANGED troubles
    BY <1>5, Zenon DEF RequeueRem
  <2>2. m \in Messages
    BY Zenon DEF Types
  <2> QED BY <1>5, <2>1, <2>2, TroubleType, Zenon DEF Types, RequeueRem, Step, Positions, clientVars
<1>6. CASE RequeueAdd(w)
  <2>1. StampFree => {Message(m.key, m.attempt) : m \in hand[w]} \subseteq Messages
    BY <1>0, NewMessage
  <2> QED BY <1>0, <1>6, <2>1, TroubleType, Zenon DEF Types, RequeueAdd, Step, Drop, Positions, clientVars
<1>7. CASE RequeueDone(w)
  BY <1>7, Zenon DEF Types, RequeueDone, Positions, storeVars, clientVars
<1>8. CASE ClaimFails(w)
  BY <1>8, ExitTypes, TroubleType, Zenon DEF ClaimFails
<1>9. CASE Drain(w)
  BY <1>9, Zenon DEF Types, Drain, Positions, storeVars, clientVars
<1>10. CASE PopCancelled(w)
  BY <1>10, ExitTypes, TroubleType, Zenon DEF PopCancelled
<1>11. CASE Restart(w)
  BY <1>11, Zenon DEF Types, Restart, Positions, storeVars, clientVars
<1>12. CASE RequeueStart(w)
  BY <1>12, Zenon DEF Types, RequeueStart, Positions, storeVars, clientVars
<1>13. CASE Stop(w)
  <2>1. jobs' \subseteq Jobs
    BY <1>13, Zenon DEF Types, Stop, Jobs
  <2> QED BY <1>13, <2>1, TroubleType, Zenon DEF Types, Stop, storeVars, clientVars
<1>14. CASE Crash(w)
  BY <1>14, ExitTypes, TroubleType, Zenon DEF Crash
<1> QED BY <1>1, <1>2, <1>3, <1>4, <1>5, <1>6, <1>7, <1>8, <1>9, <1>10, <1>11, <1>12, <1>13, <1>14, Zenon
        DEF LoopStep

\* Where a call of a job leads.
LEMMA FollowingStep ==
    ASSUME NEW j \in Jobs
    PROVE  /\ j.step = "ackRem" => Following(j) = "ackDel"
           /\ j.step = "rem" /\ j.msg.attempt >= MaxAttempts => Following(j) = "dlq"
           /\ j.step = "rem" /\ ~(j.msg.attempt >= MaxAttempts) => Following(j) = "retry"
           /\ j.step = "dlq" => Following(j) = "del"
           /\ j.step \in {"run", "ackDel", "retry", "del"} => Following(j) = "end"
           /\ Following(j) # "end" => [j EXCEPT !.step = Following(j)] \in Jobs
<1>1. j.step \in JobSteps
  BY Zenon DEF Jobs
<1>2. CASE j.step = "ackRem"
  BY <1>2, Zenon DEF Following, Jobs, JobSteps
<1>3. CASE j.step = "rem"
  BY <1>3, Zenon DEF Following, Jobs, JobSteps
<1>4. CASE j.step = "dlq"
  BY <1>4, Zenon DEF Following, Jobs, JobSteps
<1>5. CASE j.step \in {"run", "ackDel", "retry", "del"}
  BY <1>5, Zenon DEF Following
<1> QED BY <1>1, <1>2, <1>3, <1>4, <1>5, Zenon DEF JobSteps

\* What a job does keeps the types.
LEMMA JobTypes ==
    ASSUME Types, NEW j \in jobs, JobStep(j) \/ JobCallFails(j) \/ SoftDeadline(j)
    PROVE  Types'
<1>0. j \in Jobs /\ j.msg \in Messages /\ j.msg.key \in Keys /\ j.msg.attempt \in Nat
  BY Zenon DEF Types, Jobs, Messages
<1>a. \A s \in JobSteps : [j EXCEPT !.step = s] \in Jobs
  BY <1>0, Zenon DEF Jobs
<1>b. Advance(j) => jobs' \subseteq Jobs
  BY <1>0, FollowingStep, Zenon DEF Advance, Ended, Moved, Types
<1>1. CASE HandlerReturns(j)
  BY <1>a, <1>1, Zenon DEF Types, HandlerReturns, Moved, JobSteps, storeVars, clientVars, loopVars
<1>2. CASE JobCall(j)
  <2>1. jobs' \subseteq Jobs /\ UNCHANGED <<call, requests, at, ctx, hand, expired, owed, troubles>>
    BY <1>b, <1>2, Zenon DEF JobCall, clientVars, loopVars
  <2>2. CASE Remove(j)
    BY <2>1, <2>2, Zenon DEF Types, Remove
  <2>3. CASE Retry(j)
    <3>1. Message(j.msg.key, j.msg.attempt) \in Messages
      BY <1>0, <2>3, NewMessage, Zenon DEF Retry
    <3> QED BY <2>1, <2>3, <3>1, Zenon DEF Types, Retry
  <2>4. CASE PushToDLQ(j)
    BY <1>0, <2>1, <2>4, Zenon DEF Types, PushToDLQ
  <2>5. CASE Release(j)
    BY <2>1, <2>5, Zenon DEF Types, Release
  <2> QED BY <1>2, <2>2, <2>3, <2>4, <2>5, Zenon DEF JobCall
<1>3. CASE JobEnds(j)
  BY <1>3, Zenon DEF Types, JobEnds, Ended, Drop, storeVars, clientVars, loopVars
<1>4. CASE JobCallFails(j)
  BY <1>b, <1>4, TroubleType, Zenon DEF Types, JobCallFails, Drop, storeVars, clientVars, loopVars
<1>5. CASE SoftDeadline(j)
  <2>1. [j EXCEPT !.live = FALSE] \in Jobs
    BY <1>0, Zenon DEF Jobs
  <2> QED BY <1>5, <2>1, TroubleType, Zenon DEF Types, SoftDeadline, storeVars, clientVars, loopVars
<1> QED BY <1>1, <1>2, <1>3, <1>4, <1>5, Zenon DEF JobStep

\* What time does keeps the types.
LEMMA TimeTypes ==
    ASSUME Types,
           \/ \E m \in queue : BecomesDue(m)
           \/ \E m \in processing : VisibilityElapsed(m) \/ VisibilityTooShort(m)
           \/ \E k \in Keys : DedupExpires(k)
    PROVE  Types'
<1>1. ASSUME NEW m \in queue, BecomesDue(m) PROVE Types'
  BY <1>1, Zenon DEF Types, BecomesDue, clientVars, loopVars
<1>2. ASSUME NEW m \in processing, VisibilityElapsed(m) \/ VisibilityTooShort(m) PROVE Types'
  BY <1>2, TroubleType, Zenon DEF Types, VisibilityElapsed, VisibilityTooShort, Expire, clientVars, loopVars
<1>3. ASSUME NEW k \in Keys, DedupExpires(k) PROVE Types'
  BY <1>3, TroubleType, Zenon DEF Types, DedupExpires, clientVars, loopVars
<1> QED BY <1>1, <1>2, <1>3, Zenon

LEMMA StepTypes == Types /\ [Next]_vars => Types'
<1> SUFFICES ASSUME Types, [Next]_vars PROVE Types'
  BY Zenon
<1>1. CASE UNCHANGED vars
  BY <1>1, Zenon DEF Types, vars, storeVars, clientVars, loopVars
<1>2. CASE Next
  BY <1>2, ClientTypes, LoopTypes, JobTypes, TimeTypes, Zenon DEF Next
<1> QED BY <1>1, <1>2, Zenon

----------------------------------------------------------------------------
(***************************************************************************)
(* The semaphore.  A loop holds at most one message, so it starts at most  *)
(* one job at a time, and only after it saw a free slot.                   *)
(***************************************************************************)
OneInHand == \A w \in Workers : \A m, n \in hand[w] : m = n

LEMMA InitOneInHand == Init => OneInHand
  BY Zenon DEF Init, OneInHand

LEMMA StepOneInHand == Types /\ OneInHand /\ [Next]_vars => OneInHand'
<1> SUFFICES ASSUME Types, OneInHand, [Next]_vars PROVE OneInHand'
  BY Zenon
<1>1. CASE UNCHANGED hand
  BY <1>1, Zenon DEF OneInHand
<1>2. ASSUME NEW w \in Workers, LoopStep(w) \/ Crash(w) PROVE OneInHand'
  <2>1. ASSUME \A v \in Workers : v # w => hand'[v] = hand[v], \A m, n \in hand'[w] : m = n
        PROVE  OneInHand'
    BY <2>1, Zenon DEF OneInHand
  <2>2. \A m, n \in Claimed(w) : m = n
    BY Zenon DEF Claimed, OneInHand
  <2>3. CASE Claim(w)
    <3>1. hand' = [hand EXCEPT ![w] = {}] \/ hand' = [hand EXCEPT ![w] = Claimed(w)]
      BY <2>3, Zenon DEF Claim, Step
    <3>2. /\ \A v \in Workers : v # w => hand'[v] = hand[v]
          /\ hand'[w] = {} \/ hand'[w] = Claimed(w)
      BY <3>1, Zenon DEF Types
    <3> QED BY <2>1, <2>2, <3>2, Zenon
  <2>4. CASE Pop(w) \/ PushBack(w) \/ Spawn(w) \/ RequeueRem(w) \/ RequeueAdd(w)
    <3>1. hand' = [hand EXCEPT ![w] = {}] \/ \E m : hand' = [hand EXCEPT ![w] = {m}]
      BY <2>4, Zenon DEF Pop, PushBack, Spawn, RequeueRem, RequeueAdd, Step
    <3>2. /\ \A v \in Workers : v # w => hand'[v] = hand[v]
          /\ hand'[w] = {} \/ \E m : hand'[w] = {m}
      BY <3>1, Zenon DEF Types
    <3> QED BY <2>1, <3>2, Zenon
  <2>5. CASE ClaimFails(w) \/ PopCancelled(w) \/ Crash(w)
    BY <2>1, <2>5, Zenon DEF ClaimFails, PopCancelled, Crash, Exit, Types
  <2>6. CASE RequeueDone(w) \/ Drain(w) \/ Restart(w)
    BY <1>1, <2>6, Zenon DEF RequeueDone, Drain, Restart
  <2> QED BY <1>2, <2>3, <2>4, <2>5, <2>6, Zenon DEF LoopStep
<1>3. ASSUME NEW c \in Clients,
             \/ \E k \in Keys : EnqueueStart(c, k)
             \/ \E e \in dlq : ReplayStart(c, e)
             \/ ClientStep(c) \/ CallFails(c)
      PROVE  UNCHANGED hand
  BY <1>3, Zenon DEF EnqueueStart, ReplayStart, ClientStep, EnqueueSetNX, EnqueueAdd, DeleteEntry,
              CallFails, loopVars
<1>4. ASSUME NEW j \in jobs, JobStep(j) \/ JobCallFails(j) \/ SoftDeadline(j) PROVE UNCHANGED hand
  BY <1>4, Zenon DEF JobStep, HandlerReturns, JobCall, JobEnds, JobCallFails, SoftDeadline, loopVars
<1>5. ASSUME NEW w \in Workers, RequeueStart(w) \/ Stop(w) PROVE UNCHANGED hand
  BY <1>5, Zenon DEF RequeueStart, Stop
<1>6. ASSUME \/ \E m \in queue : BecomesDue(m)
             \/ \E m \in processing : VisibilityElapsed(m) \/ VisibilityTooShort(m)
             \/ \E k \in Keys : DedupExpires(k)
      PROVE  UNCHANGED hand
  BY <1>6, Zenon DEF BecomesDue, VisibilityElapsed, VisibilityTooShort, Expire, DedupExpires, loopVars
<1>7. UNCHANGED vars => UNCHANGED hand
  BY Zenon DEF vars, loopVars
<1> QED BY <1>1, <1>2, <1>3, <1>4, <1>5, <1>6, <1>7, Zenon DEF Next

JobLimit ==
    \A w \in Workers : IsFiniteSet(JobsOf(w)) /\ Cardinality(JobsOf(w)) <= Concurrency

LEMMA InitJobLimit == Init => JobLimit
<1> SUFFICES ASSUME Init, NEW w \in Workers
             PROVE  IsFiniteSet(JobsOf(w)) /\ Cardinality(JobsOf(w)) <= Concurrency
  BY Zenon DEF JobLimit
<1>1. JobsOf(w) = {}
  BY Zenon DEF Init, JobsOf
<1> QED BY <1>1, FS_EmptySet, QueueConstants

\* Adding the only element of M to S, and replacing an element of S.
LEMMA CardinalityAdd ==
    ASSUME NEW S, IsFiniteSet(S), NEW M, \A m, n \in M : m = n
    PROVE  /\ IsFiniteSet(S \union M)
           /\ Cardinality(S \union M) <= Cardinality(S) + 1
<1>0. Cardinality(S) \in Nat
  BY FS_CardinalityType, Zenon
<1>1. CASE M = {}
  <2>1. S \union M = S
    BY <1>1, Zenon
  <2> QED BY <1>0, <2>1
<1>2. ASSUME NEW m \in M PROVE /\ IsFiniteSet(S \union M)
                               /\ Cardinality(S \union M) <= Cardinality(S) + 1
  <2>1. S \union M = S \union {m}
    BY <1>2, Zenon
  <2> QED BY <1>0, <2>1, FS_AddElement
<1> QED BY <1>1, <1>2, Zenon

LEMMA CardinalityReplace ==
    ASSUME NEW S, IsFiniteSet(S), NEW x \in S, NEW y
    PROVE  /\ IsFiniteSet((S \ {x}) \union {y})
           /\ Cardinality((S \ {x}) \union {y}) <= Cardinality(S)
<1>1. IsFiniteSet(S \ {x}) /\ Cardinality(S \ {x}) = Cardinality(S) - 1
  BY FS_RemoveElement, Zenon
<1>2. Cardinality(S) \in Nat
  BY FS_CardinalityType, Zenon
<1>3. \A m, n \in {y} : m = n
  BY Zenon
<1>4. /\ IsFiniteSet((S \ {x}) \union {y})
      /\ Cardinality((S \ {x}) \union {y}) <= Cardinality(S \ {x}) + 1
  BY <1>1, <1>3, CardinalityAdd, Zenon
<1> QED BY <1>1, <1>2, <1>4

LEMMA SmallerJobSet ==
    ASSUME NEW S, IsFiniteSet(S), Cardinality(S) <= Concurrency, NEW T, T \subseteq S
    PROVE  IsFiniteSet(T) /\ Cardinality(T) <= Concurrency
<1>1. IsFiniteSet(T) /\ Cardinality(T) <= Cardinality(S)
  BY FS_Subset, Zenon
<1>2. Cardinality(T) \in Nat /\ Cardinality(S) \in Nat
  BY <1>1, FS_CardinalityType, Zenon
<1> QED BY <1>1, <1>2, QueueConstants

LEMMA LoopJobLimit ==
    ASSUME Types, OneInHand, JobLimit, NEW w \in Workers,
           LoopStep(w) \/ RequeueStart(w) \/ Stop(w) \/ Crash(w)
    PROVE  JobLimit'
<1> SUFFICES ASSUME NEW v \in Workers
             PROVE  IsFiniteSet(JobsOf(v)') /\ Cardinality(JobsOf(v)') <= Concurrency
  BY Zenon DEF JobLimit
<1>0. IsFiniteSet(JobsOf(v)) /\ Cardinality(JobsOf(v)) <= Concurrency
  BY Zenon DEF JobLimit
<1>1. ASSUME jobs' \subseteq jobs
      PROVE  IsFiniteSet(JobsOf(v)') /\ Cardinality(JobsOf(v)') <= Concurrency
  <2>1. JobsOf(v)' \subseteq JobsOf(v)
    BY <1>1, Zenon DEF JobsOf
  <2> QED BY <1>0, <2>1, SmallerJobSet, Zenon
<1>2. ASSUME NEW M, \A m, n \in M : m = n, NEW b,
             jobs' = jobs \union {NewJob(w, m, b) : m \in M},
             Cardinality(JobsOf(w)) < Concurrency
      PROVE  IsFiniteSet(JobsOf(v)') /\ Cardinality(JobsOf(v)') <= Concurrency
  <2> DEFINE N == {NewJob(w, m, b) : m \in M}
  <2>1. \A i, j \in N : i = j
    BY <1>2, Zenon
  <2>2. \A i \in N : i.w = w
    BY DEF NewJob
  <2>3. CASE v = w
    <3>1. JobsOf(v)' = JobsOf(v) \union N
      BY <1>2, <2>2, <2>3, Zenon DEF JobsOf
    <3>2. Cardinality(JobsOf(v)) \in Nat
      BY <1>0, FS_CardinalityType, Zenon
    <3> HIDE DEF N
    <3>3. /\ IsFiniteSet(JobsOf(v) \union N)
          /\ Cardinality(JobsOf(v) \union N) <= Cardinality(JobsOf(v)) + 1
      BY <1>0, <2>1, CardinalityAdd, Zenon
    <3>4. Cardinality(JobsOf(v) \union N) \in Nat
      BY <3>3, FS_CardinalityType, Zenon
    <3> QED BY <1>2, <2>3, <3>1, <3>2, <3>3, <3>4, QueueConstants
  <2>4. CASE v # w
    <3>1. JobsOf(v)' = JobsOf(v)
      BY <1>2, <2>2, <2>4, Zenon DEF JobsOf
    <3> QED BY <1>0, <3>1, Zenon
  <2> QED BY <2>3, <2>4, Zenon
<1>3. CASE Claim(w)
  <2>1. \A m, n \in Claimed(w) : m = n
    BY Zenon DEF Claimed, OneInHand
  <2> QED BY <1>1, <1>2, <1>3, <2>1, Zenon DEF Claim
<1>4. CASE Spawn(w)
  <2>1. \A m, n \in hand[w] : m = n
    BY Zenon DEF OneInHand
  <2> QED BY <1>2, <1>4, <2>1, Zenon DEF Spawn
<1>5. CASE Stop(w)
  <2> DEFINE f == [j \in JobsOf(v) |-> IF j.w = w THEN [j EXCEPT !.live = FALSE] ELSE j]
  <2>1. \A j \in jobs : j.w = (IF j.w = w THEN [j EXCEPT !.live = FALSE] ELSE j).w
    BY Zenon DEF Types, Jobs
  <2>2. JobsOf(v)' = {f[j] : j \in JobsOf(v)}
    BY <1>5, <2>1, Zenon DEF Stop, JobsOf
  <2>3. f \in Surjection(JobsOf(v), JobsOf(v)')
    BY <2>2, Zenon DEF Surjection
  <2>4. IsFiniteSet(JobsOf(v)') /\ Cardinality(JobsOf(v)') <= Cardinality(JobsOf(v))
    BY <1>0, <2>3, FS_Surjection, Zenon
  <2>5. Cardinality(JobsOf(v)') \in Nat /\ Cardinality(JobsOf(v)) \in Nat
    BY <1>0, <2>4, FS_CardinalityType, Zenon
  <2> QED BY <1>0, <2>4, <2>5, QueueConstants
<1>6. CASE ClaimFails(w) \/ PopCancelled(w) \/ Crash(w)
  BY <1>1, <1>6, Zenon DEF ClaimFails, PopCancelled, Crash, Exit
<1>7. CASE \/ Pop(w) \/ PushBack(w) \/ RequeueStart(w) \/ RequeueRem(w) \/ RequeueAdd(w)
           \/ RequeueDone(w) \/ Drain(w) \/ Restart(w)
  BY <1>1, <1>7, Zenon DEF Pop, PushBack, RequeueStart, RequeueRem, RequeueAdd, RequeueDone, Drain, Restart
<1> QED BY <1>3, <1>4, <1>5, <1>6, <1>7, Zenon DEF LoopStep

LEMMA JobJobLimit ==
    ASSUME Types, JobLimit, NEW j \in jobs, JobStep(j) \/ JobCallFails(j) \/ SoftDeadline(j)
    PROVE  JobLimit'
<1> SUFFICES ASSUME NEW v \in Workers
             PROVE  IsFiniteSet(JobsOf(v)') /\ Cardinality(JobsOf(v)') <= Concurrency
  BY Zenon DEF JobLimit
<1>0. IsFiniteSet(JobsOf(v)) /\ Cardinality(JobsOf(v)) <= Concurrency
  BY Zenon DEF JobLimit
<1>1. PICK i : /\ jobs' \subseteq (jobs \ {j}) \union {i}
               /\ i.w = j.w
  <2>1. \A s : [j EXCEPT !.step = s].w = j.w /\ [j EXCEPT !.live = FALSE].w = j.w
    BY Zenon DEF Types, Jobs
  <2> QED BY <2>1, Zenon DEF JobStep, HandlerReturns, JobCall, JobEnds, JobCallFails, SoftDeadline,
                      Advance, Moved, Ended
<1>2. CASE v = j.w
  <2>1. j \in JobsOf(v) /\ JobsOf(v)' \subseteq (JobsOf(v) \ {j}) \union {i}
    BY <1>1, <1>2, Zenon DEF JobsOf
  <2>2. /\ IsFiniteSet((JobsOf(v) \ {j}) \union {i})
        /\ Cardinality((JobsOf(v) \ {j}) \union {i}) <= Cardinality(JobsOf(v))
    BY <1>0, <2>1, CardinalityReplace, Zenon
  <2>3. Cardinality((JobsOf(v) \ {j}) \union {i}) \in Nat /\ Cardinality(JobsOf(v)) \in Nat
    BY <1>0, <2>2, FS_CardinalityType, Zenon
  <2>4. Cardinality((JobsOf(v) \ {j}) \union {i}) <= Concurrency
    BY <1>0, <2>2, <2>3, QueueConstants
  <2> QED BY <2>1, <2>2, <2>4, SmallerJobSet, Zenon
<1>3. CASE v # j.w
  <2>1. JobsOf(v)' \subseteq JobsOf(v)
    BY <1>1, <1>3, Zenon DEF JobsOf
  <2> QED BY <1>0, <2>1, SmallerJobSet, Zenon
<1> QED BY <1>2, <1>3, Zenon

LEMMA StepJobLimit == Types /\ OneInHand /\ JobLimit /\ [Next]_vars => JobLimit'
<1> SUFFICES ASSUME Types, OneInHand, JobLimit, [Next]_vars PROVE JobLimit'
  BY Zenon
<1>1. CASE UNCHANGED jobs
  BY <1>1, Zenon DEF JobLimit, JobsOf
<1>2. ASSUME NEW c \in Clients,
             \/ \E k \in Keys : EnqueueStart(c, k)
             \/ \E e \in dlq : ReplayStart(c, e)
             \/ ClientStep(c) \/ CallFails(c)
      PROVE  UNCHANGED jobs
  BY <1>2, Zenon DEF EnqueueStart, ReplayStart, ClientStep, EnqueueSetNX, EnqueueAdd, DeleteEntry, CallFails
<1>3. ASSUME \/ \E m \in queue : BecomesDue(m)
             \/ \E m \in processing : VisibilityElapsed(m) \/ VisibilityTooShort(m)
             \/ \E k \in Keys : DedupExpires(k)
      PROVE  UNCHANGED jobs
  BY <1>3, Zenon DEF BecomesDue, VisibilityElapsed, VisibilityTooShort, Expire, DedupExpires
<1>4. UNCHANGED vars => UNCHANGED jobs
  BY Zenon DEF vars
<1> QED BY <1>1, <1>2, <1>3, <1>4, LoopJobLimit, JobJobLimit, Zenon DEF Next

\* Types, and the semaphore: whatever crashes, stops and redeliveries happen, a
\* worker process never runs more than Concurrency jobs at a time.
THEOREM TypeCorrect == Spec => []TypeOK
<1>1. Init => Types /\ OneInHand /\ JobLimit
  BY InitTypes, InitOneInHand, InitJobLimit, Zenon
<1>2. Types /\ OneInHand /\ JobLimit /\ [Next]_vars => (Types /\ OneInHand /\ JobLimit)'
  BY StepTypes, StepOneInHand, StepJobLimit, Zenon
<1>3. Types /\ OneInHand /\ JobLimit => TypeOK
  BY Zenon DEF Types, JobLimit, TypeOK
<1> QED BY <1>1, <1>2, <1>3, PTL DEF Spec


----------------------------------------------------------------------------
(***************************************************************************)
(* Attempts.  The danger is a message that is redelivered although its job *)
(* goes on.  Everything that can still be claimed is below Bound; a member *)
(* of the processing set has reached it only if it waits for the semaphore *)
(* or its job, with a live context, will remove it.  Whatever takes that   *)
(* away is a failure and raises Bound.                                     *)
(***************************************************************************)

Bound == MaxAttempts + troubles

Contexts ==
    /\ \A j \in jobs : ctx[j.w] = "cancelled" => ~j.live
    /\ \A w \in Workers : ctx[w] = "background" => at[w] \in {"requeue", "readd", "down"}

CallsBelow == \A c \in Clients : call[c].attempt < Bound
StoresBelow ==
    /\ \A m \in queue : m.attempt < Bound
    /\ \A m \in late : m.attempt < Bound
    /\ \A e \in dlq : e.attempt <= Bound
LoopsBelow ==
    \A w \in Workers :
        /\ \A m \in expired[w] : m.attempt < Bound
        /\ \A m \in hand[w] : m.attempt <= Bound
        /\ (at[w] # "wait" \/ ctx[w] # "live") => \A m \in hand[w] : m.attempt < Bound
JobsBelow ==
    \A j \in jobs : /\ j.msg.attempt <= Bound
                    /\ j.step = "retry" => j.msg.attempt < MaxAttempts
InJob(m) == \E j \in jobs : j.msg = m /\ j.live /\ j.step \in {"run", "ackRem", "rem"}
ProcessingBelow ==
    \A m \in processing : /\ m.attempt <= Bound
                          /\ m.attempt = Bound => Waiting(m) \/ InJob(m)

Attempts == CallsBelow /\ StoresBelow /\ LoopsBelow /\ JobsBelow /\ ProcessingBelow

LEMMA InitAttempts == Init => Contexts /\ Attempts
  BY QueueConstants DEF Init, Contexts, Attempts, CallsBelow, StoresBelow, LoopsBelow, JobsBelow,
                        ProcessingBelow, Bound

LEMMA StepContexts == Types /\ Contexts /\ [Next]_vars => Contexts'
<1> SUFFICES ASSUME Types, Contexts, [Next]_vars PROVE Contexts'
  BY Zenon
<1>1. ASSUME UNCHANGED <<ctx, at>>, jobs' \subseteq jobs PROVE Contexts'
  BY <1>1, Zenon DEF Contexts
<1>2. ASSUME NEW c \in Clients,
             \/ \E k \in Keys : EnqueueStart(c, k)
             \/ \E e \in dlq : ReplayStart(c, e)
             \/ ClientStep(c) \/ CallFails(c)
      PROVE  Contexts'
  BY <1>1, <1>2, Zenon DEF EnqueueStart, ReplayStart, ClientStep, EnqueueSetNX, EnqueueAdd, DeleteEntry,
                    CallFails, loopVars
<1>3. ASSUME \/ \E m \in queue : BecomesDue(m)
             \/ \E m \in processing : VisibilityElapsed(m) \/ VisibilityTooShort(m)
             \/ \E k \in Keys : DedupExpires(k)
             \/ UNCHANGED vars
      PROVE  Contexts'
  BY <1>1, <1>3, Zenon DEF BecomesDue, VisibilityElapsed, VisibilityTooShort, Expire, DedupExpires,
                    vars, loopVars
<1>4. ASSUME NEW j \in jobs, JobStep(j) \/ JobCallFails(j) \/ SoftDeadline(j) PROVE Contexts'
  <2>1. PICK i : /\ jobs' \subseteq (jobs \ {j}) \union {i}
                 /\ i.w = j.w
                 /\ i.live => j.live
    <3>1. \A s : /\ [j EXCEPT !.step = s].w = j.w /\ [j EXCEPT !.live = FALSE].w = j.w
                 /\ [j EXCEPT !.step = s].live = j.live /\ ~[j EXCEPT !.live = FALSE].live
      BY Zenon DEF Types, Jobs
    <3> QED BY <1>4, <3>1, Zenon DEF JobStep, HandlerReturns, JobCall, JobEnds, JobCallFails, SoftDeadline,
                              Advance, Moved, Ended
  <2>2. UNCHANGED <<at, ctx>>
    BY <1>4, Zenon DEF JobStep, HandlerReturns, JobCall, JobEnds, JobCallFails, SoftDeadline, loopVars
  <2> QED BY <2>1, <2>2, Zenon DEF Contexts
<1>5. ASSUME NEW w \in Workers, LoopStep(w) \/ RequeueStart(w) \/ Stop(w) \/ Crash(w) PROVE Contexts'
  <2>1. CASE Pop(w) \/ PushBack(w) \/ RequeueStart(w) \/ RequeueRem(w) \/ RequeueAdd(w) \/ RequeueDone(w)
    BY <2>1, Zenon DEF Contexts, Types, Positions, Pop, PushBack, RequeueStart, RequeueRem, RequeueAdd,
                RequeueDone, Step
  <2>2. CASE Claim(w) \/ Spawn(w)
    <3>1. \A m, b : NewJob(w, m, b).w = w /\ (ctx[w] = "cancelled" => ~NewJob(w, m, b).live)
      BY Zenon DEF NewJob, Live
    <3>2. ASSUME NEW j \in jobs' \ jobs PROVE j.w = w /\ (ctx[w] = "cancelled" => ~j.live)
      <4>1. \E m, b : j = NewJob(w, m, b)
        BY <2>2, Zenon DEF Claim, Spawn
      <4> QED BY <3>1, <4>1, Zenon
    <3> QED BY <2>2, <3>2, Zenon DEF Contexts, Types, Claim, Spawn, Step
  <2>3. CASE ClaimFails(w) \/ PopCancelled(w) \/ Crash(w)
    BY <2>3, Zenon DEF Contexts, Types, ClaimFails, PopCancelled, Crash, Exit
  <2>4. CASE Drain(w) \/ Restart(w)
    BY <2>4, Zenon DEF Contexts, Types, Drain, Restart, Jobs
  <2>5. CASE Stop(w)
    <3>1. \A j \in jobs : /\ [j EXCEPT !.live = FALSE].w = j.w
                          /\ ~[j EXCEPT !.live = FALSE].live
      BY Zenon DEF Types, Jobs
    <3>2. \A i \in jobs' : \E j \in jobs : i.w = j.w /\ (j.w = w => ~i.live) /\ (j.w # w => i = j)
      BY <2>5, <3>1, Zenon DEF Stop
    <3> QED BY <2>5, <3>2, Zenon DEF Contexts, Types, Stop, Jobs
  <2> QED BY <1>5, <2>1, <2>2, <2>3, <2>4, <2>5, Zenon DEF LoopStep
<1> QED BY <1>2, <1>3, <1>4, <1>5, Zenon DEF Next

LEMMA BoundTypes ==
    ASSUME Types, Trouble \/ UNCHANGED troubles
    PROVE  /\ Bound \in Nat /\ Bound' \in Nat /\ MaxAttempts <= Bound /\ 0 < Bound
           /\ Bound <= Bound'
           /\ Trouble => Bound' = Bound + 1
           /\ UNCHANGED troubles => Bound' = Bound
           /\ \A m \in Messages : m.attempt \in Nat
<1>1. Bound \in Nat /\ MaxAttempts <= Bound /\ 0 < Bound
  BY QueueConstants DEF Types, Bound
<1>2. ASSUME Trouble PROVE Bound' = Bound + 1
  BY <1>2, QueueConstants DEF Trouble, Bound, Types
<1>3. ASSUME UNCHANGED troubles PROVE Bound' = Bound
  BY <1>3, Zenon DEF Bound
<1>4. Bound' = Bound + 1 \/ Bound' = Bound
  BY <1>2, <1>3, Zenon
<1>5. \A m \in Messages : m.attempt \in Nat
  BY Zenon DEF Messages
<1> QED BY <1>1, <1>2, <1>3, <1>4, <1>5

LEMMA ClientAttempts ==
    ASSUME Types, Attempts, NEW c \in Clients,
           \/ \E k \in Keys : EnqueueStart(c, k)
           \/ \E e \in dlq : ReplayStart(c, e)
           \/ ClientStep(c) \/ CallFails(c)
    PROVE  Attempts'
<1> USE DEF Attempts, CallsBelow, StoresBelow
<1>1. UNCHANGED <<processing, late, jobs, loopVars>> /\ (Trouble \/ UNCHANGED troubles)
  BY Zenon DEF EnqueueStart, ReplayStart, ClientStep, EnqueueSetNX, EnqueueAdd, DeleteEntry, CallFails,
         storeVars
<1>2. /\ Bound \in Nat /\ Bound' \in Nat /\ 0 < Bound /\ Bound <= Bound'
      /\ \A m \in Messages : m.attempt \in Nat
      /\ \A d \in Clients : call[d].attempt \in Nat /\ call[d].key \in Keys
  BY <1>1, BoundTypes, Zenon DEF Types, Calls
<1>3. LoopsBelow' /\ JobsBelow'
  BY <1>1, <1>2, QueueConstants DEF LoopsBelow, JobsBelow, Types, Jobs, loopVars
<1>4. ProcessingBelow'
  BY <1>1, <1>2 DEF ProcessingBelow, Waiting, InJob, Types, loopVars
<1>5. ASSUME NEW k \in Keys, EnqueueStart(c, k) PROVE CallsBelow' /\ StoresBelow'
  BY <1>2, <1>5 DEF EnqueueStart, storeVars, Types
<1>6. ASSUME NEW e \in dlq, ReplayStart(c, e) PROVE CallsBelow' /\ StoresBelow'
  BY <1>2, <1>6 DEF ReplayStart, ReplayAttempt, storeVars, Types
<1>7. ASSUME EnqueueSetNX(c) PROVE CallsBelow' /\ StoresBelow'
  <2>1. call[c] \in Calls /\ call'[c].attempt \in {call[c].attempt, 0}
    BY <1>7, ZenonT(30) DEF EnqueueSetNX, Types, Idle, Calls
  <2>2. \A d \in Clients : d # c => call'[d] = call[d]
    BY <1>7, Zenon DEF EnqueueSetNX, Types
  <2> QED BY <1>2, <1>7, <2>1, <2>2 DEF EnqueueSetNX, Types
<1>8. ASSUME EnqueueAdd(c) PROVE CallsBelow' /\ StoresBelow'
  <2>1. Message(call[c].key, call[c].attempt).attempt = call[c].attempt
    BY Zenon DEF Message
  <2> QED BY <1>2, <1>8, <2>1 DEF EnqueueAdd, Types, Idle, Calls
<1>9. ASSUME DeleteEntry(c) PROVE CallsBelow' /\ StoresBelow'
  BY <1>2, <1>9 DEF DeleteEntry, Types, Idle, Calls
<1>10. ASSUME CallFails(c) PROVE CallsBelow' /\ StoresBelow'
  BY <1>2, <1>10 DEF CallFails, Types, Idle, Calls, storeVars
<1> QED BY <1>3, <1>4, <1>5, <1>6, <1>7, <1>8, <1>9, <1>10, Zenon DEF ClientStep

LEMMA LoopAttempts ==
    ASSUME Types, Contexts, Attempts, NEW w \in Workers,
           LoopStep(w) \/ RequeueStart(w) \/ Stop(w) \/ Crash(w)
    PROVE  Attempts'
<1> USE DEF Attempts
<1>0. UNCHANGED call /\ (Trouble \/ UNCHANGED troubles)
  BY Zenon DEF LoopStep, Pop, PushBack, Claim, Spawn, RequeueRem, RequeueAdd, RequeueDone, ClaimFails,
         Drain, PopCancelled, Restart, RequeueStart, Stop, Crash, Exit, clientVars
<1>1. /\ Bound \in Nat /\ Bound' \in Nat /\ Bound <= Bound'
      /\ \A m \in Messages : m.attempt \in Nat
      /\ \A v \in Workers : \A m \in hand[v] \union expired[v] : m.attempt \in Nat
      /\ \A j \in jobs : j.msg.attempt \in Nat
      /\ \A m \in queue \union processing \union late \union dlq : m.attempt \in Nat
  BY <1>0, BoundTypes, Zenon DEF Types, Jobs
<1>2. CallsBelow'
  BY <1>0, <1>1 DEF CallsBelow, Types, Calls
<1>3. ASSUME UNCHANGED jobs PROVE JobsBelow'
  BY <1>1, <1>3 DEF JobsBelow
<1>4. ASSUME UNCHANGED <<queue, late, dlq>> PROVE StoresBelow'
  BY <1>1, <1>4 DEF StoresBelow
<1>5. ASSUME \A m \in processing' : m \in processing,
             \A m \in processing' : Waiting(m) => Waiting(m)',
             \A m \in processing' : InJob(m) => InJob(m)'
      PROVE  ProcessingBelow'
  BY <1>1, <1>5 DEF ProcessingBelow
<1>6. ASSUME processing' = processing, Bound' = Bound + 1 PROVE ProcessingBelow'
  BY <1>1, <1>6 DEF ProcessingBelow
<1>7. ASSUME NEW p, NEW h, at' = [at EXCEPT ![w] = p], hand' = [hand EXCEPT ![w] = h]
      PROVE  /\ at'[w] = p /\ hand'[w] = h
             /\ \A v \in Workers : v # w => at'[v] = at[v] /\ hand'[v] = hand[v]
             /\ at[w] # "wait" => \A m : Waiting(m) => Waiting(m)'
  BY <1>7, Zenon DEF Types, Waiting
<1>8. CASE Pop(w)
  <2>1. PICK m \in queue : /\ queue' = queue \ {m}
                           /\ Step(w, IF m \in due THEN "popped" ELSE "notdue", {m})
    BY <1>8, Zenon DEF Pop, Types
  <2>2. UNCHANGED <<processing, late, dlq, ctx, expired, jobs, troubles>> /\ at[w] = "poll"
    BY <1>8, Zenon DEF Pop
  <2>3. /\ at'[w] # "wait" /\ hand'[w] = {m}
        /\ \A v \in Workers : v # w => at'[v] = at[v] /\ hand'[v] = hand[v]
        /\ \A n : Waiting(n) => Waiting(n)'
    BY <1>7, <2>1, <2>2, Zenon DEF Step
  <2>4. LoopsBelow' /\ StoresBelow'
    BY <1>1, <2>1, <2>2, <2>3 DEF LoopsBelow, StoresBelow
  <2>5. ProcessingBelow'
    BY <1>5, <2>2, <2>3, Zenon DEF InJob
  <2> QED BY <1>2, <1>3, <2>2, <2>4, <2>5, Zenon
<1>9. CASE PushBack(w)
  <2>1. /\ UNCHANGED <<processing, late, dlq, ctx, expired, jobs>> /\ at[w] = "notdue"
        /\ queue' \subseteq queue \union hand[w]
    BY <1>9, Zenon DEF PushBack
  <2>2. /\ at'[w] = "poll" /\ hand'[w] = {}
        /\ \A v \in Workers : v # w => at'[v] = at[v] /\ hand'[v] = hand[v]
        /\ \A n : Waiting(n) => Waiting(n)'
    BY <1>7, <1>9, <2>1, Zenon DEF PushBack, Step
  <2>3. LoopsBelow' /\ StoresBelow'
    BY <1>1, <2>1, <2>2 DEF LoopsBelow, StoresBelow
  <2>4. ProcessingBelow'
    BY <1>5, <2>1, <2>2, Zenon DEF InJob
  <2> QED BY <1>2, <1>3, <2>1, <2>3, <2>4, Zenon
<1>10. CASE Claim(w)
  <2>1. /\ UNCHANGED <<queue, late, dlq, ctx, expired, troubles>> /\ at[w] = "popped"
        /\ ctx[w] = "live" /\ Bound' = Bound
        /\ processing' = processing \union Claimed(w)
    BY <1>10, Zenon DEF Claim, Live, Contexts, Types, Bound
  <2>2. \A m \in Claimed(w) : m.attempt \in Nat /\ m.attempt <= Bound
    BY <1>1, <2>1, ClaimedMessages DEF LoopsBelow
  <2>3. CASE Cardinality(JobsOf(w)) < Concurrency
    <3>1. /\ jobs' = jobs \union {NewJob(w, m, FALSE) : m \in Claimed(w)}
          /\ Step(w, "poll", {})
      BY <1>10, <2>3, Zenon DEF Claim
    <3>2. /\ at'[w] = "poll" /\ hand'[w] = {}
          /\ \A v \in Workers : v # w => at'[v] = at[v] /\ hand'[v] = hand[v]
          /\ \A n : Waiting(n) => Waiting(n)'
      BY <1>7, <2>1, <3>1, Zenon DEF Step
    <3>3. LoopsBelow' /\ StoresBelow'
      BY <1>1, <2>1, <3>2, Zenon DEF LoopsBelow, StoresBelow
    <3>4. \A j \in jobs' \ jobs : j.msg \in Claimed(w) /\ j.step = "run"
      BY <3>1 DEF NewJob
    <3>5. JobsBelow'
      BY <1>1, <2>1, <2>2, <3>4, Zenon DEF JobsBelow
    <3>6. \A m \in Claimed(w) : InJob(m)'
      <4>1. \A m \in Claimed(w) : /\ NewJob(w, m, FALSE) \in jobs' /\ NewJob(w, m, FALSE).msg = m
                                  /\ NewJob(w, m, FALSE).live /\ NewJob(w, m, FALSE).step = "run"
        BY <2>1, <3>1, Zenon DEF NewJob, Live
      <4> QED BY <4>1, Zenon DEF InJob
    <3>7. \A m : InJob(m) => InJob(m)'
      BY <3>1, Zenon DEF InJob
    <3>8. ProcessingBelow'
      BY <1>1, <2>1, <2>2, <3>2, <3>6, <3>7, Zenon DEF ProcessingBelow
    <3> QED BY <1>2, <3>3, <3>5, <3>8, Zenon
  <2>4. CASE ~(Cardinality(JobsOf(w)) < Concurrency)
    <3>1. UNCHANGED jobs /\ Step(w, "wait", Claimed(w))
      BY <1>10, <2>4, Zenon DEF Claim
    <3>2. /\ at'[w] = "wait" /\ hand'[w] = Claimed(w)
          /\ \A v \in Workers : v # w => at'[v] = at[v] /\ hand'[v] = hand[v]
          /\ \A n : Waiting(n) => Waiting(n)'
      BY <1>7, <2>1, <3>1, Zenon DEF Step
    <3>3. LoopsBelow' /\ StoresBelow'
      BY <1>1, <2>1, <2>2, <3>2, Zenon DEF LoopsBelow, StoresBelow
    <3>4. \A m \in Claimed(w) : Waiting(m)'
      BY <3>2, Zenon DEF Waiting
    <3>5. ProcessingBelow'
      BY <1>1, <2>1, <2>2, <3>1, <3>2, <3>4, Zenon DEF ProcessingBelow, InJob
    <3> QED BY <1>2, <1>3, <3>1, <3>3, <3>5, Zenon
  <2> QED BY <2>3, <2>4, Zenon
<1>11. CASE Spawn(w)
  <2>1. /\ UNCHANGED <<queue, processing, late, dlq, ctx, expired, troubles>> /\ at[w] = "wait"
        /\ jobs' = jobs \union {NewJob(w, m, TRUE) : m \in hand[w]} /\ Bound' = Bound
    BY <1>11, Zenon DEF Spawn, storeVars, Bound
  <2>2. /\ at'[w] = "poll" /\ hand'[w] = {}
        /\ \A v \in Workers : v # w => at'[v] = at[v] /\ hand'[v] = hand[v]
    BY <1>7, <1>11, Zenon DEF Spawn, Step
  <2>3. LoopsBelow' /\ StoresBelow'
    BY <1>1, <1>4, <2>1, <2>2, Zenon DEF LoopsBelow
  <2>4. \A j \in jobs' \ jobs : j.msg \in hand[w] /\ j.step = "run"
    BY <2>1 DEF NewJob
  <2>5. JobsBelow'
    BY <1>1, <2>1, <2>4, Zenon DEF JobsBelow, LoopsBelow
  <2>6. ASSUME NEW m \in hand[w], m.attempt = Bound PROVE InJob(m)'
    <3>1. ctx[w] = "live"
      BY <1>1, <2>6 DEF LoopsBelow
    <3>2. /\ NewJob(w, m, TRUE) \in jobs' /\ NewJob(w, m, TRUE).msg = m
          /\ NewJob(w, m, TRUE).live /\ NewJob(w, m, TRUE).step = "run"
      BY <2>1, <2>6, <3>1, Zenon DEF NewJob, Live
    <3> QED BY <3>2, Zenon DEF InJob
  <2>7. \A m : InJob(m) => InJob(m)'
    BY <2>1, Zenon DEF InJob
  <2>8. \A m : Waiting(m) => m \in hand[w] \/ Waiting(m)'
    BY <2>2, Zenon DEF Waiting
  <2>9. ProcessingBelow'
    BY <1>1, <2>1, <2>6, <2>7, <2>8, Zenon DEF ProcessingBelow
  <2> QED BY <1>2, <2>3, <2>5, <2>9, Zenon
<1>12. CASE RequeueRem(w)
  <2>1. PICK m \in expired[w] : /\ expired' = [expired EXCEPT ![w] = @ \ {m}]
                                /\ Step(w, "readd", {m})
    BY <1>12, Zenon DEF RequeueRem
  <2>2. /\ UNCHANGED <<queue, dlq, ctx, jobs>> /\ at[w] = "requeue"
        /\ processing' \subseteq processing /\ late' \subseteq late
    BY <1>12, Zenon DEF RequeueRem
  <2>3. /\ at'[w] = "readd" /\ hand'[w] = {m}
        /\ \A v \in Workers : v # w => at'[v] = at[v] /\ hand'[v] = hand[v]
        /\ \A n : Waiting(n) => Waiting(n)'
    BY <1>7, <2>1, <2>2, Zenon DEF Step
  <2>4. \A v \in Workers : expired'[v] \subseteq expired[v]
    BY <2>1, Zenon DEF Types
  <2>5. LoopsBelow' /\ StoresBelow'
    BY <1>1, <2>1, <2>2, <2>3, <2>4 DEF LoopsBelow, StoresBelow
  <2>6. ProcessingBelow'
    BY <1>5, <2>2, <2>3, Zenon DEF InJob
  <2> QED BY <1>2, <1>3, <2>2, <2>5, <2>6, Zenon
<1>13. CASE RequeueAdd(w)
  <2>1. /\ UNCHANGED <<processing, late, dlq, ctx, expired, jobs>> /\ at[w] = "readd"
        /\ queue' \subseteq queue \union {Message(m.key, m.attempt) : m \in hand[w]}
    BY <1>13, Zenon DEF RequeueAdd
  <2>2. /\ at'[w] = "requeue" /\ hand'[w] = {}
        /\ \A v \in Workers : v # w => at'[v] = at[v] /\ hand'[v] = hand[v]
        /\ \A n : Waiting(n) => Waiting(n)'
    BY <1>7, <1>13, <2>1, Zenon DEF RequeueAdd, Step
  <2>3. \A n \in queue' : n \in queue \/ \E m \in hand[w] : n.attempt = m.attempt
    BY <2>1 DEF Message
  <2>4. LoopsBelow' /\ StoresBelow'
    BY <1>1, <2>1, <2>2, <2>3 DEF LoopsBelow, StoresBelow
  <2>5. ProcessingBelow'
    BY <1>5, <2>1, <2>2, Zenon DEF InJob
  <2> QED BY <1>2, <1>3, <2>1, <2>4, <2>5, Zenon
<1>14. CASE RequeueDone(w) \/ RequeueStart(w) \/ Drain(w) \/ Restart(w)
  <2>1. /\ UNCHANGED <<queue, processing, late, dlq, hand, jobs>>
        /\ at[w] # "wait" /\ at'[w] # "wait" /\ \A v \in Workers : v # w => at'[v] = at[v] /\ ctx'[v] = ctx[v]
        /\ \A v \in Workers : expired'[v] \subseteq expired[v] \union late
    BY <1>14, Zenon DEF RequeueDone, RequeueStart, Drain, Restart, storeVars, Types
  <2>2. LoopsBelow'
    <3> SUFFICES ASSUME NEW v \in Workers
                 PROVE  /\ \A m \in expired'[v] : m.attempt < Bound'
                        /\ \A m \in hand[v] : m.attempt <= Bound'
                        /\ (at'[v] # "wait" \/ ctx'[v] # "live") => \A m \in hand[v] : m.attempt < Bound'
      BY <2>1, Zenon DEF LoopsBelow
    <3>1. \A m \in expired'[v] : m.attempt < Bound'
      BY <1>1, <2>1 DEF LoopsBelow, StoresBelow
    <3>2. \A m \in hand[v] : m.attempt <= Bound'
      BY <1>1 DEF LoopsBelow
    <3>3. ASSUME at'[v] # "wait" \/ ctx'[v] # "live" PROVE \A m \in hand[v] : m.attempt < Bound'
      BY <1>1, <2>1, <3>3 DEF LoopsBelow
    <3> QED BY <3>1, <3>2, <3>3, Zenon
  <2>3. \A m : Waiting(m) => Waiting(m)'
    BY <2>1, Zenon DEF Waiting
  <2>4. ProcessingBelow'
    BY <1>5, <2>1, <2>3, Zenon DEF InJob
  <2> QED BY <1>2, <1>3, <1>4, <2>1, <2>2, <2>4, Zenon
<1>15. CASE Stop(w)
  <2>1. /\ UNCHANGED <<queue, processing, late, dlq, at, hand, expired>> /\ Bound' = Bound + 1
    BY <1>15, BoundTypes, Zenon DEF Stop, storeVars
  <2>2. \A i \in jobs' : \E j \in jobs : i.msg = j.msg /\ i.step = j.step
    <3>1. \A j \in jobs : [j EXCEPT !.live = FALSE].msg = j.msg /\ [j EXCEPT !.live = FALSE].step = j.step
      BY Zenon DEF Types, Jobs
    <3> QED BY <1>15, <3>1, Zenon DEF Stop
  <2>3. LoopsBelow'
    <3>1. \A v \in Workers : /\ \A m \in hand[v] : m.attempt < Bound' /\ m.attempt <= Bound'
                            /\ \A m \in expired[v] : m.attempt < Bound'
      BY <1>1, <2>1 DEF LoopsBelow
    <3> QED BY <2>1, <3>1, Zenon DEF LoopsBelow
  <2>4. JobsBelow'
    <3> SUFFICES ASSUME NEW i \in jobs'
                 PROVE  i.msg.attempt <= Bound' /\ (i.step = "retry" => i.msg.attempt < MaxAttempts)
      BY Zenon DEF JobsBelow
    <3>1. PICK j \in jobs : i.msg = j.msg /\ i.step = j.step
      BY <2>2, Zenon
    <3> QED BY <1>1, <3>1 DEF JobsBelow
  <2> QED BY <1>2, <1>4, <1>6, <2>1, <2>3, <2>4, Zenon
<1>16. CASE ClaimFails(w) \/ PopCancelled(w) \/ Crash(w)
  <2>1. /\ UNCHANGED <<queue, processing, late, dlq, ctx>> /\ jobs' = jobs \ JobsOf(w)
        /\ hand'[w] = {} /\ expired'[w] = {}
        /\ \A v \in Workers : v # w => at'[v] = at[v] /\ hand'[v] = hand[v] /\ expired'[v] = expired[v]
    BY <1>16, Zenon DEF ClaimFails, PopCancelled, Crash, Exit, storeVars, Types
  <2>2. LoopsBelow' /\ JobsBelow'
    <3>1. LoopsBelow'
      BY <1>1, <2>1 DEF LoopsBelow
    <3>2. JobsBelow'
      BY <1>1, <2>1 DEF JobsBelow
    <3> QED BY <3>1, <3>2, Zenon
  <2>3. CASE Trouble
    <3>1. Bound' = Bound + 1
      BY <2>3, BoundTypes, Zenon
    <3> QED BY <1>2, <1>4, <1>6, <2>1, <2>2, <3>1, Zenon
  <2>4. CASE ~Trouble
    <3>1. ctx[w] = "cancelled" /\ at[w] # "wait"
      BY <1>16, <2>4, Zenon DEF ClaimFails, PopCancelled, Crash, Live
    <3>2. \A m : Waiting(m) => Waiting(m)'
      BY <2>1, <3>1, Zenon DEF Waiting
    <3>3. \A j \in JobsOf(w) : ~j.live
      BY <3>1, Zenon DEF Contexts, JobsOf
    <3>4. \A m : InJob(m) => InJob(m)'
      BY <2>1, <3>3, Zenon DEF InJob
    <3>5. ProcessingBelow'
      BY <1>5, <2>1, <3>2, <3>4, Zenon
    <3> QED BY <1>2, <1>4, <2>1, <2>2, <3>5, Zenon
  <2> QED BY <2>3, <2>4, Zenon
<1> QED BY <1>8, <1>9, <1>10, <1>11, <1>12, <1>13, <1>14, <1>15, <1>16, Zenon DEF LoopStep

LEMMA JobAttempts ==
    ASSUME Types, Attempts, NEW j \in jobs, JobStep(j) \/ JobCallFails(j) \/ SoftDeadline(j)
    PROVE  Attempts'
<1> USE DEF Attempts
<1>0. UNCHANGED <<call, at, ctx, hand, expired>> /\ (Trouble \/ UNCHANGED troubles)
  BY Zenon DEF JobStep, HandlerReturns, JobCall, JobEnds, JobCallFails, SoftDeadline, clientVars, loopVars
<1>1. /\ Bound \in Nat /\ Bound' \in Nat /\ Bound <= Bound' /\ MaxAttempts <= Bound
      /\ MaxAttempts \in Nat
      /\ \A v \in Workers : \A m \in hand[v] \union expired[v] : m.attempt \in Nat
      /\ \A i \in jobs : i.msg.attempt \in Nat
      /\ \A m \in queue \union processing \union late \union dlq : m.attempt \in Nat
      /\ j.msg \in Messages /\ j.msg.key \in Keys
  BY <1>0, BoundTypes, QueueConstants, Zenon DEF Types, Jobs, Messages
<1>2. CallsBelow'
  BY <1>0, <1>1 DEF CallsBelow, Types, Calls
<1>3. LoopsBelow' /\ (\A m : Waiting(m) => Waiting(m)')
  BY <1>0, <1>1 DEF LoopsBelow, Waiting
<1>4. ASSUME UNCHANGED <<queue, late, dlq>> PROVE StoresBelow'
  BY <1>1, <1>4 DEF StoresBelow
<1>5. ASSUME processing' = processing, Bound' = Bound + 1 PROVE ProcessingBelow'
  BY <1>1, <1>5 DEF ProcessingBelow
<1>6. ASSUME processing' \subseteq processing, \A m \in processing' : InJob(m) => InJob(m)'
      PROVE  ProcessingBelow'
  BY <1>1, <1>3, <1>6 DEF ProcessingBelow
<1>7. /\ \A s : /\ [j EXCEPT !.step = s].msg = j.msg /\ [j EXCEPT !.step = s].step = s
                /\ [j EXCEPT !.step = s].live = j.live
      /\ [j EXCEPT !.live = FALSE].msg = j.msg /\ [j EXCEPT !.live = FALSE].step = j.step
  BY Zenon DEF Types, Jobs
<1>8. CASE HandlerReturns(j)
  <2>1. PICK i : /\ jobs' = (jobs \ {j}) \union {i} /\ i.msg = j.msg /\ i.live = j.live
                 /\ i.step \in {"ackRem", "rem"}
    BY <1>7, <1>8, Zenon DEF HandlerReturns, Moved
  <2>2. UNCHANGED <<queue, processing, late, dlq, troubles>> /\ j.step = "run"
    BY <1>8, Zenon DEF HandlerReturns, storeVars
  <2>3. JobsBelow'
    BY <1>1, <2>1 DEF JobsBelow
  <2>4. \A m : InJob(m) => InJob(m)'
    BY <2>1, <2>2, Zenon DEF InJob
  <2> QED BY <1>2, <1>3, <1>4, <1>6, <2>2, <2>3, <2>4, Zenon
<1>9. ASSUME Advance(j) PROVE JobsBelow' /\ (\A i \in jobs : i # j => i \in jobs')
  <2>1. j \in Jobs
    BY Zenon DEF Types
  <2>2. CASE Following(j) = "end"
    BY <1>1, <1>9, <2>2 DEF Advance, Ended, JobsBelow
  <2>3. CASE Following(j) # "end"
    <3>1. PICK i : /\ jobs' = (jobs \ {j}) \union {i} /\ i.msg = j.msg /\ i.step = Following(j)
      BY <1>7, <1>9, <2>3, Zenon DEF Advance, Moved
    <3>2. ASSUME Following(j) = "retry" PROVE j.msg.attempt < MaxAttempts
      <4>1. j.step \in JobSteps
        BY <2>1, Zenon DEF Jobs
      <4>2. j.step = "rem" /\ ~(j.msg.attempt >= MaxAttempts)
        BY <2>1, <3>2, <4>1, FollowingStep, Zenon DEF JobSteps
      <4> QED BY <1>1, <4>2
    <3> QED BY <1>1, <3>1, <3>2 DEF JobsBelow
  <2> QED BY <2>2, <2>3, Zenon
<1>10. CASE JobCall(j)
  <2>1. JobsBelow' /\ (\A i \in jobs : i # j => i \in jobs')
    BY <1>9, <1>10, Zenon DEF JobCall
  <2>2. CASE Remove(j)
    <3>1. StoresBelow'
      BY <1>1, <2>2 DEF Remove, StoresBelow
    <3>2. \A m \in processing' : InJob(m) => InJob(m)'
      BY <2>1, <2>2, Zenon DEF Remove, InJob
    <3> QED BY <1>2, <1>3, <1>6, <2>1, <2>2, <3>1, <3>2, Zenon DEF Remove
  <2>3. ASSUME j.step \notin {"run", "ackRem", "rem"}, UNCHANGED processing PROVE ProcessingBelow'
    <3>1. \A m \in processing' : InJob(m) => InJob(m)'
      BY <2>1, <2>3, Zenon DEF InJob
    <3> QED BY <1>6, <2>3, <3>1, Zenon
  <2>4. CASE Retry(j)
    <3>1. Message(j.msg.key, j.msg.attempt).attempt = j.msg.attempt
      BY Zenon DEF Message
    <3>2. j.msg.attempt < Bound'
      BY <1>1, <2>4 DEF JobsBelow, Retry
    <3>3. StoresBelow'
      BY <1>1, <2>4, <3>1, <3>2 DEF Retry, StoresBelow
    <3> QED BY <1>2, <1>3, <2>1, <2>3, <2>4, <3>3, Zenon DEF Retry
  <2>5. CASE PushToDLQ(j)
    <3>1. StoresBelow'
      BY <1>1, <2>5 DEF PushToDLQ, StoresBelow, JobsBelow
    <3> QED BY <1>2, <1>3, <2>1, <2>3, <2>5, <3>1, Zenon DEF PushToDLQ
  <2>6. CASE Release(j)
    BY <1>2, <1>3, <1>4, <2>1, <2>3, <2>6, Zenon DEF Release
  <2> QED BY <1>10, <2>2, <2>4, <2>5, <2>6, Zenon DEF JobCall
<1>11. CASE JobEnds(j)
  <2>1. /\ UNCHANGED <<queue, processing, late, dlq, troubles>> /\ ~j.live
        /\ jobs' = jobs \ {j}
    BY <1>11, Zenon DEF JobEnds, Ended, storeVars
  <2>2. \A m : InJob(m) => InJob(m)'
    BY <2>1, Zenon DEF InJob
  <2>3. JobsBelow'
    BY <1>1, <2>1 DEF JobsBelow
  <2> QED BY <1>2, <1>3, <1>4, <1>6, <2>1, <2>2, <2>3, Zenon
<1>12. CASE JobCallFails(j)
  <2>1. UNCHANGED <<queue, processing, late, dlq>> /\ Bound' = Bound + 1
    BY <1>12, BoundTypes, Zenon DEF JobCallFails, storeVars
  <2> QED BY <1>2, <1>3, <1>4, <1>5, <1>9, <1>12, <2>1, Zenon DEF JobCallFails
<1>13. CASE SoftDeadline(j)
  <2>1. /\ UNCHANGED <<queue, processing, late, dlq>> /\ Bound' = Bound + 1
    BY <1>13, BoundTypes, Zenon DEF SoftDeadline, storeVars
  <2>2. PICK i : jobs' = (jobs \ {j}) \union {i} /\ i.msg = j.msg /\ i.step = j.step
    BY <1>7, <1>13, Zenon DEF SoftDeadline
  <2>3. JobsBelow'
    BY <1>1, <2>1, <2>2 DEF JobsBelow
  <2> QED BY <1>2, <1>3, <1>4, <1>5, <2>1, <2>3, Zenon
<1> QED BY <1>8, <1>10, <1>11, <1>12, <1>13, Zenon DEF JobStep

LEMMA TimeAttempts ==
    ASSUME Types, Attempts,
           \/ \E m \in queue : BecomesDue(m)
           \/ \E m \in processing : VisibilityElapsed(m) \/ VisibilityTooShort(m)
           \/ \E k \in Keys : DedupExpires(k)
    PROVE  Attempts'
<1> USE DEF Attempts
<1>1. /\ UNCHANGED <<queue, processing, dlq, call, at, ctx, hand, expired, jobs>>
      /\ Trouble \/ UNCHANGED troubles
  BY Zenon DEF BecomesDue, VisibilityElapsed, VisibilityTooShort, Expire, DedupExpires, clientVars, loopVars
<1>2. /\ Bound \in Nat /\ Bound' \in Nat /\ Bound <= Bound'
      /\ \A v \in Workers : \A m \in hand[v] \union expired[v] : m.attempt \in Nat
      /\ \A i \in jobs : i.msg.attempt \in Nat
      /\ \A m \in queue \union processing \union late \union dlq : m.attempt \in Nat
      /\ \A c \in Clients : call[c].attempt \in Nat
  BY <1>1, BoundTypes, Zenon DEF Types, Jobs, Calls
<1>3. CallsBelow' /\ LoopsBelow' /\ JobsBelow'
  <2>1. CallsBelow'
    BY <1>1, <1>2 DEF CallsBelow
  <2>2. JobsBelow'
    BY <1>1, <1>2 DEF JobsBelow
  <2>3. LoopsBelow'
    BY <1>1, <1>2 DEF LoopsBelow
  <2> QED BY <2>1, <2>2, <2>3, Zenon
<1>4. ProcessingBelow'
  <2>1. \A m : (Waiting(m)' <=> Waiting(m)) /\ (InJob(m)' <=> InJob(m))
    BY <1>1, Zenon DEF Waiting, InJob
  <2> QED BY <1>1, <1>2, <2>1 DEF ProcessingBelow
<1>5. ASSUME \A m \in late' : m \in late \/ m.attempt < Bound', UNCHANGED <<queue, dlq>> PROVE StoresBelow'
  <2>1. \A m \in late' : m.attempt < Bound'
    BY <1>2, <1>5 DEF StoresBelow
  <2>2. (\A m \in queue : m.attempt < Bound') /\ (\A e \in dlq : e.attempt <= Bound')
    BY <1>2 DEF StoresBelow
  <2> QED BY <1>5, <2>1, <2>2, Zenon DEF StoresBelow
<1>6. ASSUME NEW m \in processing, VisibilityElapsed(m) PROVE StoresBelow'
  <2>1. ~Waiting(m) /\ ~InJob(m) /\ late' = late \union {m}
    BY <1>6, Zenon DEF VisibilityElapsed, Expire, RunningWith, InJob
  <2> QED BY <1>1, <1>2, <1>5, <2>1 DEF ProcessingBelow
<1>7. ASSUME NEW m \in processing, VisibilityTooShort(m) PROVE StoresBelow'
  <2>1. Bound' = Bound + 1 /\ late' = late \union {m}
    BY <1>7, BoundTypes, Zenon DEF VisibilityTooShort, Expire
  <2> QED BY <1>1, <1>2, <1>5, <2>1 DEF ProcessingBelow
<1>8. ASSUME \/ \E m \in queue : BecomesDue(m)
             \/ \E k \in Keys : DedupExpires(k)
      PROVE  StoresBelow'
  BY <1>1, <1>5, <1>8, Zenon DEF BecomesDue, DedupExpires
<1> QED BY <1>3, <1>4, <1>6, <1>7, <1>8, Zenon

\* However workers race for late messages and handlers outlive their deadlines,
\* every attempt beyond max_attempts is paid for by a failure of its own.
THEOREM RetriesAlwaysPaid == Spec => []RetriesPaid
<1>1. Init => Types /\ Contexts /\ Attempts
  BY InitTypes, InitAttempts, Zenon
<1>2. Types /\ Contexts /\ Attempts /\ [Next]_vars => (Types /\ Contexts /\ Attempts)'
  <2> SUFFICES ASSUME Types, Contexts, Attempts, [Next]_vars PROVE Attempts'
    BY StepTypes, StepContexts, Zenon
  <2>1. CASE UNCHANGED vars
    BY <2>1, Zenon DEF Attempts, CallsBelow, StoresBelow, LoopsBelow, JobsBelow, ProcessingBelow, Waiting,
                InJob, Bound, vars, storeVars, clientVars, loopVars
  <2>2. CASE Next
    BY <2>2, ClientAttempts, LoopAttempts, JobAttempts, TimeAttempts, Zenon DEF Next
  <2> QED BY <2>1, <2>2, Zenon
<1>3. Types /\ Attempts => RetriesPaid
  <2> SUFFICES ASSUME Types, Attempts, NEW m \in queue \union processing \union dlq
               PROVE  m.attempt <= Bound
    BY Zenon DEF RetriesPaid, Bound
  <2>1. Bound \in Nat /\ m.attempt \in Nat
    BY QueueConstants DEF Bound, Types, Messages
  <2> QED BY <2>1 DEF Attempts, StoresBelow, ProcessingBelow
<1> QED BY <1>1, <1>2, <1>3, PTL DEF Spec


----------------------------------------------------------------------------
(***************************************************************************)
(* No task is lost.  A message in the processing set whose job has         *)
(* succeeded is about to go, and so is a dead letter that a replay has     *)
(* enqueued again: the witness for an owed task is another one.  That the  *)
(* witness stays another one follows from the stamps: the queue, the loops *)
(* that hold a message to run it, the jobs and the dead letters never      *)
(* share one.  (The processing set and requeueExpired may.)                *)
(***************************************************************************)

Holding(w) == at[w] \in {"popped", "notdue", "wait"}
Active(j) == j.step # "del"
Buried(e) == e \in dlq \/ \E c \in Clients : e \in call[c].entry

QueueApart == \A m, n \in queue : m.stamp = n.stamp => m = n
HandsApart ==
    \A w \in Workers : Holding(w) => \A m \in hand[w] :
        /\ \A n \in queue : n.stamp # m.stamp
        /\ \A v \in Workers : v # w /\ Holding(v) => \A n \in hand[v] : n.stamp # m.stamp
JobsApart ==
    \A j \in jobs : Active(j) =>
        /\ \A n \in queue : n.stamp # j.msg.stamp
        /\ \A w \in Workers : Holding(w) => \A n \in hand[w] : n.stamp # j.msg.stamp
        /\ \A i \in jobs : Active(i) /\ i.msg.stamp = j.msg.stamp => i = j
BuriedApart ==
    \A e : Buried(e) =>
        /\ \A n \in queue : n.stamp # e.stamp
        /\ \A w \in Workers : Holding(w) => \A n \in hand[w] : n.stamp # e.stamp
        /\ \A j \in jobs : Active(j) => j.msg.stamp # e.stamp
EntryKeys == \A c \in Clients : \A e \in call[c].entry : e.key = call[c].key

Apart == QueueApart /\ HandsApart /\ JobsApart /\ BuriedApart /\ EntryKeys

LEMMA InitApart == Init => Apart
<1> SUFFICES ASSUME Init PROVE Apart
  BY Zenon
<1>1. \A c \in Clients : call[c].entry = {}
  BY DEF Init
<1> QED BY <1>1, Zenon DEF Init, Apart, QueueApart, HandsApart, JobsApart, BuriedApart, EntryKeys, Holding, Buried

\* Nothing new anywhere.
LEMMA FewerApart ==
    ASSUME Apart,
           queue' \subseteq queue,
           \A w \in Workers : Holding(w)' => Holding(w) /\ hand'[w] \subseteq hand[w],
           \A i \in jobs' : Active(i) => \E j \in jobs : Active(j) /\ j.msg = i.msg,
           \A i, j \in jobs' : Active(i) /\ Active(j) /\ i.msg.stamp = j.msg.stamp => i = j,
           \A e : Buried(e)' => Buried(e),
           EntryKeys'
    PROVE  Apart'
<1>1. QueueApart'
  BY Zenon DEF Apart, QueueApart
<1>2. HandsApart'
  BY Zenon DEF Apart, HandsApart
<1>3. JobsApart'
  BY Zenon DEF Apart, JobsApart
<1>4. BuriedApart'
  BY Zenon DEF Apart, BuriedApart
<1> QED BY <1>1, <1>2, <1>3, <1>4, Zenon DEF Apart

\* One message with a new stamp in the queue.
LEMMA AddedApart ==
    ASSUME Apart, StampFree, NEW k \in Keys, NEW n \in Nat, Types,
           queue' = queue \union {Message(k, n)},
           \A w \in Workers : Holding(w)' => Holding(w) /\ hand'[w] \subseteq hand[w],
           jobs' \subseteq jobs,
           \A e : Buried(e)' => Buried(e),
           EntryKeys'
    PROVE  Apart'
<1> DEFINE q == Message(k, n)
<1>1. /\ \A m \in queue : m.stamp # q.stamp
      /\ \A j \in jobs : j.msg.stamp # q.stamp
      /\ \A w \in Workers : \A m \in hand[w] : m.stamp # q.stamp
      /\ \A e : Buried(e) => e.stamp # q.stamp
  BY NewMessage DEF Buried
<1>2. \A m \in queue' : m \in queue \/ m = q
  BY Zenon
<1> HIDE DEF q
<1>3. QueueApart'
  BY <1>1, <1>2, Zenon DEF Apart, QueueApart
<1>4. HandsApart'
  BY <1>1, <1>2, Zenon DEF Apart, HandsApart
<1>5. JobsApart'
  BY <1>1, <1>2, Zenon DEF Apart, JobsApart
<1>6. BuriedApart'
  BY <1>1, <1>2, Zenon DEF Apart, BuriedApart
<1> QED BY <1>3, <1>4, <1>5, <1>6, Zenon DEF Apart

LEMMA ClientApart ==
    ASSUME Types, Apart, NEW c \in Clients,
           \/ \E k \in Keys : EnqueueStart(c, k)
           \/ \E e \in dlq : ReplayStart(c, e)
           \/ ClientStep(c) \/ CallFails(c)
    PROVE  Apart'
<1>1. UNCHANGED <<jobs, at, hand>> /\ dlq' \subseteq dlq
  BY Zenon DEF EnqueueStart, ReplayStart, ClientStep, EnqueueSetNX, EnqueueAdd, DeleteEntry, CallFails,
         storeVars, loopVars
<1>2. \A d \in Clients : d # c => call'[d] = call[d]
  BY Zenon DEF EnqueueStart, ReplayStart, ClientStep, EnqueueSetNX, EnqueueAdd, DeleteEntry, CallFails, Types
<1>3. call'[c].entry \subseteq call[c].entry \union dlq /\ \A e \in call'[c].entry : e.key = call'[c].key
  <2>1. call[c] \in Calls /\ \A e \in call[c].entry : e.key = call[c].key
    BY Zenon DEF Types, Apart, EntryKeys
  <2>2. \A k \in Keys : EnqueueStart(c, k) => call'[c].entry = {}
    BY DEF EnqueueStart, Types
  <2>3. \A e \in dlq : ReplayStart(c, e) => call'[c].entry = {e} /\ call'[c].key = e.key
    BY DEF ReplayStart, Types
  <2>4. Idle(c).entry = {}
    BY <2>1, Zenon DEF Idle, Calls
  <2>5. \A s : [call[c] EXCEPT !.step = s].entry = call[c].entry /\ [call[c] EXCEPT !.step = s].key = call[c].key
    BY <2>1, Zenon DEF Calls
  <2>6. ClientStep(c) \/ CallFails(c) =>
          call'[c] = Idle(c) \/ \E s : call'[c] = [call[c] EXCEPT !.step = s]
    BY Zenon DEF ClientStep, EnqueueSetNX, EnqueueAdd, DeleteEntry, CallFails, Types
  <2> QED BY <2>1, <2>2, <2>3, <2>4, <2>5, <2>6, Zenon
<1>4. EntryKeys'
  BY <1>2, <1>3, Zenon DEF Apart, EntryKeys
<1>5. \A e : Buried(e)' => Buried(e)
  BY <1>1, <1>2, <1>3, Zenon DEF Buried
<1>6. \A w \in Workers : Holding(w)' => Holding(w) /\ hand'[w] \subseteq hand[w]
  BY <1>1, Zenon DEF Holding
<1>7. CASE EnqueueAdd(c)
  <2>1. call[c].key \in Keys /\ call[c].attempt \in Nat
    BY Zenon DEF Types, Calls
  <2> QED BY <1>1, <1>4, <1>5, <1>6, <1>7, <2>1, AddedApart, Zenon DEF EnqueueAdd
<1>8. CASE ~EnqueueAdd(c)
  <2>1. queue' = queue
    BY <1>8, Zenon DEF EnqueueStart, ReplayStart, ClientStep, EnqueueSetNX, DeleteEntry, CallFails, storeVars
  <2>2. \A i, j \in jobs' : Active(i) /\ Active(j) /\ i.msg.stamp = j.msg.stamp => i = j
    BY <1>1, Zenon DEF Apart, JobsApart
  <2> QED BY <1>1, <1>4, <1>5, <1>6, <2>1, <2>2, FewerApart, Zenon
<1> QED BY <1>7, <1>8, Zenon

LEMMA NewJobs ==
    ASSUME NEW w \in Workers, NEW M, \A m, n \in M : m = n, NEW b \in BOOLEAN,
           jobs' = jobs \union {NewJob(w, m, b) : m \in M}
    PROVE  /\ \A i, j \in jobs' \ jobs : i = j
           /\ \A i \in jobs' \ jobs : i.msg \in M
<1>1. ASSUME NEW i \in jobs' \ jobs PROVE \E m \in M : i = NewJob(w, m, b)
  BY Zenon
<1>2. \A m : NewJob(w, m, b).msg = m
  BY Zenon DEF NewJob
<1> QED BY <1>1, <1>2

\* The message that a loop holds becomes a job.
LEMMA StartedApart ==
    ASSUME Apart, NEW w \in Workers, Holding(w),
           jobs \subseteq jobs',
           \A i, j \in jobs' \ jobs : i = j,
           \A i \in jobs' \ jobs : \E n \in hand[w] : n.stamp = i.msg.stamp,
           UNCHANGED <<queue, dlq, call>>, hand'[w] = {},
           \A v \in Workers : v # w => hand'[v] = hand[v] /\ at'[v] = at[v]
    PROVE  Apart'
<1>1. ASSUME NEW i \in jobs', i \notin jobs
      PROVE  /\ \E n \in hand[w] : n.stamp = i.msg.stamp
             /\ \A j \in jobs' : j \notin jobs => i = j
  BY <1>1, Zenon
<1>2. \A j \in jobs : j \in jobs'
  BY Zenon
<1>3. \A v \in Workers : Holding(v)' /\ hand'[v] # {} => v # w /\ Holding(v) /\ hand'[v] = hand[v]
  BY Zenon DEF Holding
<1>4. \A e : Buried(e)' => Buried(e)
  BY Zenon DEF Buried
<1>5. EntryKeys' /\ QueueApart'
  BY Zenon DEF Apart, EntryKeys, QueueApart
<1>6. HandsApart'
  BY <1>3 DEF Apart, HandsApart
<1>7. JobsApart'
  <2> SUFFICES ASSUME NEW j \in jobs', Active(j)
               PROVE  /\ \A n \in queue : n.stamp # j.msg.stamp
                      /\ \A v \in Workers : Holding(v)' => \A n \in hand'[v] : n.stamp # j.msg.stamp
                      /\ \A i \in jobs' : Active(i) /\ i.msg.stamp = j.msg.stamp => i = j
    BY Zenon DEF JobsApart
  <2>1. CASE j \in jobs
    BY <1>1, <1>3, <2>1, ZenonT(30) DEF Apart, JobsApart
  <2>2. CASE j \notin jobs
    BY <1>1, <1>3, <2>2 DEF Apart, JobsApart, HandsApart
  <2> QED BY <2>1, <2>2, Zenon
<1>8. BuriedApart'
  BY <1>1, <1>3, <1>4 DEF Apart, BuriedApart
<1> QED BY <1>5, <1>6, <1>7, <1>8, Zenon DEF Apart

LEMMA LoopApart ==
    ASSUME Types, OneInHand, Apart, NEW w \in Workers,
           LoopStep(w) \/ RequeueStart(w) \/ Stop(w) \/ Crash(w)
    PROVE  Apart'
<1>1. /\ UNCHANGED <<call, dlq>>
      /\ \A v \in Workers : v # w => at'[v] = at[v] /\ hand'[v] = hand[v]
  BY Zenon DEF LoopStep, Pop, PushBack, Claim, Spawn, RequeueRem, RequeueAdd, RequeueDone, ClaimFails,
         Drain, PopCancelled, Restart, RequeueStart, Stop, Crash, Exit, Step, clientVars, storeVars,
         Types
<1>2. EntryKeys' /\ (\A e : Buried(e)' => Buried(e))
  BY <1>1, Zenon DEF Apart, EntryKeys, Buried
<1>3. ASSUME queue' \subseteq queue, jobs' \subseteq jobs,
             Holding(w)' => Holding(w) /\ hand'[w] \subseteq hand[w]
      PROVE  Apart'
  <2>1. \A v \in Workers : Holding(v)' => Holding(v) /\ hand'[v] \subseteq hand[v]
    BY <1>1, <1>3, Zenon DEF Holding
  <2>2. \A i, j \in jobs' : Active(i) /\ Active(j) /\ i.msg.stamp = j.msg.stamp => i = j
    BY <1>3, Zenon DEF Apart, JobsApart
  <2> QED BY <1>2, <1>3, <2>1, <2>2, FewerApart, Zenon
<1>4. \A m, n \in hand[w] : m = n
  BY Zenon DEF OneInHand
<1>5. \A m \in Claimed(w) : \E n \in hand[w] : n.stamp = m.stamp
  BY ClaimedMessages, Zenon
<1>6. \A m, n \in Claimed(w) : m = n
  BY <1>4, Zenon DEF Claimed
<1>7. CASE Pop(w)
  <2>1. PICK m \in queue : queue' = queue \ {m} /\ hand'[w] = {m}
    BY <1>7, Zenon DEF Pop, Step, Types
  <2>2. UNCHANGED jobs
    BY <1>7, Zenon DEF Pop
  <2>3. \A n \in queue' : n \in queue /\ n.stamp # m.stamp
    BY <2>1, Zenon DEF Apart, QueueApart
  <2>4. \A v \in Workers : v # w /\ Holding(v)' => Holding(v) /\ hand'[v] = hand[v]
    BY <1>1, Zenon DEF Holding
  <2>5. QueueApart'
    BY <2>3, Zenon DEF Apart, QueueApart
  <2>6. HandsApart'
    BY <2>1, <2>3, <2>4, ZenonT(30) DEF Apart, HandsApart
  <2>7. JobsApart'
    BY <2>1, <2>2, <2>3, <2>4, Zenon DEF Apart, JobsApart
  <2>8. BuriedApart'
    BY <1>2, <2>1, <2>2, <2>3, <2>4, Zenon DEF Apart, BuriedApart
  <2> QED BY <1>2, <2>5, <2>6, <2>7, <2>8, Zenon DEF Apart
<1>8. CASE PushBack(w)
  <2>1. /\ queue' \subseteq queue \union hand[w] /\ UNCHANGED jobs
        /\ hand'[w] = {} /\ Holding(w)
    BY <1>8, Zenon DEF PushBack, Step, Types, Holding
  <2>2. \A v \in Workers : Holding(v)' /\ hand'[v] # {} => v # w /\ Holding(v) /\ hand'[v] = hand[v]
    BY <1>1, <2>1, Zenon DEF Holding
  <2>3. QueueApart'
    BY <1>4, <2>1, Zenon DEF Apart, QueueApart, HandsApart
  <2>4. HandsApart'
    BY <2>1, <2>2 DEF Apart, HandsApart
  <2>5. JobsApart'
    BY <2>1, <2>2, Zenon DEF Apart, JobsApart
  <2>6. BuriedApart'
    BY <1>2, <2>1, <2>2, Zenon DEF Apart, BuriedApart
  <2> QED BY <1>2, <2>3, <2>4, <2>5, <2>6, Zenon DEF Apart
<1>9. CASE Claim(w)
  <2>1. UNCHANGED queue /\ Holding(w)
    BY <1>9, Zenon DEF Claim, Holding
  <2>2. CASE Cardinality(JobsOf(w)) < Concurrency
    <3>1. jobs' = jobs \union {NewJob(w, m, FALSE) : m \in Claimed(w)} /\ hand'[w] = {}
      BY <1>9, <2>2, Zenon DEF Claim, Step, Types
    <3>2. /\ \A i, j \in jobs' \ jobs : i = j
          /\ \A i \in jobs' \ jobs : i.msg \in Claimed(w)
      BY <1>6, <3>1, NewJobs, Zenon
    <3> QED BY <1>1, <1>5, <2>1, <3>1, <3>2, StartedApart, Zenon
  <2>3. CASE ~(Cardinality(JobsOf(w)) < Concurrency)
    <3>1. UNCHANGED jobs /\ hand'[w] = Claimed(w)
      BY <1>9, <2>3, Zenon DEF Claim, Step, Types
    <3>2. \A v \in Workers : Holding(v)' => /\ Holding(v)
                                            /\ \A m \in hand'[v] : \E n \in hand[v] : n.stamp = m.stamp
      BY <1>1, <1>5, <2>1, <3>1, Zenon DEF Holding
    <3>3. QueueApart'
      BY <2>1, Zenon DEF Apart, QueueApart
    <3>4. HandsApart'
      BY <2>1, <3>2 DEF Apart, HandsApart
    <3>5. JobsApart'
      BY <2>1, <3>1, <3>2 DEF Apart, JobsApart
    <3>6. BuriedApart'
      BY <1>2, <2>1, <3>1, <3>2 DEF Apart, BuriedApart
    <3> QED BY <1>2, <3>3, <3>4, <3>5, <3>6, Zenon DEF Apart
  <2> QED BY <2>2, <2>3, Zenon
<1>10. CASE Spawn(w)
  <2>1. /\ UNCHANGED queue /\ Holding(w) /\ hand'[w] = {}
        /\ jobs' = jobs \union {NewJob(w, m, TRUE) : m \in hand[w]}
    BY <1>10, Zenon DEF Spawn, Holding, storeVars, Step, Types
  <2>2. /\ \A i, j \in jobs' \ jobs : i = j
        /\ \A i \in jobs' \ jobs : i.msg \in hand[w]
    BY <1>4, <2>1, NewJobs, Zenon
  <2> QED BY <1>1, <2>1, <2>2, StartedApart, Zenon
<1>11. CASE RequeueAdd(w)
  <2>1. UNCHANGED jobs /\ ~Holding(w)' /\ \A v \in Workers : Holding(v)' => Holding(v) /\ hand'[v] \subseteq hand[v]
    BY <1>1, <1>11, Zenon DEF RequeueAdd, Step, Types, Holding
  <2>2. CASE queue' = queue
    BY <1>3, <2>1, <2>2, Zenon
  <2>3. CASE queue' # queue
    <3>1. StampFree /\ queue' = queue \union {Message(m.key, m.attempt) : m \in hand[w]}
      BY <1>11, <2>3, Zenon DEF RequeueAdd
    <3>2. PICK m \in hand[w] : TRUE
      BY <2>3, <3>1, Zenon
    <3>3. queue' = queue \union {Message(m.key, m.attempt)}
      BY <1>4, <3>1, <3>2, Zenon
    <3>4. m.key \in Keys /\ m.attempt \in Nat
      BY DEF Types, Messages
    <3> QED BY <1>2, <2>1, <3>1, <3>3, <3>4, AddedApart, Zenon
  <2> QED BY <2>2, <2>3, Zenon
<1>12. CASE Stop(w)
  <2>1. UNCHANGED <<queue, at, hand>>
    BY <1>12, Zenon DEF Stop, storeVars
  <2>2. \A j \in jobs : [j EXCEPT !.live = FALSE].msg = j.msg /\ [j EXCEPT !.live = FALSE].step = j.step
    BY Zenon DEF Types, Jobs
  <2>3. \A i \in jobs' : \E j \in jobs : /\ i.msg = j.msg /\ i.step = j.step
                                         /\ i = IF j.w = w THEN [j EXCEPT !.live = FALSE] ELSE j
    BY <1>12, <2>2, Zenon DEF Stop
  <2>4. ASSUME NEW i \in jobs', NEW j \in jobs', Active(i), Active(j), i.msg.stamp = j.msg.stamp
        PROVE  i = j
    <3>1. PICK a \in jobs : /\ i.msg = a.msg /\ i.step = a.step
                            /\ i = IF a.w = w THEN [a EXCEPT !.live = FALSE] ELSE a
      BY <2>3, Zenon
    <3>2. PICK b \in jobs : /\ j.msg = b.msg /\ j.step = b.step
                            /\ j = IF b.w = w THEN [b EXCEPT !.live = FALSE] ELSE b
      BY <2>3, Zenon
    <3>3. a = b
      <4>1. Active(a) /\ Active(b) /\ a.msg.stamp = b.msg.stamp
        BY <2>4, <3>1, <3>2, Zenon DEF Active
      <4> QED BY <4>1, Zenon DEF Apart, JobsApart
    <3> QED BY <3>1, <3>2, <3>3, Zenon
  <2>5. \A i \in jobs' : Active(i) => \E j \in jobs : Active(j) /\ j.msg = i.msg
    BY <2>3, Zenon DEF Active
  <2>6. \A v \in Workers : Holding(v)' => Holding(v) /\ hand'[v] \subseteq hand[v]
    BY <2>1, Zenon DEF Holding
  <2> QED BY <1>2, <2>1, <2>4, <2>5, <2>6, FewerApart, Zenon
<1>13. CASE ClaimFails(w) \/ PopCancelled(w) \/ Crash(w)
  BY <1>3, <1>13, Zenon DEF ClaimFails, PopCancelled, Crash, Exit, storeVars, Types, Holding
<1>14. CASE RequeueRem(w) \/ RequeueDone(w) \/ RequeueStart(w) \/ Drain(w) \/ Restart(w)
  BY <1>3, <1>14, Zenon DEF RequeueRem, RequeueDone, RequeueStart, Drain, Restart, Step, storeVars, Types,
                     Holding
<1> QED BY <1>7, <1>8, <1>9, <1>10, <1>11, <1>12, <1>13, <1>14, Zenon DEF LoopStep

\* What becomes of a job in a step of its own.
LEMMA JobChange ==
    ASSUME Types, NEW j \in jobs, JobStep(j) \/ JobCallFails(j) \/ SoftDeadline(j)
    PROVE  \/ jobs' = jobs \ {j} /\ j.step # "dlq"
           \/ jobs' = jobs \ {j} /\ JobEnds(j)
           \/ \E i : /\ jobs' = (jobs \ {j}) \union {i}
                     /\ i.msg = j.msg /\ i.w = j.w
                     /\ \/ i.step = j.step /\ SoftDeadline(j)
                        \/ j.step = "run" /\ i.step \in {"ackRem", "rem"} /\ HandlerReturns(j)
                        \/ j.step = "ackRem" /\ i.step = "ackDel"
                        \/ j.step = "rem" /\ i.step \in {"retry", "dlq"}
                        \/ j.step = "dlq" /\ i.step = "del"
<1>0. j \in Jobs /\ j.step \in JobSteps
  BY Zenon DEF Types, Jobs
<1>1. /\ \A s : [j EXCEPT !.step = s].msg = j.msg /\ [j EXCEPT !.step = s].w = j.w /\ [j EXCEPT !.step = s].step = s
      /\ [j EXCEPT !.live = FALSE].msg = j.msg /\ [j EXCEPT !.live = FALSE].w = j.w /\ [j EXCEPT !.live = FALSE].step = j.step
  BY <1>0, Zenon DEF Jobs
<1>2. CASE SoftDeadline(j)
  BY <1>1, <1>2, Zenon DEF SoftDeadline
<1>3. CASE HandlerReturns(j)
  <2>1. PICK s \in {"ackRem", "rem"} : jobs' = (jobs \ {j}) \union {[j EXCEPT !.step = s]}
    BY <1>3, Zenon DEF HandlerReturns, Moved
  <2>2. PICK i : i = [j EXCEPT !.step = s]
    BY Zenon
  <2>3. /\ jobs' = (jobs \ {j}) \union {i} /\ i.msg = j.msg /\ i.w = j.w
        /\ j.step = "run" /\ i.step \in {"ackRem", "rem"}
    BY <1>1, <1>3, <2>1, <2>2, Zenon DEF HandlerReturns
  <2> QED BY <1>3, <2>3, Zenon
<1>4. CASE JobEnds(j)
  BY <1>4, Zenon DEF JobEnds, Ended
<1>5. ASSUME Advance(j), j.step # "run" PROVE
           \/ jobs' = jobs \ {j} /\ j.step # "dlq"
           \/ \E i : /\ jobs' = (jobs \ {j}) \union {i}
                     /\ i.msg = j.msg /\ i.w = j.w
                     /\ \/ j.step = "ackRem" /\ i.step = "ackDel"
                        \/ j.step = "rem" /\ i.step \in {"retry", "dlq"}
                        \/ j.step = "dlq" /\ i.step = "del"
  <2>1. CASE Following(j) = "end"
    <3>1. jobs' = jobs \ {j}
      BY <1>5, <2>1, Zenon DEF Advance, Ended
    <3>2. j.step # "dlq"
      BY <1>0, <2>1, FollowingStep, Zenon
    <3> QED BY <3>1, <3>2, Zenon
  <2>2. CASE Following(j) # "end"
    <3>1. PICK i : jobs' = (jobs \ {j}) \union {i} /\ i.msg = j.msg /\ i.w = j.w /\ i.step = Following(j)
      BY <1>1, <1>5, <2>2, Zenon DEF Advance, Moved
    <3>2. \/ j.step = "ackRem" /\ Following(j) = "ackDel"
          \/ j.step = "rem" /\ Following(j) \in {"retry", "dlq"}
          \/ j.step = "dlq" /\ Following(j) = "del"
      BY <1>0, <1>5, <2>2, FollowingStep, Zenon DEF JobSteps
    <3> QED BY <3>1, <3>2, Zenon
  <2> QED BY <2>1, <2>2, Zenon
<1>6. CASE JobCall(j)
  <2>1. j.step # "run"
    BY <1>6, Zenon DEF JobCall, Remove, Retry, PushToDLQ, Release
  <2> QED BY <1>5, <1>6, <2>1, Zenon DEF JobCall
<1>7. CASE JobCallFails(j)
  BY <1>5, <1>7, Zenon DEF JobCallFails
<1> QED BY <1>2, <1>3, <1>4, <1>6, <1>7, Zenon DEF JobStep

LEMMA JobApart ==
    ASSUME Types, Apart, NEW j \in jobs, JobStep(j) \/ JobCallFails(j) \/ SoftDeadline(j)
    PROVE  Apart'
<1>1. UNCHANGED <<call, at, hand>>
  BY Zenon DEF JobStep, HandlerReturns, JobCall, JobEnds, JobCallFails, SoftDeadline, clientVars, loopVars
<1>2. EntryKeys' /\ (\A w \in Workers : Holding(w)' => Holding(w) /\ hand'[w] \subseteq hand[w])
  BY <1>1, Zenon DEF Apart, EntryKeys, Holding
<1>3. /\ \A i \in jobs' : Active(i) => \E k \in jobs : Active(k) /\ k.msg = i.msg
      /\ \A i, k \in jobs' : Active(i) /\ Active(k) /\ i.msg.stamp = k.msg.stamp => i = k
  <2>1. \/ jobs' \subseteq jobs
        \/ \E i : jobs' = (jobs \ {j}) \union {i} /\ i.msg = j.msg /\ (Active(i) => Active(j))
    BY JobChange DEF Active
  <2>2. CASE jobs' \subseteq jobs
    BY <2>2, Zenon DEF Apart, JobsApart
  <2>3. ASSUME NEW i, jobs' = (jobs \ {j}) \union {i}, i.msg = j.msg, Active(i) => Active(j) PROVE <1>3!1 /\ <1>3!2
    BY <2>3 DEF Apart, JobsApart
  <2> QED BY <2>1, <2>2, <2>3, Zenon
<1>4. ASSUME UNCHANGED <<queue, dlq>> PROVE Apart'
  <2>1. \A e : Buried(e)' => Buried(e)
    BY <1>1, <1>4, Zenon DEF Buried
  <2> QED BY <1>2, <1>3, <1>4, <2>1, FewerApart, Zenon
<1>5. CASE JobCall(j) /\ Retry(j)
  <2>1. j.step = "retry" /\ StampFree /\ queue' = queue \union {Message(j.msg.key, j.msg.attempt)} /\ UNCHANGED dlq
    BY <1>5, Zenon DEF Retry
  <2>2. j \in Jobs /\ j.msg.key \in Keys /\ j.msg.attempt \in Nat
    BY Zenon DEF Types, Jobs, Messages
  <2>3. jobs' = jobs \ {j}
    BY <1>5, <2>1, <2>2, FollowingStep, Zenon DEF JobCall, Advance, Ended
  <2>4. \A e : Buried(e)' => Buried(e)
    BY <1>1, <2>1, Zenon DEF Buried
  <2> QED BY <1>2, <2>1, <2>2, <2>3, <2>4, AddedApart, Zenon
<1>6. CASE JobCall(j) /\ PushToDLQ(j)
  <2>1. j.step = "dlq" /\ dlq' = dlq \union {j.msg} /\ UNCHANGED queue /\ Active(j)
    BY <1>6, Zenon DEF PushToDLQ, Active
  <2>2. PICK i : jobs' = (jobs \ {j}) \union {i} /\ ~Active(i)
    <3>1. j \in Jobs /\ Following(j) = "del"
      BY <2>1, FollowingStep, Zenon DEF Types
    <3>2. jobs' = (jobs \ {j}) \union {[j EXCEPT !.step = "del"]}
      BY <1>6, <3>1, Zenon DEF JobCall, Advance, Moved
    <3>3. [j EXCEPT !.step = "del"].step = "del"
      BY <3>1, Zenon DEF Jobs
    <3> QED BY <3>2, <3>3, Zenon DEF Active
  <2>3. \A e : Buried(e)' => Buried(e) \/ e = j.msg
    BY <1>1, <2>1, Zenon DEF Buried
  <2>4. QueueApart' /\ HandsApart'
    BY <1>1, <2>1 DEF Apart, QueueApart, HandsApart, Holding
  <2>5. JobsApart'
    BY <1>2, <2>1, <2>2, Zenon DEF Apart, JobsApart
  <2>6. BuriedApart'
    BY <1>2, <2>1, <2>2, <2>3, Zenon DEF Apart, JobsApart, BuriedApart
  <2> QED BY <1>2, <2>4, <2>5, <2>6, Zenon DEF Apart
<1>7. CASE JobCall(j) /\ ~Retry(j) /\ ~PushToDLQ(j)
  BY <1>4, <1>7, Zenon DEF JobCall, Remove, Release
<1>8. CASE HandlerReturns(j) \/ JobEnds(j) \/ JobCallFails(j) \/ SoftDeadline(j)
  BY <1>4, <1>8, Zenon DEF HandlerReturns, JobEnds, JobCallFails, SoftDeadline, storeVars
<1> QED BY <1>5, <1>6, <1>7, <1>8, Zenon DEF JobStep

LEMMA StepApart == Types /\ OneInHand /\ Apart /\ [Next]_vars => Apart'
<1> SUFFICES ASSUME Types, OneInHand, Apart, [Next]_vars PROVE Apart'
  BY Zenon
<1>1. CASE UNCHANGED <<queue, dlq, call, at, hand, jobs>>
  BY <1>1 DEF Apart, QueueApart, HandsApart, JobsApart, BuriedApart, EntryKeys, Holding, Buried
<1>2. ASSUME \/ \E m \in queue : BecomesDue(m)
             \/ \E m \in processing : VisibilityElapsed(m) \/ VisibilityTooShort(m)
             \/ \E k \in Keys : DedupExpires(k)
             \/ UNCHANGED vars
      PROVE  UNCHANGED <<queue, dlq, call, at, hand, jobs>>
  BY <1>2, Zenon DEF BecomesDue, VisibilityElapsed, VisibilityTooShort, Expire, DedupExpires,
              vars, storeVars, clientVars, loopVars
<1> QED BY <1>1, <1>2, ClientApart, LoopApart, JobApart, ZenonT(30) DEF Next

Acked(m) == \E j \in jobs : j.step = "ackRem" /\ j.msg = m
Doomed(e) == \E c \in Clients : call[c].step = "delete" /\ e \in call[c].entry
InHand(m) == \E w \in Workers : at[w] \in {"popped", "notdue", "readd"} /\ m \in hand[w]
Leaving(m) == \E j \in jobs : j.step \in {"retry", "dlq"} /\ j.msg = m
OnItsWay(m) == m \in queue \/ m \in processing \/ InHand(m) \/ Leaving(m)
Witness(k, m) == m.key = k /\ ~Acked(m) /\ OnItsWay(m)
DeadWitness(k, e) == e.key = k /\ e \in dlq /\ ~Doomed(e)
Safe(k) == \E m : Witness(k, m) \/ DeadWitness(k, m)
Kept == \A k \in owed : Safe(k)

LEMMA InitKept == Init => Kept
  BY Zenon DEF Init, Kept

LEMMA BetweenIs ==
    ASSUME NEW w \in Workers, NEW m
    PROVE  m \in Between(w) <=> \/ at[w] \in {"popped", "notdue", "readd"} /\ m \in hand[w]
                                \/ \E j \in JobsOf(w) : j.step \in {"retry", "dlq"} /\ j.msg = m
<1> DEFINE L == {i \in JobsOf(w) : i.step \in {"retry", "dlq"}}
<1>1. m \in {j.msg : j \in L} <=> \E j \in JobsOf(w) : j.step \in {"retry", "dlq"} /\ j.msg = m
  BY Zenon
<1>2. Between(w) = (IF at[w] \in {"popped", "notdue", "readd"} THEN hand[w] ELSE {}) \union {j.msg : j \in L}
  BY Zenon DEF Between
<1> HIDE DEF L
<1> QED BY <1>1, <1>2, Zenon

LEMMA AddedSafe ==
    ASSUME StampFree, NEW k \in Keys, NEW n \in Nat, NEW q, q = Message(k, n)
    PROVE  q.key = k /\ \A j \in jobs : j.msg.stamp # q.stamp
  BY NewMessage

LEMMA ClientKept ==
    ASSUME Types, Apart, Kept, NEW c \in Clients,
           \/ \E k \in Keys : EnqueueStart(c, k)
           \/ \E e \in dlq : ReplayStart(c, e)
           \/ ClientStep(c) \/ CallFails(c)
    PROVE  Kept'
<1> SUFFICES ASSUME NEW k \in owed' PROVE Safe(k)'
  BY Zenon DEF Kept
<1>1. /\ UNCHANGED <<processing, jobs, at, hand>> /\ queue \subseteq queue'
      /\ \A m : Acked(m)' => Acked(m)
      /\ \A m : OnItsWay(m) => OnItsWay(m)'
  <2>1. UNCHANGED <<processing, jobs, at, hand>> /\ queue \subseteq queue'
    BY Zenon DEF EnqueueStart, ReplayStart, ClientStep, EnqueueSetNX, EnqueueAdd, DeleteEntry, CallFails,
           storeVars, loopVars
  <2> QED BY <2>1, Zenon DEF Acked, OnItsWay, InHand, Leaving
<1>2. \A m : Witness(k, m) => Witness(k, m)'
  BY <1>1, Zenon DEF Witness
<1>3. \A d \in Clients : d # c => call'[d] = call[d]
  BY Zenon DEF EnqueueStart, ReplayStart, ClientStep, EnqueueSetNX, EnqueueAdd, DeleteEntry, CallFails, Types
<1>4. call[c] \in Calls /\ Idle(c).step = "idle" /\ \A s : [call[c] EXCEPT !.step = s].step = s
  BY Zenon DEF Types, Idle, Calls
<1>5. ASSUME UNCHANGED <<dlq, owed>>, call'[c].step # "delete" PROVE Safe(k)'
  <2>1. \A e : Doomed(e)' => Doomed(e)
    BY <1>3, <1>5, Zenon DEF Doomed
  <2> QED BY <1>2, <1>5, <2>1, Zenon DEF Kept, Safe, DeadWitness
<1>6. CASE \/ \E d \in Keys : EnqueueStart(c, d)
           \/ \E e \in dlq : ReplayStart(c, e)
  <2>1. UNCHANGED <<dlq, owed>> /\ call'[c].step # "delete"
    BY <1>6 DEF EnqueueStart, ReplayStart, storeVars, Types
  <2> QED BY <1>5, <2>1, Zenon
<1>7. CASE EnqueueSetNX(c) \/ CallFails(c)
  <2>1. UNCHANGED <<dlq, owed>> /\ call'[c].step # "delete"
    <3>1. UNCHANGED <<dlq, owed>> /\ (\/ call' = [call EXCEPT ![c] = Idle(c)]
                                      \/ call' = [call EXCEPT ![c] = [call[c] EXCEPT !.step = "add"]]
                                      \/ call' = [call EXCEPT ![c] = [call[c] EXCEPT !.step = "dropped"]])
      BY <1>7, Zenon DEF EnqueueSetNX, CallFails, storeVars
    <3>2. call'[c] \in {Idle(c), [call[c] EXCEPT !.step = "add"], [call[c] EXCEPT !.step = "dropped"]}
      BY <3>1, Zenon DEF Types
    <3> QED BY <1>4, <3>1, <3>2, Zenon
  <2> QED BY <1>5, <2>1, Zenon
<1>8. CASE EnqueueAdd(c)
  <2>1. /\ queue' = queue \union {Message(call[c].key, call[c].attempt)} /\ StampFree
        /\ owed' = owed \union {call[c].key} /\ UNCHANGED dlq
    BY <1>8, Zenon DEF EnqueueAdd
  <2>2. \A e : Doomed(e)' => Doomed(e) \/ e.key = call[c].key
    <3>1. call'[c].step = "delete" => call'[c].entry = call[c].entry
      <4>1. call' = [call EXCEPT ![c] = IF call[c].entry = {} THEN Idle(c) ELSE [call[c] EXCEPT !.step = "delete"]]
        BY <1>8, Zenon DEF EnqueueAdd
      <4>2. [call[c] EXCEPT !.step = "delete"].entry = call[c].entry
        BY <1>4, Zenon DEF Calls
      <4> QED BY <1>4, <4>1, <4>2, Zenon DEF Types
    <3> QED BY <1>3, <3>1, Zenon DEF Doomed, Apart, EntryKeys
  <2>3. CASE k = call[c].key
    <3>1. call[c].key \in Keys /\ call[c].attempt \in Nat
      BY <1>4, Zenon DEF Calls
    <3>2. PICK q : q = Message(call[c].key, call[c].attempt)
      BY Zenon
    <3>3. q.key = k /\ q \in queue' /\ \A j \in jobs : j.msg.stamp # q.stamp
      <4>1. q.key = call[c].key /\ \A j \in jobs : j.msg.stamp # q.stamp
        BY <2>1, <3>1, <3>2, AddedSafe
      <4> QED BY <2>1, <2>3, <3>2, <4>1, Zenon
    <3> QED BY <1>1, <3>3, Zenon DEF Safe, Witness, Acked, OnItsWay
  <2>4. CASE k # call[c].key
    BY <1>2, <2>1, <2>2, <2>4, Zenon DEF Kept, Safe, DeadWitness
  <2> QED BY <2>3, <2>4, Zenon
<1>9. CASE DeleteEntry(c)
  <2>1. /\ dlq' = dlq \ call[c].entry /\ call[c].step \in {"delete", "dropped"}
        /\ owed' = IF call[c].step = "dropped" THEN owed \ {call[c].key} ELSE owed
    BY <1>9, Zenon DEF DeleteEntry
  <2>2. call'[c].step = "idle"
    BY <1>4, <1>9, Zenon DEF DeleteEntry, Types
  <2>3. \A e : Doomed(e)' => Doomed(e)
    BY <1>3, <2>2, Zenon DEF Doomed
  <2>4. k \in owed /\ \A e \in call[c].entry : e.key = k => Doomed(e)
    BY <2>1, Zenon DEF Apart, EntryKeys, Doomed
  <2> QED BY <1>2, <2>1, <2>3, <2>4, Zenon DEF Kept, Safe, DeadWitness
<1> QED BY <1>6, <1>7, <1>8, <1>9, Zenon DEF ClientStep

LEMMA LoopKept ==
    ASSUME Types, Apart, Kept, NEW w \in Workers,
           LoopStep(w) \/ RequeueStart(w) \/ Stop(w) \/ Crash(w)
    PROVE  Kept'
<1> SUFFICES ASSUME NEW k \in owed' PROVE Safe(k)'
  BY Zenon DEF Kept
<1>1. /\ UNCHANGED <<call, dlq>> /\ owed' \subseteq owed
      /\ \A v \in Workers : v # w => at'[v] = at[v] /\ hand'[v] = hand[v]
  BY Zenon DEF LoopStep, Pop, PushBack, Claim, Spawn, RequeueRem, RequeueAdd, RequeueDone, ClaimFails,
         Drain, PopCancelled, Restart, RequeueStart, Stop, Crash, Exit, Step, clientVars, storeVars,
         Types, Drop
<1>2. \A e : DeadWitness(k, e) => DeadWitness(k, e)'
  BY <1>1, Zenon DEF DeadWitness, Doomed
<1>3. \A m : Acked(m)' => Acked(m)
  <2>1. \A i \in jobs' : i.step = "ackRem" => \E j \in jobs : j.step = "ackRem" /\ j.msg = i.msg
    <3>1. CASE Claim(w) \/ Spawn(w)
      <4>1. \A i \in jobs' : i \in jobs \/ \E m, b : i = NewJob(w, m, b)
        BY <3>1, Zenon DEF Claim, Spawn
      <4>2. \A m, b : NewJob(w, m, b).step = "run"
        BY Zenon DEF NewJob
      <4> QED BY <4>1, <4>2, Zenon
    <3>2. CASE Stop(w)
      <4>1. \A j \in jobs : [j EXCEPT !.live = FALSE].msg = j.msg /\ [j EXCEPT !.live = FALSE].step = j.step
        BY Zenon DEF Types, Jobs
      <4>2. \A i \in jobs' : \E j \in jobs : i = j \/ i = [j EXCEPT !.live = FALSE]
        BY <3>2, Zenon DEF Stop
      <4>3. ASSUME NEW i \in jobs' PROVE \E j \in jobs : j.msg = i.msg /\ j.step = i.step
        <5>1. PICK j \in jobs : i = j \/ i = [j EXCEPT !.live = FALSE]
          BY <4>2, Zenon
        <5> QED BY <4>1, <5>1, Zenon
      <4> QED BY <4>3, Zenon
    <3>3. CASE ~Claim(w) /\ ~Spawn(w) /\ ~Stop(w)
      <4>1. jobs' \subseteq jobs
        BY <3>3, Zenon DEF LoopStep, Pop, PushBack, RequeueRem, RequeueAdd, RequeueDone, ClaimFails,
                    Drain, PopCancelled, Restart, RequeueStart, Crash, Exit
      <4> QED BY <4>1, Zenon
    <3> QED BY <3>1, <3>2, <3>3, Zenon
  <2> QED BY <2>1, Zenon DEF Acked
<1>4. ASSUME \A m : Witness(k, m) => OnItsWay(m)' \/ Safe(k)' PROVE Safe(k)'
  BY <1>1, <1>2, <1>3, <1>4, Zenon DEF Kept, Safe, Witness
<1>5. ASSUME queue \subseteq queue', processing \subseteq processing',
             \A m : Leaving(m) => Leaving(m)' \/ m \in processing \/ m.key # k,
             at[w] \in {"popped", "notdue", "readd"} =>
                \A m \in hand[w] : m.key = k => m \in queue' \/ m \in processing' \/ Safe(k)'
      PROVE  Safe(k)'
  <2>1. ASSUME NEW m, Witness(k, m) PROVE OnItsWay(m)' \/ Safe(k)'
    <3>1. CASE m \in queue \/ m \in processing \/ Leaving(m)
      BY <1>5, <2>1, <3>1, Zenon DEF OnItsWay, Witness
    <3>2. CASE InHand(m)
      <4>1. PICK v \in Workers : at[v] \in {"popped", "notdue", "readd"} /\ m \in hand[v]
        BY <3>2, Zenon DEF InHand
      <4>2. v # w => InHand(m)'
        BY <1>1, <4>1, Zenon DEF InHand
      <4> QED BY <1>5, <2>1, <4>1, <4>2, Zenon DEF OnItsWay, Witness
    <3> QED BY <2>1, <3>1, <3>2, Zenon DEF Witness, OnItsWay
  <2> QED BY <1>4, <2>1, Zenon
<1>6. \A m : Leaving(m) /\ jobs \subseteq jobs' => Leaving(m)'
  BY Zenon DEF Leaving
<1>7. CASE Pop(w)
  <2>1. PICK n \in queue : queue' = queue \ {n} /\ hand'[w] = {n} /\ at'[w] \in {"popped", "notdue"}
    BY <1>7, Zenon DEF Pop, Step, Types
  <2>2. UNCHANGED <<processing, jobs>> /\ at[w] = "poll"
    BY <1>7, Zenon DEF Pop
  <2>3. InHand(n)' /\ \A m : InHand(m) => InHand(m)'
    BY <1>1, <2>1, <2>2, Zenon DEF InHand
  <2>4. \A m : OnItsWay(m) => OnItsWay(m)'
    BY <1>6, <2>1, <2>2, <2>3, Zenon DEF OnItsWay
  <2> QED BY <1>4, <2>4, Zenon DEF Witness
<1>8. CASE PushBack(w)
  <2>1. /\ UNCHANGED <<processing, jobs>> /\ queue \subseteq queue'
        /\ \A m \in hand[w] : m \in queue' \/ m \in processing \/ m.key # k
    BY <1>8, Zenon DEF PushBack, Drop
  <2> QED BY <1>5, <1>6, <2>1, Zenon
<1>9. CASE Claim(w)
  <2>1. /\ UNCHANGED queue /\ processing' = processing \union Claimed(w) /\ jobs \subseteq jobs'
        /\ Holding(w)
    BY <1>9, Zenon DEF Claim, Holding
  <2>2. ASSUME NEW m \in hand[w], m.key = k PROVE Safe(k)'
    <3>1. PICK n : n = [m EXCEPT !.attempt = @ + 1]
      BY Zenon
    <3>2. n \in Claimed(w)
      BY <3>1, Zenon DEF Claimed
    <3>3. m \in Messages /\ n.key = k /\ n.stamp = m.stamp
      BY <2>2, <3>1 DEF Types, Messages
    <3>4. ~Acked(n)
      BY <2>1, <3>3, Zenon DEF Acked, Apart, JobsApart, Active
    <3> QED BY <1>3, <2>1, <3>2, <3>3, <3>4, Zenon DEF Safe, Witness, OnItsWay
  <2> QED BY <1>5, <1>6, <2>1, <2>2, Zenon
<1>10. CASE Spawn(w)
  <2>1. UNCHANGED <<queue, processing>> /\ jobs \subseteq jobs' /\ at[w] = "wait"
    BY <1>10, Zenon DEF Spawn, storeVars
  <2> QED BY <1>5, <1>6, <2>1, Zenon
<1>11. CASE RequeueRem(w)
  <2>1. PICK n \in expired[w] : /\ hand'[w] = {n} /\ at'[w] = "readd"
                                /\ processing \ {n} \subseteq processing'
    BY <1>11, Zenon DEF RequeueRem, Step, Types
  <2>2. UNCHANGED <<queue, jobs>> /\ at[w] = "requeue"
    BY <1>11, Zenon DEF RequeueRem
  <2>3. InHand(n)' /\ \A m : InHand(m) => InHand(m)'
    BY <1>1, <2>1, <2>2, Zenon DEF InHand
  <2>4. \A m : OnItsWay(m) => OnItsWay(m)'
    BY <1>6, <2>1, <2>2, <2>3, Zenon DEF OnItsWay
  <2> QED BY <1>4, <2>4, Zenon DEF Witness
<1>12. CASE RequeueAdd(w)
  <2>1. UNCHANGED <<processing, jobs>> /\ queue \subseteq queue'
    BY <1>12, Zenon DEF RequeueAdd
  <2>2. ASSUME NEW m \in hand[w], m.key = k PROVE m \in processing' \/ Safe(k)'
    <3>1. CASE Drop(hand[w])
      BY <2>1, <2>2, <3>1, Zenon DEF Drop
    <3>2. CASE ~Drop(hand[w])
      <4>1. StampFree /\ Message(m.key, m.attempt) \in queue'
        BY <1>12, <3>2, Zenon DEF RequeueAdd
      <4>2. m.key \in Keys /\ m.attempt \in Nat
        BY DEF Types, Messages
      <4>3. PICK q : q = Message(m.key, m.attempt)
        BY Zenon
      <4>4. q.key = k /\ q \in queue' /\ \A j \in jobs : j.msg.stamp # q.stamp
        <5>1. q.key = m.key /\ \A j \in jobs : j.msg.stamp # q.stamp
          BY <4>1, <4>2, <4>3, AddedSafe
        <5> QED BY <2>2, <4>1, <4>3, <5>1, Zenon
      <4>5. ~Acked(q)
        BY <4>4, Zenon DEF Acked
      <4> QED BY <1>3, <4>4, <4>5, Zenon DEF Safe, Witness, OnItsWay
    <3> QED BY <3>1, <3>2, Zenon
  <2> QED BY <1>5, <1>6, <2>1, <2>2, Zenon
<1>13. CASE RequeueDone(w) \/ RequeueStart(w) \/ Drain(w) \/ Restart(w)
  <2>1. UNCHANGED <<queue, processing, jobs>> /\ at[w] \notin {"popped", "notdue", "readd"}
    BY <1>13, Zenon DEF RequeueDone, RequeueStart, Drain, Restart, storeVars
  <2> QED BY <1>5, <1>6, <2>1, Zenon
<1>14. CASE Stop(w)
  <2>1. UNCHANGED <<queue, processing, at, hand>>
    BY <1>14, Zenon DEF Stop, storeVars
  <2>2. \A m : Leaving(m) => Leaving(m)'
    <3>1. \A j \in jobs : \E i \in jobs' : i.msg = j.msg /\ i.step = j.step
      <4>1. \A j \in jobs : [j EXCEPT !.live = FALSE].msg = j.msg /\ [j EXCEPT !.live = FALSE].step = j.step
        BY Zenon DEF Types, Jobs
      <4>2. \A j \in jobs : (IF j.w = w THEN [j EXCEPT !.live = FALSE] ELSE j) \in jobs'
        BY <1>14, Zenon DEF Stop
      <4> QED BY <4>1, <4>2, Zenon
    <3> QED BY <3>1, Zenon DEF Leaving
  <2>3. \A m : InHand(m) => InHand(m)'
    BY <2>1, Zenon DEF InHand
  <2> QED BY <1>4, <2>1, <2>2, <2>3, Zenon DEF Witness, OnItsWay
<1>15. CASE ClaimFails(w) \/ PopCancelled(w) \/ Crash(w)
  <2>1. /\ UNCHANGED <<queue, processing>> /\ jobs' = jobs \ JobsOf(w)
        /\ owed' = owed \ {m.key : m \in Between(w) \ processing}
    BY <1>15, Zenon DEF ClaimFails, PopCancelled, Crash, Exit, storeVars, Drop
  <2>2. \A m \in Between(w) : m \in processing \/ m.key # k
    BY <2>1, Zenon
  <2>3. \A m : Leaving(m) => Leaving(m)' \/ m \in Between(w)
    BY <2>1, BetweenIs, Zenon DEF Leaving
  <2>4. at[w] \in {"popped", "notdue", "readd"} => hand[w] \subseteq Between(w)
    BY BetweenIs, Zenon
  <2> QED BY <1>5, <2>1, <2>2, <2>3, <2>4, Zenon
<1> QED BY <1>7, <1>8, <1>9, <1>10, <1>11, <1>12, <1>13, <1>14, <1>15, Zenon DEF LoopStep

LEMMA JobKept ==
    ASSUME Types, Apart, Kept, NEW j \in jobs, JobStep(j) \/ JobCallFails(j) \/ SoftDeadline(j)
    PROVE  Kept'
<1> SUFFICES ASSUME NEW k \in owed' PROVE Safe(k)'
  BY Zenon DEF Kept
<1>1. /\ UNCHANGED <<call, at, hand>> /\ owed' \subseteq owed /\ dlq \subseteq dlq'
      /\ queue \subseteq queue'
  BY Zenon DEF JobStep, HandlerReturns, JobCall, JobEnds, JobCallFails, SoftDeadline, clientVars, loopVars,
         storeVars, Drop, Remove, Retry, PushToDLQ, Release
<1>2. /\ \A e : DeadWitness(k, e) => DeadWitness(k, e)'
      /\ \A m : InHand(m) => InHand(m)'
  BY <1>1, Zenon DEF DeadWitness, Doomed, InHand
<1>3. \A m : Acked(m)' => Acked(m) \/ m.key # k
  <2>1. HandlerReturns(j) => (\A i \in jobs' : i.step = "ackRem" => i \in jobs \/ i.msg.key # k)
    <3>1. [j EXCEPT !.step = "rem"].step = "rem" /\ [j EXCEPT !.step = "ackRem"].msg = j.msg
      BY Zenon DEF Types, Jobs
    <3> QED BY <3>1, Zenon DEF HandlerReturns, Moved
  <2>2. ~HandlerReturns(j) => (\A i \in jobs' : i.step = "ackRem" => \E h \in jobs : h.step = "ackRem" /\ h.msg = i.msg)
    BY JobChange
  <2> QED BY <2>1, <2>2, Zenon DEF Acked
<1>4. ASSUME \A m : Witness(k, m) => OnItsWay(m)' \/ Safe(k)' PROVE Safe(k)'
  BY <1>1, <1>2, <1>3, <1>4, Zenon DEF Kept, Safe, Witness
<1>5. \A m : Leaving(m) => Leaving(m)' \/ (j.step \in {"retry", "dlq"} /\ j.msg = m)
  BY JobChange, Zenon DEF Leaving
<1>6. ASSUME processing \subseteq processing', j.step \notin {"retry", "dlq"} PROVE Safe(k)'
  BY <1>1, <1>2, <1>4, <1>5, <1>6, Zenon DEF Witness, OnItsWay
<1>7. ASSUME processing \subseteq processing', j.msg.key = k => j.msg \in processing \/ Safe(k)' PROVE Safe(k)'
  BY <1>1, <1>2, <1>4, <1>5, <1>7, Zenon DEF Witness, OnItsWay
<1>8. CASE HandlerReturns(j)
  BY <1>6, <1>8, Zenon DEF HandlerReturns, storeVars
<1>9. CASE JobCall(j) /\ Remove(j)
  <2>1. processing' = processing \ {j.msg} /\ j.step \in {"ackRem", "rem"}
    BY <1>9, Zenon DEF Remove
  <2>2. j.step = "rem" => Leaving(j.msg)'
    <3>1. j \in Jobs
      BY Zenon DEF Types
    <3>2. j.step = "rem" => Following(j) \in {"retry", "dlq"}
      BY <3>1, FollowingStep, Zenon
    <3>3. \A s : [j EXCEPT !.step = s].step = s /\ [j EXCEPT !.step = s].msg = j.msg
      BY <3>1, Zenon DEF Jobs
    <3>4. j.step = "rem" => [j EXCEPT !.step = Following(j)] \in jobs'
      BY <1>9, <3>2, Zenon DEF JobCall, Advance, Moved
    <3> QED BY <3>2, <3>3, <3>4, Zenon DEF Leaving
  <2>3. \A m : Witness(k, m) => m # j.msg \/ Leaving(m)'
    BY <2>1, <2>2, Zenon DEF Witness, Acked
  <2>4. \A m : OnItsWay(m) => OnItsWay(m)' \/ m = j.msg
    BY <1>1, <1>2, <1>5, <2>1, Zenon DEF OnItsWay
  <2> QED BY <1>4, <2>3, <2>4, Zenon DEF Witness, OnItsWay
<1>10. CASE JobCall(j) /\ Retry(j)
  <2>1. StampFree /\ Message(j.msg.key, j.msg.attempt) \in queue' /\ UNCHANGED processing
    BY <1>10, Zenon DEF Retry
  <2>2. ASSUME j.msg.key = k PROVE Safe(k)'
    <3>1. j.msg.key \in Keys /\ j.msg.attempt \in Nat
      BY Zenon DEF Types, Jobs, Messages
    <3>2. PICK q : q = Message(j.msg.key, j.msg.attempt)
      BY Zenon
    <3>3. q.key = k /\ q \in queue' /\ \A i \in jobs : i.msg.stamp # q.stamp
      BY <2>1, <2>2, <3>1, <3>2, AddedSafe
    <3>4. ~Acked(q)
      BY <3>3, Zenon DEF Acked
    <3> QED BY <1>3, <3>3, <3>4, Zenon DEF Safe, Witness, OnItsWay
  <2> QED BY <1>7, <2>1, <2>2, Zenon
<1>11. CASE JobCall(j) /\ PushToDLQ(j)
  <2>1. j.msg \in dlq' /\ UNCHANGED processing /\ Active(j)
    BY <1>11, Zenon DEF PushToDLQ, Active
  <2>2. ~Doomed(j.msg)'
    BY <1>1, <2>1, Zenon DEF Doomed, Apart, BuriedApart, Buried
  <2> QED BY <1>7, <2>1, <2>2, Zenon DEF Safe, DeadWitness
<1>12. CASE JobCall(j) /\ Release(j)
  BY <1>6, <1>12, Zenon DEF Release
<1>13. CASE JobEnds(j) \/ JobCallFails(j)
  <2>1. /\ UNCHANGED processing
        /\ j.step \in {"retry", "dlq"} => owed' = owed \ {m.key : m \in {j.msg} \ processing}
    BY <1>13, Zenon DEF JobEnds, JobCallFails, storeVars, Drop
  <2>2. CASE j.step \in {"retry", "dlq"}
    BY <1>7, <2>1, <2>2, Zenon
  <2>3. CASE j.step \notin {"retry", "dlq"}
    BY <1>6, <2>1, <2>3, Zenon
  <2> QED BY <2>2, <2>3, Zenon
<1>14. CASE SoftDeadline(j)
  <2>1. UNCHANGED processing /\ jobs' = (jobs \ {j}) \union {[j EXCEPT !.live = FALSE]}
    BY <1>14, Zenon DEF SoftDeadline, storeVars
  <2>2. [j EXCEPT !.live = FALSE].msg = j.msg /\ [j EXCEPT !.live = FALSE].step = j.step
    BY Zenon DEF Types, Jobs
  <2>3. \A m : Leaving(m) => Leaving(m)'
    BY <2>1, <2>2, Zenon DEF Leaving
  <2> QED BY <1>1, <1>2, <1>4, <2>1, <2>3, Zenon DEF Witness, OnItsWay
<1> QED BY <1>8, <1>9, <1>10, <1>11, <1>12, <1>13, <1>14, Zenon DEF JobStep, JobCall

LEMMA StepKept == Types /\ Apart /\ Kept /\ [Next]_vars => Kept'
<1> SUFFICES ASSUME Types, Apart, Kept, [Next]_vars PROVE Kept'
  BY Zenon
<1>1. CASE UNCHANGED <<queue, processing, dlq, call, at, hand, jobs, owed>>
  BY <1>1 DEF Kept, Safe, Witness, DeadWitness, Acked, Doomed, OnItsWay, InHand, Leaving
<1>2. ASSUME \/ \E m \in queue : BecomesDue(m)
             \/ \E m \in processing : VisibilityElapsed(m) \/ VisibilityTooShort(m)
             \/ \E k \in Keys : DedupExpires(k)
             \/ UNCHANGED vars
      PROVE  UNCHANGED <<queue, processing, dlq, call, at, hand, jobs, owed>>
  BY <1>2, Zenon DEF BecomesDue, VisibilityElapsed, VisibilityTooShort, Expire, DedupExpires,
              vars, storeVars, clientVars, loopVars
<1> QED BY <1>1, <1>2, ClientKept, LoopKept, JobKept, Zenon DEF Next

\* An accepted task is lost only where Drop says so: crashes, stops, failed calls
\* and racing redeliveries anywhere else leave a copy or a dead letter of it.
THEOREM NothingEverLost == Spec => []NothingLost
<1>1. Init => Types /\ OneInHand /\ Apart /\ Kept
  BY InitTypes, InitOneInHand, InitApart, InitKept, Zenon
<1>2. Types /\ OneInHand /\ Apart /\ Kept /\ [Next]_vars => (Types /\ OneInHand /\ Apart /\ Kept)'
  BY StepTypes, StepOneInHand, StepApart, StepKept, Zenon
<1>3. Types /\ Kept => NothingLost
  <2> SUFFICES ASSUME Types, Kept, NEW k \in owed PROVE Copies(k) # {} \/ \E e \in dlq : e.key = k
    BY Zenon DEF NothingLost
  <2>1. PICK m : Witness(k, m) \/ DeadWitness(k, m)
    BY Zenon DEF Kept, Safe
  <2>2. CASE DeadWitness(k, m)
    BY <2>2, Zenon DEF DeadWitness
  <2>3. CASE Witness(k, m)
    <3> DEFINE B == UNION {Between(w) : w \in Workers}
    <3>1. InHand(m) \/ Leaving(m) => \E w \in Workers : m \in Between(w)
      <4>1. \A j \in jobs : j.w \in Workers /\ j \in JobsOf(j.w)
        BY Zenon DEF Types, Jobs, JobsOf
      <4> QED BY <4>1, BetweenIs, ZenonT(30) DEF InHand, Leaving
    <3>2. \A w \in Workers : Between(w) \subseteq B
      BY Zenon
    <3>3. m \in queue \union processing \union B
      <4> HIDE DEF B
      <4> QED BY <2>3, <3>1, <3>2, Zenon DEF Witness, OnItsWay
    <3>4. Copies(k) = {n \in queue \union processing \union B : n.key = k}
      BY Zenon DEF Copies
    <3> HIDE DEF B
    <3> QED BY <2>3, <3>3, <3>4, Zenon DEF Witness
  <2> QED BY <2>1, <2>2, <2>3, Zenon
<1> QED BY <1>1, <1>2, <1>3, PTL DEF Spec


----------------------------------------------------------------------------
(***************************************************************************)
(* One copy.  Until something fails, the right to a key is a token: it is  *)
(* with the Enqueue call that set the deduplication key, with the message  *)
(* in the queue, with the loop that popped it or with its job, and it      *)
(* passes from one to the next until the key is deleted.                   *)
(***************************************************************************)
Token(k, t) ==
    \/ \E c \in Clients : t = <<"call", c>> /\ call[c].step = "add" /\ call[c].key = k
    \/ \E m \in queue : t = <<"queue", m>> /\ m.key = k
    \/ \E w \in Workers : Holding(w) /\ \E m \in hand[w] : t = <<"hand", <<w, m>>>> /\ m.key = k
    \/ \E j \in jobs : t = <<"job", j>> /\ j.msg.key = k

Alone ==
    \A k \in Keys : /\ \A s, t : Token(k, s) /\ Token(k, t) => s = t
                    /\ \A t : Token(k, t) => k \in dedup

Held(m) ==
    \/ \E w \in Workers : at[w] = "wait" /\ m \in hand[w]
    \/ \E j \in jobs : j.msg = m /\ j.step \in {"run", "ackRem", "rem"}

\* Nothing is late, stopped or redelivered.
Quiet ==
    /\ late = {}
    /\ \A w \in Workers : ctx[w] = "live" /\ at[w] \in {"poll", "popped", "notdue", "wait"}
    /\ \A j \in jobs : j.live
    /\ \A m \in processing : Held(m)

\* The token s of key k becomes t; every other one stays or goes.
Trade(k, s, t) ==
    \A x \in Keys : \A u : Token(x, u)' => (x = k /\ u = t) \/ (Token(x, u) /\ u # s)

Take(k, t) == \A x \in Keys : \A u : Token(x, u)' => (x = k /\ u = t) \/ Token(x, u)
GiveBack(s) == \A x \in Keys : \A u : Token(x, u)' => Token(x, u) /\ u # s
NoTrade == \A x \in Keys : \A u : Token(x, u)' => Token(x, u)

LEMMA Tags ==
    /\ \A a, b : <<"call", a>> # <<"queue", b>> /\ <<"call", a>> # <<"hand", b>>
    /\ \A a, b : <<"call", a>> # <<"job", b>> /\ <<"queue", a>> # <<"hand", b>>
    /\ \A a, b : <<"queue", a>> # <<"job", b>> /\ <<"hand", a>> # <<"job", b>>
    /\ \A g, a, b : <<g, a>> = <<g, b>> => a = b
  OBVIOUS

LEMMA Traded ==
    ASSUME Alone, dedup' = dedup, NEW k \in Keys, NEW s, NEW t, Token(k, s), Trade(k, s, t)
    PROVE  Alone'
<1>1. ASSUME NEW x \in Keys, NEW u, Token(x, u)' PROVE x \in dedup'
  BY <1>1, Zenon DEF Alone, Trade
<1>2. ASSUME NEW x \in Keys, NEW u, NEW v, Token(x, u)', Token(x, v)' PROVE u = v
  <2>1. CASE x = k
    <3>1. ASSUME NEW y, Token(x, y)' PROVE y = t
      BY <2>1, <3>1, Zenon DEF Alone, Trade
    <3> QED BY <1>2, <3>1, Zenon
  <2>2. CASE x # k
    BY <1>2, <2>2, Zenon DEF Alone, Trade
  <2> QED BY <2>1, <2>2, Zenon
<1> QED BY <1>1, <1>2, Zenon DEF Alone

LEMMA NothingTraded ==
    ASSUME Alone, dedup' = dedup, NoTrade
    PROVE  Alone'
  BY Zenon DEF Alone, NoTrade

\* SETNX succeeds: there was no token.
LEMMA TokenTaken ==
    ASSUME Alone, NEW k \in Keys, k \notin dedup, dedup' = dedup \union {k}, NEW t,
           Take(k, t)
    PROVE  Alone'
<1>1. ASSUME NEW x \in Keys, NEW u, Token(x, u)' PROVE x \in dedup'
  BY <1>1, Zenon DEF Alone, Take
<1>2. ASSUME NEW x \in Keys, NEW u, NEW v, Token(x, u)', Token(x, v)' PROVE u = v
  <2>1. CASE x = k
    <3>1. ASSUME NEW y, Token(x, y)' PROVE y = t
      BY <2>1, <3>1, Zenon DEF Alone, Take
    <3> QED BY <1>2, <3>1, Zenon
  <2>2. CASE x # k
    BY <1>2, <2>2, Zenon DEF Alone, Take
  <2> QED BY <2>1, <2>2, Zenon
<1> QED BY <1>1, <1>2, Zenon DEF Alone

\* DEL: the last token of the key is gone.
LEMMA TokenReturned ==
    ASSUME Alone, NEW k \in Keys, dedup' = dedup \ {k}, NEW s, Token(k, s),
           GiveBack(s)
    PROVE  Alone'
<1>1. ASSUME NEW x \in Keys, NEW u, Token(x, u)' PROVE x \in dedup'
  BY <1>1, Zenon DEF Alone, GiveBack
<1>2. ASSUME NEW x \in Keys, NEW u, NEW v, Token(x, u)', Token(x, v)' PROVE u = v
  BY <1>2, Zenon DEF Alone, GiveBack
<1> QED BY <1>1, <1>2, Zenon DEF Alone, GiveBack

\* A client's step in detail: the record of its call, and those of the others.
LEMMA CallSet ==
    ASSUME Types, NEW c \in Clients, NEW r, call' = [call EXCEPT ![c] = r]
    PROVE  call'[c] = r /\ \A d \in Clients : d # c => call'[d] = call[d]
  BY Zenon DEF Types

LEMMA ClientAlone ==
    ASSUME Types, Alone, Quiet, ~Trouble, NEW c \in Clients,
           \/ \E k \in Keys : EnqueueStart(c, k)
           \/ \E e \in dlq : ReplayStart(c, e)
           \/ ClientStep(c)
           \/ CallFails(c)
    PROVE  Alone' /\ Quiet'
<1>1. at' = at /\ ctx' = ctx /\ hand' = hand /\ jobs' = jobs /\ processing' = processing /\ late' = late
  BY Zenon DEF EnqueueStart, ReplayStart, ClientStep, EnqueueSetNX, EnqueueAdd, DeleteEntry, CallFails,
               storeVars, loopVars
<1>2. Quiet'
  BY <1>1, Zenon DEF Quiet, Held
<1>3. call[c] \in Calls /\ call[c].key \in Keys /\ call[c].attempt \in Nat
  BY Zenon DEF Types, Calls
<1>4. Idle(c).step = "idle"
  BY <1>3 DEF Idle, Calls
<1>5. ASSUME queue' = queue, NEW r, r.step # "add", call' = [call EXCEPT ![c] = r] PROVE NoTrade
  <2>1. call'[c] = r /\ \A d \in Clients : d # c => call'[d] = call[d]
    BY <1>5, CallSet, Zenon
  <2> QED BY <1>1, <1>5, <2>1, Zenon DEF NoTrade, Token, Holding
<1>6. ASSUME NEW k \in Keys, EnqueueStart(c, k) PROVE Alone'
  <2>1. PICK r : r = [step |-> "setnx", key |-> k, attempt |-> 0, entry |-> {}]
    BY Zenon
  <2>2. r.step = "setnx" /\ call' = [call EXCEPT ![c] = r] /\ queue' = queue /\ dedup' = dedup
    BY <1>6, <2>1, Zenon DEF EnqueueStart, storeVars
  <2> QED BY <1>5, <2>2, NothingTraded, Zenon
<1>7. ASSUME NEW e \in dlq, ReplayStart(c, e) PROVE Alone'
  <2>1. PICK r : r = [step |-> "setnx", key |-> e.key, attempt |-> ReplayAttempt(e), entry |-> {e}]
    BY Zenon
  <2>2. r.step = "setnx" /\ call' = [call EXCEPT ![c] = r] /\ queue' = queue /\ dedup' = dedup
    BY <1>7, <2>1, Zenon DEF ReplayStart, storeVars
  <2> QED BY <1>5, <2>2, NothingTraded, Zenon
<1>8. CASE EnqueueSetNX(c)
  <2>1. queue' = queue /\ call[c].step = "setnx"
    BY <1>8, Zenon DEF EnqueueSetNX
  <2>2. CASE /\ call[c].key \notin dedup /\ dedup' = dedup \union {call[c].key}
             /\ call' = [call EXCEPT ![c].step = "add"]
    <3>1. PICK k \in Keys : k = call[c].key
      BY <1>3, Zenon
    <3>2. call'[c].key = k /\ \A d \in Clients : d # c => call'[d] = call[d]
      BY <1>3, <2>2, <3>1, Zenon DEF Types, Calls
    <3>3. ASSUME NEW x \in Keys, NEW u, Token(x, u)' PROVE (x = k /\ u = <<"call", c>>) \/ Token(x, u)
      <4>1. CASE \E d \in Clients : u = <<"call", d>> /\ call'[d].step = "add" /\ call'[d].key = x
        BY <3>2, <4>1, Zenon DEF Token
      <4>2. CASE ~\E d \in Clients : u = <<"call", d>> /\ call'[d].step = "add" /\ call'[d].key = x
        BY <1>1, <2>1, <3>3, <4>2, Zenon DEF Token, Holding
      <4> QED BY <4>1, <4>2, Zenon
    <3>4. Take(k, <<"call", c>>)
      BY <3>3, Zenon DEF Take
    <3>5. k \notin dedup /\ dedup' = dedup \union {k}
      BY <2>2, <3>1, Zenon
    <3> QED BY <1>2, <3>4, <3>5, TokenTaken, Zenon
  <2>3. CASE UNCHANGED dedup /\ call' = [call EXCEPT ![c] = IF @.entry = {} THEN Idle(c)
                                                            ELSE [@ EXCEPT !.step = "dropped"]]
    <3>1. [call[c] EXCEPT !.step = "dropped"].step = "dropped"
      BY <1>3, Zenon DEF Calls
    <3>2. PICK r : r.step # "add" /\ call' = [call EXCEPT ![c] = r]
      BY <1>4, <2>3, <3>1, Zenon
    <3>3. NoTrade /\ dedup' = dedup
      BY <1>5, <2>1, <2>3, <3>2, Zenon
    <3> QED BY <1>2, <3>3, NothingTraded, Zenon
  <2> QED BY <1>8, <2>2, <2>3, Zenon DEF EnqueueSetNX
<1>9. CASE EnqueueAdd(c)
  <2>1. PICK k \in Keys : k = call[c].key
    BY <1>3, Zenon
  <2>2. PICK m \in Messages : m = Message(call[c].key, call[c].attempt) /\ m.key = k
    <3>1. PICK n \in Nat : n = call[c].attempt
      BY <1>3, Zenon
    <3>2. Message(k, n) \in Messages /\ Message(k, n).key = k
      BY <1>9, NewMessage, Zenon DEF EnqueueAdd
    <3> QED BY <2>1, <3>1, <3>2, Zenon
  <2>3. call[c].step = "add" /\ queue' = queue \union {m} /\ dedup' = dedup
    BY <1>9, <2>2, Zenon DEF EnqueueAdd
  <2>4. [call[c] EXCEPT !.step = "delete"].step = "delete"
    BY <1>3, Zenon DEF Calls
  <2>5. PICK r : r.step # "add" /\ call' = [call EXCEPT ![c] = r]
    BY <1>4, <1>9, <2>4, Zenon DEF EnqueueAdd
  <2>6. call'[c] = r /\ \A d \in Clients : d # c => call'[d] = call[d]
    BY <2>5, CallSet, Zenon
  <2>7. ASSUME NEW x \in Keys, NEW u, Token(x, u)'
        PROVE  (x = k /\ u = <<"queue", m>>) \/ (Token(x, u) /\ u # <<"call", c>>)
    <3>1. CASE \E d \in Clients : u = <<"call", d>> /\ call'[d].step = "add" /\ call'[d].key = x
      BY <2>5, <2>6, <3>1, Tags, Zenon DEF Token
    <3>2. CASE \E n \in queue' : u = <<"queue", n>> /\ n.key = x
      BY <2>2, <2>3, <3>2, Tags, Zenon DEF Token
    <3>3. CASE \E w \in Workers : Holding(w)' /\ \E n \in hand'[w] : u = <<"hand", <<w, n>>>> /\ n.key = x
      BY <1>1, <3>3, Tags, Zenon DEF Token, Holding
    <3>4. CASE \E j \in jobs' : u = <<"job", j>> /\ j.msg.key = x
      BY <1>1, <3>4, Tags, Zenon DEF Token
    <3> QED BY <2>7, <3>1, <3>2, <3>3, <3>4, Zenon DEF Token
  <2>8. Token(k, <<"call", c>>)
    BY <2>1, <2>3, Zenon DEF Token
  <2>9. Trade(k, <<"call", c>>, <<"queue", m>>)
    BY <2>7, Zenon DEF Trade
  <2> QED BY <1>2, <2>3, <2>8, <2>9, Traded, Zenon
<1>10. CASE DeleteEntry(c)
  <2>1. PICK r : r = Idle(c)
    BY Zenon
  <2>2. r.step # "add" /\ call' = [call EXCEPT ![c] = r] /\ queue' = queue /\ dedup' = dedup
    BY <1>4, <1>10, <2>1, Zenon DEF DeleteEntry
  <2> QED BY <1>2, <1>5, <2>2, NothingTraded, Zenon
<1>11. ~CallFails(c)
  BY Zenon DEF CallFails
<1> QED BY <1>2, <1>6, <1>7, <1>8, <1>9, <1>10, <1>11, Zenon DEF ClientStep

\* The parts of a token, one by one.
LEMMA TokenCases ==
    ASSUME NEW x, NEW u, Token(x, u)'
    PROVE  \/ \E c \in Clients : u = <<"call", c>> /\ call'[c].step = "add" /\ call'[c].key = x
           \/ \E m \in queue' : u = <<"queue", m>> /\ m.key = x
           \/ \E v \in Workers : Holding(v)' /\ \E m \in hand'[v] : u = <<"hand", <<v, m>>>> /\ m.key = x
           \/ \E j \in jobs' : u = <<"job", j>> /\ j.msg.key = x
  BY Zenon DEF Token

LEMMA StepRecord ==
    ASSUME Types, NEW w \in Workers, NEW p, NEW h, Step(w, p, h)
    PROVE  /\ at'[w] = p /\ hand'[w] = h
           /\ \A v \in Workers : v # w => at'[v] = at[v] /\ hand'[v] = hand[v]
           /\ \A v \in Workers : v # w => (Holding(v)' <=> Holding(v))
<1>1. /\ at'[w] = p /\ hand'[w] = h
      /\ \A v \in Workers : v # w => at'[v] = at[v] /\ hand'[v] = hand[v]
  BY Zenon DEF Types, Step
<1> QED BY <1>1, Zenon DEF Holding

\* ZPOPMIN and the ZADD of a message that is not due.
LEMMA PopAlone ==
    ASSUME Types, OneInHand, Alone, Quiet, ~Trouble, NEW w \in Workers, Pop(w) \/ PushBack(w)
    PROVE  Alone' /\ Quiet'
<1>1. /\ call' = call /\ dedup' = dedup /\ jobs' = jobs /\ processing' = processing /\ late' = late
      /\ ctx' = ctx
  BY Zenon DEF Pop, PushBack, clientVars
<1>2. ctx[w] = "live" /\ Live(w)
  BY Zenon DEF Quiet, Live
<1>3. ASSUME at[w] # "wait", NEW p \in {"poll", "popped", "notdue"}, at'[w] = p,
             \A v \in Workers : v # w => at'[v] = at[v] /\ hand'[v] = hand[v]
      PROVE  Quiet'
  <2>1. ASSUME NEW n \in processing PROVE Held(n)'
    <3>1. CASE \E v \in Workers : at[v] = "wait" /\ n \in hand[v]
      <4>1. PICK v \in Workers : at[v] = "wait" /\ n \in hand[v]
        BY <3>1, Zenon
      <4>2. v # w
        BY <1>3, <4>1, Zenon
      <4>3. at'[v] = "wait" /\ n \in hand'[v]
        BY <1>3, <4>1, <4>2, Zenon
      <4> QED BY <4>3, Zenon DEF Held
    <3>2. CASE \E j \in jobs : j.msg = n /\ j.step \in {"run", "ackRem", "rem"}
      BY <1>1, <3>2, Zenon DEF Held
    <3> QED BY <3>1, <3>2, Zenon DEF Quiet, Held
  <2>2. \A v \in Workers : ctx'[v] = "live" /\ at'[v] \in {"poll", "popped", "notdue", "wait"}
    BY <1>1, <1>3, Zenon DEF Quiet
  <2> QED BY <1>1, <2>1, <2>2, Zenon DEF Quiet
<1>4. CASE Pop(w)
  <2>1. PICK m \in IF due = {} THEN queue ELSE due :
           queue' = queue \ {m} /\ Step(w, IF m \in due THEN "popped" ELSE "notdue", {m})
    BY <1>4, Zenon DEF Pop
  <2>2. m \in queue /\ m.key \in Keys /\ at[w] = "poll" /\ ~Holding(w)
    BY <1>4, Zenon DEF Types, Messages, Pop, Holding
  <2>3. PICK p \in {"popped", "notdue"} : Step(w, p, {m})
    BY <2>1, Zenon
  <2>4. /\ at'[w] = p /\ hand'[w] = {m}
        /\ \A v \in Workers : v # w => at'[v] = at[v] /\ hand'[v] = hand[v]
        /\ \A v \in Workers : v # w => (Holding(v)' <=> Holding(v))
    BY <2>3, StepRecord, Zenon
  <2>5. Quiet'
    BY <1>3, <2>2, <2>3, <2>4, Zenon
  <2>6. PICK k \in Keys : k = m.key
    BY <2>2, Zenon
  <2>7. ASSUME NEW x \in Keys, NEW u, Token(x, u)'
        PROVE  (x = k /\ u = <<"hand", <<w, m>>>>) \/ (Token(x, u) /\ u # <<"queue", m>>)
    <3>1. CASE \E d \in Clients : u = <<"call", d>> /\ call'[d].step = "add" /\ call'[d].key = x
      BY <1>1, <3>1, Tags, Zenon DEF Token
    <3>2. CASE \E n \in queue' : u = <<"queue", n>> /\ n.key = x
      BY <2>1, <3>2, Tags, Zenon DEF Token
    <3>3. CASE \E v \in Workers : Holding(v)' /\ \E n \in hand'[v] : u = <<"hand", <<v, n>>>> /\ n.key = x
      BY <2>4, <2>6, <3>3, Tags, Zenon DEF Token
    <3>4. CASE \E j \in jobs' : u = <<"job", j>> /\ j.msg.key = x
      BY <1>1, <3>4, Tags, Zenon DEF Token
    <3> QED BY <2>7, <3>1, <3>2, <3>3, <3>4, TokenCases, Zenon
  <2>8. Token(k, <<"queue", m>>) /\ Trade(k, <<"queue", m>>, <<"hand", <<w, m>>>>)
    BY <2>2, <2>6, <2>7, Zenon DEF Token, Trade
  <2> QED BY <1>1, <2>5, <2>8, Traded, Zenon
<1>5. CASE PushBack(w)
  <2>1. at[w] = "notdue" /\ queue' = queue \union hand[w] /\ Step(w, "poll", {})
    BY <1>2, <1>5, Zenon DEF PushBack
  <2>2. /\ at'[w] = "poll" /\ hand'[w] = {}
        /\ \A v \in Workers : v # w => at'[v] = at[v] /\ hand'[v] = hand[v]
        /\ \A v \in Workers : v # w => (Holding(v)' <=> Holding(v))
    BY <2>1, StepRecord, Zenon
  <2>3. Quiet'
    BY <1>3, <2>1, <2>2, Zenon
  <2>4. Holding(w)
    BY <2>1, Zenon DEF Holding
  <2>5. ASSUME NEW x \in Keys, NEW u, Token(x, u)'
        PROVE  \/ \E n \in hand[w] : x = n.key /\ u = <<"queue", n>>
               \/ Token(x, u) /\ \A n \in hand[w] : u # <<"hand", <<w, n>>>>
    <3>1. CASE \E d \in Clients : u = <<"call", d>> /\ call'[d].step = "add" /\ call'[d].key = x
      BY <1>1, <3>1, Tags, Zenon DEF Token
    <3>2. CASE \E n \in queue' : u = <<"queue", n>> /\ n.key = x
      BY <2>1, <3>2, Tags, Zenon DEF Token
    <3>3. CASE \E v \in Workers : Holding(v)' /\ \E n \in hand'[v] : u = <<"hand", <<v, n>>>> /\ n.key = x
      BY <2>2, <3>3, Tags, Zenon DEF Token
    <3>4. CASE \E j \in jobs' : u = <<"job", j>> /\ j.msg.key = x
      BY <1>1, <3>4, Tags, Zenon DEF Token
    <3> QED BY <2>5, <3>1, <3>2, <3>3, <3>4, TokenCases, Zenon
  <2>6. CASE hand[w] = {}
    BY <1>1, <2>3, <2>5, <2>6, NothingTraded, Zenon DEF NoTrade
  <2>7. ASSUME NEW m \in hand[w] PROVE Alone'
    <3>1. m \in Messages
      BY Zenon DEF Types
    <3>2. PICK k \in Keys : k = m.key
      BY <3>1, Zenon DEF Messages
    <3>3. \A n \in hand[w] : n = m
      BY Zenon DEF OneInHand
    <3>4. Token(k, <<"hand", <<w, m>>>>)
      BY <2>4, <3>2, Zenon DEF Token
    <3>5. Trade(k, <<"hand", <<w, m>>>>, <<"queue", m>>)
      BY <2>5, <3>2, <3>3, Zenon DEF Trade
    <3> QED BY <1>1, <3>4, <3>5, Traded, Zenon
  <2> QED BY <2>3, <2>6, <2>7, Zenon
<1> QED BY <1>4, <1>5, Zenon

\* The message in the hand of a loop goes to its job, or stays there.
LEMMA HandAlone ==
    ASSUME Types, OneInHand, Alone, dedup' = dedup, call' = call, queue' = queue,
           NEW w \in Workers, Holding(w), NEW H,
           \A n \in H : \E m \in hand[w] : n.key = m.key,
           \A n, o \in H : n = o,
           \A v \in Workers : v # w => hand'[v] = hand[v] /\ (Holding(v)' <=> Holding(v)),
           \/ hand'[w] = H /\ jobs' = jobs
           \/ /\ ~Holding(w)'
              /\ \E b \in BOOLEAN : jobs' = jobs \union {NewJob(w, n, b) : n \in H}
    PROVE  Alone'
<1>1. \A n, b : NewJob(w, n, b).msg = n
  BY DEF NewJob
<1>2. CASE H = {}
  <2>1. ASSUME NEW x \in Keys, NEW u, Token(x, u)' PROVE Token(x, u)
    <3>0. jobs' = jobs /\ (Holding(w)' => hand'[w] = {})
      BY <1>2, Zenon
    <3>1. CASE \E d \in Clients : u = <<"call", d>> /\ call'[d].step = "add" /\ call'[d].key = x
      BY <3>1, Zenon DEF Token
    <3>2. CASE \E n \in queue' : u = <<"queue", n>> /\ n.key = x
      BY <3>2, Zenon DEF Token
    <3>3. CASE \E v \in Workers : Holding(v)' /\ \E n \in hand'[v] : u = <<"hand", <<v, n>>>> /\ n.key = x
      BY <3>0, <3>3, Zenon DEF Token
    <3>4. CASE \E i \in jobs' : u = <<"job", i>> /\ i.msg.key = x
      BY <3>0, <3>4, Zenon DEF Token
    <3> QED BY <2>1, <3>1, <3>2, <3>3, <3>4, TokenCases, Zenon
  <2> QED BY <2>1, NothingTraded, Zenon DEF NoTrade
<1>3. ASSUME NEW n \in H PROVE Alone'
  <2>1. PICK m \in hand[w] : n.key = m.key
    BY Zenon
  <2>2. m \in Messages
    BY Zenon DEF Types
  <2>3. PICK k \in Keys : k = m.key
    BY <2>2, Zenon DEF Messages
  <2>4. H = {n} /\ \A o \in hand[w] : o = m
    <3>1. \A o \in hand[w] : o = m
      BY Zenon DEF OneInHand
    <3>2. \A o \in H : o = n
      BY Zenon
    <3> QED BY <3>1, <3>2, Zenon
  <2>5. Token(k, <<"hand", <<w, m>>>>)
    BY <2>3, Zenon DEF Token
  <2>6. ASSUME NEW x \in Keys, NEW u, Token(x, u)',
               ~\E i \in jobs' : u = <<"job", i>> /\ i.msg.key = x,
               ~(Holding(w)' /\ \E o \in hand'[w] : u = <<"hand", <<w, o>>>> /\ o.key = x)
        PROVE  Token(x, u) /\ u # <<"hand", <<w, m>>>>
    <3>1. CASE \E d \in Clients : u = <<"call", d>> /\ call'[d].step = "add" /\ call'[d].key = x
      BY <3>1, Tags, Zenon DEF Token
    <3>2. CASE \E o \in queue' : u = <<"queue", o>> /\ o.key = x
      BY <3>2, Tags, Zenon DEF Token
    <3>3. CASE \E v \in Workers : Holding(v)' /\ \E o \in hand'[v] : u = <<"hand", <<v, o>>>> /\ o.key = x
      <4>0. PICK v \in Workers : Holding(v)' /\ \E o \in hand'[v] : u = <<"hand", <<v, o>>>> /\ o.key = x
        BY <3>3, Zenon
      <4>1. PICK o \in hand'[v] : Holding(v)' /\ u = <<"hand", <<v, o>>>> /\ o.key = x
        BY <4>0, Zenon
      <4>2. v # w
        BY <2>6, <4>1, Zenon
      <4>3. Token(x, u)
        BY <4>1, <4>2, Zenon DEF Token
      <4>4. <<v, o>> # <<w, m>>
        BY <4>2
      <4> QED BY <4>1, <4>3, <4>4, Tags, Zenon
    <3> QED BY <2>6, <3>1, <3>2, <3>3, TokenCases, Zenon
  <2>7. CASE hand'[w] = H /\ jobs' = jobs
    <3>1. ASSUME NEW x \in Keys, NEW u, Token(x, u)'
          PROVE  (x = k /\ u = <<"hand", <<w, n>>>>) \/ (Token(x, u) /\ u # <<"hand", <<w, m>>>>)
      <4>1. CASE \E i \in jobs' : u = <<"job", i>> /\ i.msg.key = x
        BY <2>7, <4>1, Tags, Zenon DEF Token
      <4>2. CASE Holding(w)' /\ \E o \in hand'[w] : u = <<"hand", <<w, o>>>> /\ o.key = x
        BY <2>1, <2>3, <2>4, <2>7, <4>2, Zenon
      <4> QED BY <2>6, <3>1, <4>1, <4>2, Zenon
    <3>2. Trade(k, <<"hand", <<w, m>>>>, <<"hand", <<w, n>>>>)
      BY <3>1, Zenon DEF Trade
    <3> QED BY <2>5, <3>2, Traded, Zenon
  <2>8. ASSUME NEW b \in BOOLEAN, ~Holding(w)', jobs' = jobs \union {NewJob(w, o, b) : o \in H} PROVE Alone'
    <3>1. jobs' = jobs \union {NewJob(w, n, b)}
      BY <2>4, <2>8, Zenon
    <3>2. PICK i : i = NewJob(w, n, b) /\ i.msg = n
      BY <1>1, Zenon
    <3>3. ASSUME NEW x \in Keys, NEW u, Token(x, u)'
          PROVE  (x = k /\ u = <<"job", i>>) \/ (Token(x, u) /\ u # <<"hand", <<w, m>>>>)
      <4>1. CASE \E o \in jobs' : u = <<"job", o>> /\ o.msg.key = x
        BY <2>1, <2>3, <3>1, <3>2, <4>1, Tags, Zenon DEF Token
      <4> QED BY <2>6, <2>8, <3>3, <4>1, Zenon
    <3>4. Trade(k, <<"hand", <<w, m>>>>, <<"job", i>>)
      BY <3>3, Zenon DEF Trade
    <3> QED BY <2>5, <3>4, Traded, Zenon
  <2> QED BY <2>7, <2>8, Zenon
<1> QED BY <1>2, <1>3, Zenon

\* The ZADD to the processing set, and the start of a job.
LEMMA ClaimAlone ==
    ASSUME Types, OneInHand, Alone, Quiet, NEW w \in Workers, Claim(w) \/ Spawn(w)
    PROVE  Alone' /\ Quiet'
<1>1. call' = call /\ dedup' = dedup /\ queue' = queue /\ late' = late /\ ctx' = ctx
  BY Zenon DEF Claim, Spawn, clientVars, storeVars
<1>2. ctx[w] = "live" /\ Live(w) /\ Holding(w)
  BY Zenon DEF Quiet, Live, Holding, Claim, Spawn
<1>3. PICK H : /\ Claim(w) => H = Claimed(w) /\ processing' = processing \union H
               /\ ~Claim(w) => H = hand[w] /\ processing' = processing /\ at[w] = "wait"
               /\ \/ Step(w, "wait", H) /\ jobs' = jobs
                  \/ Step(w, "poll", {}) /\ \E b \in BOOLEAN : jobs' = jobs \union {NewJob(w, n, b) : n \in H}
  <2>1. CASE Claim(w)
    BY <2>1, Zenon DEF Claim
  <2>2. CASE ~Claim(w)
    BY <2>2, Zenon DEF Spawn, storeVars
  <2> QED BY <2>1, <2>2, Zenon
<1>4. PICK p, h : p \in {"wait", "poll"} /\ Step(w, p, h) /\ (p = "wait" => h = H /\ jobs' = jobs)
          /\ (p = "poll" => \E b \in BOOLEAN : jobs' = jobs \union {NewJob(w, n, b) : n \in H})
  BY <1>3, Zenon
<1>5. /\ at'[w] = p /\ hand'[w] = h
      /\ \A v \in Workers : v # w => at'[v] = at[v] /\ hand'[v] = hand[v]
      /\ \A v \in Workers : v # w => (Holding(v)' <=> Holding(v))
  BY <1>4, StepRecord, Zenon
<1>6. (\A n \in H : \E m \in hand[w] : n.key = m.key) /\ (\A n, o \in H : n = o)
  <2>1. CASE Claim(w)
    <3>1. \A n \in Claimed(w) : \E m \in hand[w] : n.key = m.key
      BY ClaimedMessages, Zenon
    <3>2. \A n, o \in Claimed(w) : n = o
      BY Zenon DEF Claimed, OneInHand
    <3> QED BY <1>3, <2>1, <3>1, <3>2, Zenon
  <2>2. CASE ~Claim(w)
    BY <1>3, <2>2, Zenon DEF OneInHand
  <2> QED BY <1>4, <2>1, <2>2, Zenon
<1>7. Alone'
  <2>1. CASE p = "wait"
    BY <1>1, <1>2, <1>4, <1>5, <1>6, <2>1, HandAlone, Zenon
  <2>2. CASE p = "poll"
    <3>1. ~Holding(w)'
      BY <1>5, <2>2, Zenon DEF Holding
    <3> QED BY <1>1, <1>2, <1>4, <1>5, <1>6, <2>2, <3>1, HandAlone, Zenon
  <2> QED BY <1>4, <2>1, <2>2, Zenon
<1>8. \A n : \A b \in BOOLEAN : LET i == NewJob(w, n, b) IN i.live /\ i.msg = n /\ i.step = "run"
  BY <1>2 DEF NewJob
<1>9. \A i \in jobs' : i.live
  <2>1. \A i \in jobs : i.live
    BY Zenon DEF Quiet
  <2>2. CASE p = "wait"
    BY <1>4, <2>1, <2>2, Zenon
  <2>3. CASE p = "poll"
    <3>1. PICK b \in BOOLEAN : jobs' = jobs \union {NewJob(w, n, b) : n \in H}
      BY <1>4, <2>3, Zenon
    <3>2. \A n : NewJob(w, n, b).live
      BY <1>8, Zenon
    <3> QED BY <2>1, <3>1, <3>2, Zenon
  <2> QED BY <1>4, <2>2, <2>3, Zenon
<1>10. ASSUME NEW n \in H PROVE Held(n)'
  <2>1. CASE p = "wait"
    BY <1>4, <1>5, <2>1, Zenon DEF Held
  <2>2. CASE p = "poll"
    <3>1. PICK b \in BOOLEAN : jobs' = jobs \union {NewJob(w, o, b) : o \in H}
      BY <1>4, <2>2, Zenon
    <3>2. NewJob(w, n, b) \in jobs'
      BY <3>1, Zenon
    <3>3. NewJob(w, n, b).msg = n /\ NewJob(w, n, b).step = "run"
      BY <1>8, Zenon
    <3> QED BY <3>2, <3>3, Zenon DEF Held
  <2> QED BY <1>4, <2>1, <2>2, Zenon
<1>11. ASSUME NEW n \in processing PROVE Held(n)'
  <2>1. CASE \E i \in jobs : i.msg = n /\ i.step \in {"run", "ackRem", "rem"}
    <3>1. jobs \subseteq jobs'
      BY <1>4, Zenon
    <3> QED BY <2>1, <3>1, Zenon DEF Held
  <2>2. CASE \E v \in Workers : at[v] = "wait" /\ n \in hand[v]
    <3>1. PICK v \in Workers : at[v] = "wait" /\ n \in hand[v]
      BY <2>2, Zenon
    <3>2. CASE v # w
      <4>1. at'[v] = "wait" /\ n \in hand'[v]
        BY <1>5, <3>1, <3>2, Zenon
      <4> QED BY <4>1, Zenon DEF Held
    <3>3. CASE v = w
      <4>1. ~Claim(w)
        BY <3>1, <3>3, Zenon DEF Claim
      <4>2. n \in H
        BY <1>3, <3>1, <3>3, <4>1, Zenon
      <4> QED BY <1>10, <4>2, Zenon
    <3> QED BY <3>2, <3>3, Zenon
  <2> QED BY <2>1, <2>2, Zenon DEF Quiet, Held
<1>12. \A v \in Workers : ctx'[v] = "live" /\ at'[v] \in {"poll", "popped", "notdue", "wait"}
  <2> SUFFICES ASSUME NEW v \in Workers
               PROVE  ctx'[v] = "live" /\ at'[v] \in {"poll", "popped", "notdue", "wait"}
    OBVIOUS
  <2>1. ctx[v] = "live" /\ at[v] \in {"poll", "popped", "notdue", "wait"}
    BY Zenon DEF Quiet
  <2>2. CASE v = w
    BY <1>1, <1>4, <1>5, <2>1, <2>2, Zenon
  <2>3. CASE v # w
    BY <1>1, <1>5, <2>1, <2>3, Zenon
  <2> QED BY <2>2, <2>3, Zenon
<1>13. \A n \in processing' : Held(n)'
  BY <1>3, <1>10, <1>11, Zenon
<1> QED BY <1>1, <1>7, <1>9, <1>12, <1>13, Zenon DEF Quiet

LEMMA TokenKey ==
    ASSUME NEW x, NEW u
    PROVE  /\ Token(x, <<"job", u>>)' => u.msg.key = x
           /\ Token(x, <<"queue", u>>)' => u.key = x
<1>1. ASSUME Token(x, <<"job", u>>)' PROVE u.msg.key = x
  <2>1. \E i \in jobs' : <<"job", u>> = <<"job", i>> /\ i.msg.key = x
    BY <1>1, TokenCases, Tags, Zenon
  <2> QED BY <2>1, Tags, Zenon
<1>2. ASSUME Token(x, <<"queue", u>>)' PROVE u.key = x
  <2>1. \A b : <<"queue", u>> # <<"call", b>> /\ <<"queue", u>> # <<"hand", b>> /\ <<"queue", u>> # <<"job", b>>
    OBVIOUS
  <2>2. \E m \in queue' : <<"queue", u>> = <<"queue", m>> /\ m.key = x
    BY <1>2, <2>1, TokenCases, Zenon
  <2> QED BY <2>2, Tags, Zenon
<1> QED BY <1>1, <1>2, Zenon

\* The calls of a job.
LEMMA JobAlone ==
    ASSUME Types, Alone, Quiet, ~Trouble, NEW j \in jobs,
           JobStep(j) \/ JobCallFails(j) \/ SoftDeadline(j)
    PROVE  Alone' /\ Quiet'
<1>1. j.live /\ j \in Jobs /\ j.msg \in Messages /\ j.step \in JobSteps
  BY Zenon DEF Quiet, Types, Jobs
<1>2. HandlerReturns(j) \/ JobCall(j)
  BY <1>1, Zenon DEF JobStep, JobCallFails, SoftDeadline, JobEnds
<1>3. call' = call /\ at' = at /\ ctx' = ctx /\ hand' = hand
  BY <1>2, Zenon DEF HandlerReturns, JobCall, clientVars, loopVars
<1>4. PICK k \in Keys : k = j.msg.key
  BY <1>1, Zenon DEF Messages
<1>5. Token(k, <<"job", j>>)
  BY <1>4, Zenon DEF Token
<1>6. ASSUME NEW x \in Keys, NEW u, Token(x, u)',
             \A i \in jobs' : u = <<"job", i>> => i \in jobs \ {j},
             \A m \in queue' : u = <<"queue", m>> => m \in queue
      PROVE  Token(x, u) /\ u # <<"job", j>>
  <2>1. CASE \E d \in Clients : u = <<"call", d>> /\ call'[d].step = "add" /\ call'[d].key = x
    BY <1>3, <2>1, Tags, Zenon DEF Token
  <2>2. CASE \E n \in queue' : u = <<"queue", n>> /\ n.key = x
    BY <1>6, <2>2, Tags, Zenon DEF Token
  <2>3. CASE \E v \in Workers : Holding(v)' /\ \E n \in hand'[v] : u = <<"hand", <<v, n>>>> /\ n.key = x
    BY <1>3, <2>3, Tags, Zenon DEF Token, Holding
  <2>4. CASE \E i \in jobs' : u = <<"job", i>> /\ i.msg.key = x
    BY <1>6, <2>4, Tags, Zenon DEF Token
  <2> QED BY <1>6, <2>1, <2>2, <2>3, <2>4, TokenCases, Zenon
<1>7. ASSUME NEW t \in JobSteps, Moved(j, t), queue' = queue, dedup' = dedup, late' = late \/ late' = {},
             \/ processing' = processing /\ (j.step \in {"run", "ackRem", "rem"} => t \in {"ackRem", "rem"})
             \/ processing' = processing \ {j.msg}
      PROVE  Alone' /\ Quiet'
  <2>1. PICK i : i = [j EXCEPT !.step = t] /\ i.msg = j.msg /\ i.step = t /\ i.live
    <3>1. /\ [j EXCEPT !.step = t].msg = j.msg /\ [j EXCEPT !.step = t].step = t
          /\ [j EXCEPT !.step = t].live
      BY <1>1, Zenon DEF Jobs
    <3> QED BY <3>1, Zenon
  <2>2. jobs' = (jobs \ {j}) \union {i}
    BY <1>7, <2>1, Zenon DEF Moved
  <2>3. ASSUME NEW x \in Keys, NEW u, Token(x, u)'
        PROVE  (x = k /\ u = <<"job", i>>) \/ (Token(x, u) /\ u # <<"job", j>>)
    <3>1. CASE u = <<"job", i>>
      <4>1. i.msg.key = x
        BY <2>3, <3>1, TokenKey, Zenon
      <4> QED BY <1>4, <2>1, <3>1, <4>1, Zenon
    <3>2. CASE u # <<"job", i>>
      BY <1>6, <1>7, <2>2, <2>3, <3>2, Zenon
    <3> QED BY <3>1, <3>2, Zenon
  <2>4. Alone'
    <3>1. Trade(k, <<"job", j>>, <<"job", i>>)
      BY <2>3, Zenon DEF Trade
    <3> QED BY <1>5, <1>7, <3>1, Traded, Zenon
  <2>5. ASSUME NEW n \in processing' PROVE Held(n)'
    <3>1. Held(n)
      BY <1>7, Zenon DEF Quiet
    <3>2. CASE \E w \in Workers : at[w] = "wait" /\ n \in hand[w]
      BY <1>3, <3>2, Zenon DEF Held
    <3>3. CASE \E o \in jobs \ {j} : o.msg = n /\ o.step \in {"run", "ackRem", "rem"}
      BY <2>2, <3>3, Zenon DEF Held
    <3>4. CASE j.msg = n /\ j.step \in {"run", "ackRem", "rem"}
      <4>1. i.msg = n /\ i.step \in {"ackRem", "rem"} /\ i \in jobs'
        BY <1>7, <2>1, <2>2, <2>5, <3>4, Zenon
      <4> QED BY <4>1, Zenon DEF Held
    <3> QED BY <3>1, <3>2, <3>3, <3>4, Zenon DEF Held
  <2>6. \A o \in jobs' : o.live
    BY <1>1, <2>1, <2>2, Zenon DEF Quiet
  <2>7. late' = {} /\ \A v \in Workers : ctx'[v] = "live" /\ at'[v] \in {"poll", "popped", "notdue", "wait"}
    BY <1>3, <1>7, Zenon DEF Quiet
  <2> QED BY <2>4, <2>5, <2>6, <2>7, Zenon DEF Quiet
<1>8. CASE HandlerReturns(j)
  <2>1. /\ queue' = queue /\ dedup' = dedup /\ late' = late /\ processing' = processing
        /\ Moved(j, "ackRem") \/ Moved(j, "rem")
    BY <1>8, Zenon DEF HandlerReturns, storeVars
  <2>2. PICK t \in {"ackRem", "rem"} : Moved(j, t)
    BY <2>1, Zenon
  <2>3. t \in JobSteps
    BY Zenon DEF JobSteps
  <2> QED BY <1>7, <2>1, <2>2, <2>3, Zenon
<1>9. CASE JobCall(j) /\ Remove(j)
  <2>1. /\ queue' = queue /\ dedup' = dedup /\ processing' = processing \ {j.msg}
        /\ late' = late \ {j.msg} /\ Advance(j) /\ j.step \in {"ackRem", "rem"}
    BY <1>9, Zenon DEF JobCall, Remove
  <2>2. Following(j) \in JobSteps /\ Following(j) # "end"
    BY <2>1, Zenon DEF Following, JobSteps
  <2>3. PICK t \in JobSteps : Moved(j, t)
    BY <2>1, <2>2, Zenon DEF Advance
  <2>4. late' = {}
    BY <2>1, Zenon DEF Quiet
  <2> QED BY <1>7, <2>1, <2>3, <2>4, Zenon
<1>10. CASE JobCall(j) /\ PushToDLQ(j)
  <2>1. /\ queue' = queue /\ dedup' = dedup /\ processing' = processing
        /\ late' = late /\ Advance(j) /\ j.step = "dlq"
    BY <1>10, Zenon DEF JobCall, PushToDLQ
  <2>2. Following(j) \in JobSteps /\ Following(j) # "end"
    BY <2>1, Zenon DEF Following, JobSteps
  <2>3. PICK t \in JobSteps : Moved(j, t)
    BY <2>1, <2>2, Zenon DEF Advance
  <2> QED BY <1>7, <2>1, <2>3, Zenon
<1>11. CASE JobCall(j) /\ (Retry(j) \/ Release(j))
  <2>1. /\ processing' = processing /\ late' = late /\ Advance(j)
        /\ j.step \in {"retry", "ackDel", "del"}
    BY <1>11, Zenon DEF JobCall, Retry, Release
  <2>2. Following(j) = "end"
    BY <2>1, Zenon DEF Following
  <2>3. jobs' = jobs \ {j}
    BY <2>1, <2>2, Zenon DEF Advance, Ended
  <2>4. ASSUME NEW n \in processing PROVE Held(n)'
    <3>1. Held(n)
      BY Zenon DEF Quiet
    <3>2. CASE \E w \in Workers : at[w] = "wait" /\ n \in hand[w]
      BY <1>3, <3>2, Zenon DEF Held
    <3>3. CASE \E o \in jobs : o.msg = n /\ o.step \in {"run", "ackRem", "rem"}
      BY <2>1, <2>3, <3>3, Zenon DEF Held
    <3> QED BY <3>1, <3>2, <3>3, Zenon DEF Held
  <2>5. Quiet'
    BY <1>3, <2>1, <2>3, <2>4, Zenon DEF Quiet
  <2>6. CASE Retry(j)
    <3>1. PICK n \in Nat : n = j.msg.attempt
      BY <1>1, Zenon DEF Messages
    <3>2. StampFree /\ queue' = queue \union {Message(k, n)} /\ dedup' = dedup
      BY <1>4, <2>6, <3>1, Zenon DEF Retry
    <3>3. PICK m : m = Message(k, n) /\ m.key = k
      <4>1. Message(k, n).key = k
        BY <3>2, NewMessage, Zenon
      <4> QED BY <4>1, Zenon
    <3>4. ASSUME NEW x \in Keys, NEW u, Token(x, u)'
          PROVE  (x = k /\ u = <<"queue", m>>) \/ (Token(x, u) /\ u # <<"job", j>>)
      <4>1. CASE u = <<"queue", m>>
        <5>1. m.key = x
          BY <3>4, <4>1, TokenKey, Zenon
        <5> QED BY <3>3, <4>1, <5>1, Zenon
      <4>2. CASE u # <<"queue", m>>
        BY <1>6, <2>3, <3>2, <3>3, <3>4, <4>2, Zenon
      <4> QED BY <4>1, <4>2, Zenon
    <3>5. Trade(k, <<"job", j>>, <<"queue", m>>)
      BY <3>4, Zenon DEF Trade
    <3> QED BY <1>5, <2>5, <3>2, <3>5, Traded, Zenon
  <2>7. CASE Release(j)
    <3>1. dedup' = dedup \ {k} /\ queue' = queue
      BY <1>4, <2>7, Zenon DEF Release
    <3>2. GiveBack(<<"job", j>>)
      BY <1>6, <2>3, <3>1, Zenon DEF GiveBack
    <3> QED BY <1>5, <2>5, <3>1, <3>2, TokenReturned, Zenon
  <2> QED BY <1>11, <2>6, <2>7, Zenon
<1> QED BY <1>2, <1>8, <1>9, <1>10, <1>11, Zenon DEF JobCall

Single == troubles = 0 => Alone /\ Quiet

LEMMA TroubleSteps ==
    ASSUME [Next]_vars
    PROVE  troubles' = troubles \/ Trouble
<1>1. ASSUME NEW c \in Clients,
             \/ \E k \in Keys : EnqueueStart(c, k)
             \/ \E e \in dlq : ReplayStart(c, e)
             \/ ClientStep(c) \/ CallFails(c)
      PROVE  troubles' = troubles \/ Trouble
  BY <1>1, Zenon DEF EnqueueStart, ReplayStart, ClientStep, EnqueueSetNX, EnqueueAdd, DeleteEntry, CallFails
<1>2. ASSUME NEW w \in Workers, LoopStep(w) \/ RequeueStart(w) \/ Stop(w) \/ Crash(w)
      PROVE  troubles' = troubles \/ Trouble
  BY <1>2, Zenon DEF LoopStep, Pop, PushBack, Claim, Spawn, RequeueRem, RequeueAdd, RequeueDone, ClaimFails,
                     Drain, PopCancelled, Restart, RequeueStart, Stop, Crash
<1>3. ASSUME NEW j \in jobs, JobStep(j) \/ JobCallFails(j) \/ SoftDeadline(j)
      PROVE  troubles' = troubles \/ Trouble
  BY <1>3, Zenon DEF JobStep, HandlerReturns, JobCall, JobEnds, JobCallFails, SoftDeadline
<1>4. ASSUME \/ \E m \in queue : BecomesDue(m)
             \/ \E m \in processing : VisibilityElapsed(m) \/ VisibilityTooShort(m)
             \/ \E k \in Keys : DedupExpires(k)
      PROVE  troubles' = troubles \/ Trouble
  BY <1>4, Zenon DEF BecomesDue, VisibilityElapsed, VisibilityTooShort, DedupExpires
<1>5. CASE UNCHANGED vars
  BY <1>5, Zenon DEF vars
<1> QED BY <1>1, <1>2, <1>3, <1>4, <1>5, Zenon DEF Next

LEMMA StepSingle == Types /\ OneInHand /\ Single /\ [Next]_vars => Single'
<1>1. SUFFICES ASSUME Types, OneInHand, Single, [Next]_vars, troubles' = 0 PROVE Alone' /\ Quiet'
  BY Zenon DEF Single
<1>2. troubles = 0 /\ ~Trouble
  <2>1. troubles \in Nat
    BY <1>1, Zenon DEF Types
  <2>2. ~Trouble
    BY <1>1, <2>1 DEF Trouble
  <2> QED BY <1>1, <2>2, TroubleSteps, Zenon
<1>3. Alone /\ Quiet
  BY <1>1, <1>2, Zenon DEF Single
<1>4. ASSUME NEW w \in Workers, LoopStep(w) \/ RequeueStart(w) \/ Stop(w) \/ Crash(w) PROVE Alone' /\ Quiet'
  <2>1. ctx[w] = "live" /\ Live(w) /\ late = {} /\ at[w] \notin {"requeue", "readd", "down"}
    BY <1>3, Zenon DEF Quiet, Live
  <2>2. Pop(w) \/ PushBack(w) \/ Claim(w) \/ Spawn(w)
    BY <1>2, <1>4, <2>1, Zenon DEF LoopStep, RequeueRem, RequeueAdd, RequeueDone, ClaimFails, Drain,
                                   PopCancelled, Restart, RequeueStart, Stop, Crash
  <2> QED BY <1>1, <1>2, <1>3, <2>2, PopAlone, ClaimAlone, Zenon
<1>5. CASE UNCHANGED <<call, queue, at, ctx, hand, jobs, processing, late, dedup>>
  <2>1. NoTrade
    BY <1>5, Zenon DEF NoTrade, Token, Holding
  <2>2. Quiet'
    BY <1>3, <1>5, Zenon DEF Quiet, Held
  <2> QED BY <1>3, <1>5, <2>1, <2>2, NothingTraded, Zenon
<1>6. ASSUME NEW m \in processing PROVE ~VisibilityElapsed(m) /\ ~VisibilityTooShort(m)
  <2>1. Held(m) /\ \A j \in jobs : j.live
    BY <1>3, Zenon DEF Quiet
  <2>2. Waiting(m) \/ RunningWith(m) # {}
    BY <2>1, Zenon DEF Held, Waiting, RunningWith
  <2> QED BY <1>2, <2>2, Zenon DEF VisibilityElapsed, VisibilityTooShort
<1>7. \A k \in Keys : ~DedupExpires(k)
  BY <1>2, Zenon DEF DedupExpires
<1>8. ASSUME NEW m \in queue, BecomesDue(m) PROVE Alone' /\ Quiet'
  BY <1>5, <1>8, Zenon DEF BecomesDue, clientVars, loopVars
<1>9. CASE UNCHANGED vars
  BY <1>5, <1>9, Zenon DEF vars, storeVars, clientVars, loopVars
<1>10. ASSUME NEW c \in Clients,
             \/ \E k \in Keys : EnqueueStart(c, k)
             \/ \E e \in dlq : ReplayStart(c, e)
             \/ ClientStep(c) \/ CallFails(c)
       PROVE Alone' /\ Quiet'
  BY <1>1, <1>2, <1>3, <1>10, ClientAlone, Zenon
<1>11. ASSUME NEW j \in jobs, JobStep(j) \/ JobCallFails(j) \/ SoftDeadline(j)
       PROVE Alone' /\ Quiet'
  BY <1>1, <1>2, <1>3, <1>11, JobAlone, Zenon
<1> QED BY <1>1, <1>4, <1>6, <1>7, <1>8, <1>9, <1>10, <1>11, Zenon DEF Next

LEMMA InitSingle == Init => Single
<1> SUFFICES ASSUME Init PROVE Alone /\ Quiet
  BY Zenon DEF Single
<1>1. \A c \in Clients : call[c].step = "idle"
  BY DEF Init
<1>2. ASSUME NEW k, NEW t PROVE ~Token(k, t)
  BY <1>1, Zenon DEF Token, Init
<1>3. Quiet
  BY Zenon DEF Init, Quiet
<1> QED BY <1>2, <1>3, Zenon DEF Alone

\* The token that stands for a copy.
LEMMA CopyToken ==
    ASSUME Quiet, NEW k \in Keys, NEW m \in Copies(k)
    PROVE  \/ Token(k, <<"queue", m>>)
           \/ \E w \in Workers : Token(k, <<"hand", <<w, m>>>>)
           \/ \E j \in jobs : j.msg = m /\ Token(k, <<"job", j>>)
<1>1. m.key = k /\ (m \in queue \/ m \in processing \/ \E w \in Workers : m \in Between(w))
  <2>1. m \in queue \union processing \union (UNION {Between(w) : w \in Workers}) /\ m.key = k
    BY Zenon DEF Copies
  <2>2. PICK B : B = UNION {Between(w) : w \in Workers} /\ \A n \in B : \E w \in Workers : n \in Between(w)
    BY ZenonT(30)
  <2> QED BY <2>1, <2>2, Zenon
<1>2. CASE m \in queue
  BY <1>1, <1>2, Zenon DEF Token
<1>3. ASSUME NEW j \in jobs, j.msg = m PROVE Token(k, <<"job", j>>)
  BY <1>1, <1>3, Zenon DEF Token
<1>4. ASSUME NEW w \in Workers, Holding(w), m \in hand[w] PROVE Token(k, <<"hand", <<w, m>>>>)
  BY <1>1, <1>4, Zenon DEF Token
<1>5. CASE m \in processing
  <2>1. Held(m)
    BY <1>5, Zenon DEF Quiet
  <2> QED BY <1>3, <1>4, <2>1, Zenon DEF Held, Holding
<1>6. ASSUME NEW w \in Workers, m \in Between(w)
      PROVE  (Holding(w) /\ m \in hand[w]) \/ \E j \in jobs : j.msg = m
  <2>1. at[w] # "readd"
    BY Zenon DEF Quiet
  <2>2. CASE at[w] \in {"popped", "notdue"} /\ m \in hand[w]
    BY <2>2, Zenon DEF Holding
  <2>3. CASE m \in {j.msg : j \in {i \in JobsOf(w) : i.step \in {"retry", "dlq"}}}
    BY <2>3, Zenon DEF JobsOf
  <2> QED BY <1>6, <2>1, <2>2, <2>3, Zenon DEF Between
<1> QED BY <1>1, <1>2, <1>3, <1>4, <1>5, <1>6, Zenon

(* queue.go:38-39: until something fails or expires, a key has at most one   *)
(* copy of its task, for any number of keys, workers and clients, across     *)
(* enqueues, retries, acknowledgements, dead letters and replays.            *)
THEOREM OneCopyOnly == Spec => []SingleCopy
<1>1. Single => SingleCopy
  <2>1. SUFFICES ASSUME Alone, Quiet, NEW k \in Keys, NEW m \in Copies(k), NEW n \in Copies(k) PROVE m = n
    BY Zenon DEF Single, SingleCopy
  <2>2. \A s, t : Token(k, s) /\ Token(k, t) => s = t
    BY <2>1, Zenon DEF Alone
  <2>3. /\ \/ Token(k, <<"queue", m>>)
           \/ \E w \in Workers : Token(k, <<"hand", <<w, m>>>>)
           \/ \E j \in jobs : j.msg = m /\ Token(k, <<"job", j>>)
        /\ \/ Token(k, <<"queue", n>>)
           \/ \E w \in Workers : Token(k, <<"hand", <<w, n>>>>)
           \/ \E j \in jobs : j.msg = n /\ Token(k, <<"job", j>>)
    BY <2>1, CopyToken, Zenon
  <2>4. CASE Token(k, <<"queue", m>>)
    BY <2>2, <2>3, <2>4, Tags, Zenon
  <2>5. ASSUME NEW w \in Workers, Token(k, <<"hand", <<w, m>>>>) PROVE m = n
    <3>1. PICK v \in Workers : Token(k, <<"hand", <<v, n>>>>)
      BY <2>2, <2>3, <2>5, Tags, Zenon
    <3>2. <<w, m>> = <<v, n>>
      BY <2>2, <2>5, <3>1, Tags, Zenon
    <3> QED BY <3>2
  <2>6. ASSUME NEW j \in jobs, j.msg = m, Token(k, <<"job", j>>) PROVE m = n
    BY <2>2, <2>3, <2>6, Tags, Zenon
  <2> QED BY <2>3, <2>4, <2>5, <2>6, Zenon
<1>2. Init => Types /\ OneInHand /\ Single
  BY InitTypes, InitOneInHand, InitSingle, Zenon
<1>3. Types /\ OneInHand /\ Single /\ [Next]_vars => Types' /\ OneInHand' /\ Single'
  BY StepTypes, StepOneInHand, StepSingle, Zenon
<1> QED BY <1>1, <1>2, <1>3, PTL DEF Spec

=============================================================================
