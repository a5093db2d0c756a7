----------------------- MODULE WebhookDelivery_proofs -----------------------
(***************************************************************************)
(* For any number of endpoints, events, workers and failures: the lock is  *)
(* a lease, jobs of one delivery exclude one another unless it expired,    *)
(* the replay guard lets an endpoint acknowledge an event once, attempts   *)
(* stay below their maximum plus one for every lock that expired, and,     *)
(* until something fails, a delivery not tried yet is on its way to a job. *)
(***************************************************************************)
EXTENDS WebhookDelivery, FiniteSetTheorems, TLAPS

\* Types.
JobPlaces == {"idle", "lock", "check", "mark", "load", "guard", "post", "delivered", "failed",
              "broken", "dlq", "requeue", "release", "return"}
Jobs == [at : JobPlaces, d : Deliveries \union {None}, live : BOOLEAN, attempt : Nat,
         res : {"nil", "err"}, era : Nat]
Rows == [status : {"none", "PENDING", "DELIVERING", "DELIVERED", "FAILED", "DLQ"},
         attempt : Nat, due : BOOLEAN, tried : BOOLEAN]

TRow == row \in [Deliveries -> Rows]

TJob ==
    /\ job \in [Workers -> Jobs]
    /\ \A w \in Workers : job[w].at # "idle" => job[w].d \in Deliveries

TLock ==
    /\ lock \in [Deliveries -> Workers \union {None}]
    /\ lapsed \subseteq Workers /\ lapses \in Nat

TGuard ==
    /\ guard \subseteq Deliveries
    /\ era \in [Deliveries -> Nat]
    /\ acked \in [Deliveries -> SUBSET Nat]

TReplay ==
    /\ DOMAIN replay = {"at", "d"}
    /\ replay.at # "none" => replay.d \in Deliveries

\* A job inside has the key of its delivery until it lapses, and then never.
Leased(w) ==
    /\ EvalKnown /\ Inside(w) /\ w \notin lapsed => lock[job[w].d] = w
    /\ w \in lapsed => Inside(w) /\ lock[job[w].d] # w

\* Nothing is posted or acknowledged in an era to come, and in the present
\* one only while the replay key is there.
Guarded(d) ==
    /\ \A n \in acked[d] : n <= era[d]
    /\ era[d] \in acked[d] => d \in guard

Posting(w) ==
    job[w].at = "post" =>
        /\ job[w].era <= era[job[w].d]
        /\ job[w].era = era[job[w].d] => job[w].d \in guard

Leases == \A w \in Workers : Leased(w)
Guards == GuardOn => /\ \A d \in Deliveries : Guarded(d)
                     /\ \A w \in Workers : Posting(w)

Core == TJob /\ TLock /\ TGuard /\ Leases /\ Guards /\ PostedOnce

\* The lease's view of the jobs.
In == [w \in Workers |-> IF Inside(w) THEN job[w].d ELSE None]

coreVars == <<job, lock, lapsed, lapses, guard, era, acked>>

----------------------------------------------------------------------------
LEMMA Same ==
    ASSUME Core, UNCHANGED coreVars
    PROVE  Core' /\ UNCHANGED <<lock, In, lapsed>>
  <1>1. /\ job' = job /\ lock' = lock /\ lapsed' = lapsed /\ lapses' = lapses
        /\ guard' = guard /\ era' = era /\ acked' = acked
    BY Zenon DEF coreVars
  <1>2. TJob' /\ TLock' /\ TGuard'
    BY <1>1, Zenon DEF Core, TJob, TLock, TGuard
  <1>3. Leases'
    BY <1>1, Zenon DEF Core, Leases, Leased, Inside
  <1>4. Guards' /\ PostedOnce'
    BY <1>1, Zenon DEF Core, Guards, Guarded, Posting, PostedOnce
  <1>5. In' = In
    BY <1>1, Zenon DEF In, Inside
  <1>6. QED
    BY <1>1, <1>2, <1>3, <1>4, <1>5, Zenon DEF Core

\* One job goes on to another place, with its delivery and its era.
Out == {"idle", "lock", "return"}

Moves(w, s) ==
    /\ s \in Jobs /\ job' = [job EXCEPT ![w] = s]
    /\ s.d = job[w].d /\ s.era = job[w].era
    /\ job[w].at # "idle" /\ s.at # "idle"
    /\ s.at = "post" => job[w].at = "post"

LEMMA MovesJob ==
    ASSUME TJob, NEW w \in Workers, NEW s, Moves(w, s)
    PROVE  /\ TJob' /\ job'[w] = s
           /\ \A v \in Workers \ {w} : job'[v] = job[v]
           /\ \A v \in Workers : job'[v].d = job[v].d /\ job'[v].era = job[v].era
           /\ \A v \in Workers : job'[v].at = "post" => job[v].at = "post"
  <1>1. job' = [job EXCEPT ![w] = s] /\ s \in Jobs /\ job \in [Workers -> Jobs]
    BY Zenon DEF Moves, TJob
  <1>2. job'[w] = s /\ \A v \in Workers \ {w} : job'[v] = job[v]
    BY <1>1, Zenon
  <1>3. job' \in [Workers -> Jobs]
    BY <1>1, Zenon
  <1>4. /\ \A v \in Workers : job'[v].d = job[v].d /\ job'[v].era = job[v].era
        /\ \A v \in Workers : job'[v].at = "post" => job[v].at = "post"
    BY <1>2, Zenon DEF Moves
  <1>5. TJob'
    <2>1. ASSUME NEW v \in Workers, job'[v].at # "idle" PROVE job'[v].d \in Deliveries
      BY <1>2, <1>4, <2>1, Zenon DEF TJob, Moves
    <2>2. QED
      BY <1>3, <2>1, Zenon DEF TJob
  <1>6. QED
    BY <1>2, <1>4, <1>5, Zenon

\* The replay keys may grow while jobs move.
LEMMA MovesGuard ==
    ASSUME TJob, TGuard, Guards, PostedOnce, NEW w \in Workers, NEW s, Moves(w, s),
           guard \subseteq guard', guard' \subseteq Deliveries, UNCHANGED <<era, acked>>
    PROVE  TGuard' /\ Guards' /\ PostedOnce'
  <1>1. era' = era /\ acked' = acked
    BY Zenon
  <1>2. TGuard'
    BY <1>1, Zenon DEF TGuard
  <1>3. /\ \A v \in Workers : job'[v].d = job[v].d /\ job'[v].era = job[v].era
        /\ \A v \in Workers : job'[v].at = "post" => job[v].at = "post"
    BY MovesJob, Zenon
  <1>4. Guards'
    <2>1. SUFFICES ASSUME GuardOn
                   PROVE  (\A d \in Deliveries : Guarded(d)') /\ (\A v \in Workers : Posting(v)')
      BY Zenon DEF Guards
    <2>2. ASSUME NEW d \in Deliveries PROVE Guarded(d)'
      BY <1>1, <2>1, Zenon DEF Guards, Guarded
    <2>3. ASSUME NEW v \in Workers PROVE Posting(v)'
      BY <1>1, <1>3, <2>1, Zenon DEF Guards, Posting
    <2>4. QED
      BY <2>2, <2>3, Zenon
  <1>5. PostedOnce'
    BY <1>1, <1>3, Zenon DEF PostedOnce
  <1>6. QED
    BY <1>2, <1>4, <1>5, Zenon

\* A job that stays inside, or stays outside, leaves the leases alone.
LEMMA MovesLease ==
    ASSUME TJob, TLock, Leases, NEW w \in Workers, NEW s, Moves(w, s),
           (s.at \in Out) <=> (job[w].at \in Out), UNCHANGED <<lock, lapsed, lapses>>
    PROVE  TLock' /\ Leases' /\ \A v \in Workers : Inside(v)' = Inside(v)
  <1>1. lock' = lock /\ lapsed' = lapsed /\ lapses' = lapses
    BY Zenon
  <1>2. TLock'
    BY <1>1, Zenon DEF TLock
  <1>3. /\ job'[w] = s
        /\ \A v \in Workers \ {w} : job'[v] = job[v]
        /\ \A v \in Workers : job'[v].d = job[v].d
    BY MovesJob, Zenon
  <1>4. ASSUME NEW v \in Workers PROVE Inside(v)' = Inside(v)
    <2>1. CASE v = w
      BY <1>3, <2>1, Zenon DEF Inside, Out
    <2>2. CASE v # w
      BY <1>3, <2>2, Zenon DEF Inside
    <2>3. QED
      BY <2>1, <2>2, Zenon
  <1>5. Leases'
    BY <1>1, <1>3, <1>4, Zenon DEF Leases, Leased
  <1>6. QED
    BY <1>2, <1>4, <1>5, Zenon

----------------------------------------------------------------------------
(* What the steps of a job do to its record.                                 *)
LEMMA JobRecord ==
    ASSUME TJob, NEW w \in Workers
    PROVE  job[w] \in Jobs /\ (job[w].at # "idle" => job[w].d \in Deliveries)
  BY Zenon DEF TJob

LEMMA GoMoves ==
    ASSUME TJob, NEW w \in Workers, NEW at \in JobPlaces \ {"idle", "post"},
           job[w].at # "idle", Go(w, at)
    PROVE  \E s : Moves(w, s) /\ s.at = at
  <1> DEFINE s == [job[w] EXCEPT !.at = at]
  <1>1. job[w] \in Jobs
    BY JobRecord, Zenon
  <1>2. s \in Jobs /\ s.at = at /\ s.d = job[w].d /\ s.era = job[w].era
    BY <1>1, Zenon DEF Jobs
  <1>3. job' = [job EXCEPT ![w] = s]
    BY Zenon DEF Go
  <1> HIDE DEF s
  <1>4. Moves(w, s)
    BY <1>2, <1>3, Zenon DEF Moves
  <1>5. QED
    BY <1>2, <1>4, Zenon

LEMMA FinishMoves ==
    ASSUME TJob, NEW w \in Workers, NEW at \in JobPlaces \ {"idle", "post"}, NEW res \in {"nil", "err"},
           job[w].at # "idle", job' = [job EXCEPT ![w].at = at, ![w].res = res]
    PROVE  \E s : Moves(w, s) /\ s.at = at
  <1> DEFINE s == [job[w] EXCEPT !.at = at, !.res = res]
  <1>1. job[w] \in Jobs
    BY JobRecord, Zenon
  <1>2. s \in Jobs /\ s.at = at /\ s.d = job[w].d /\ s.era = job[w].era
    BY <1>1, Zenon DEF Jobs
  <1>3. job' = [job EXCEPT ![w] = s]
    BY Zenon
  <1> HIDE DEF s
  <1>4. Moves(w, s)
    BY <1>2, <1>3, Zenon DEF Moves
  <1>5. QED
    BY <1>2, <1>4, Zenon

LEMMA CheckMoves ==
    ASSUME TJob, TRow, NEW w \in Workers, job[w].at # "idle",
           job' = [job EXCEPT ![w].at = "mark", ![w].attempt = row[job[w].d].attempt]
    PROVE  \E s : Moves(w, s) /\ s.at = "mark"
  <1> DEFINE n == row[job[w].d].attempt
             s == [job[w] EXCEPT !.at = "mark", !.attempt = n]
  <1>1. job[w] \in Jobs /\ n \in Nat
    BY JobRecord, Zenon DEF TRow, Rows
  <1>2. job' = [job EXCEPT ![w] = s]
    BY Zenon
  <1> HIDE DEF n
  <1>3. "mark" \in JobPlaces
    BY Zenon DEF JobPlaces
  <1>4. s \in Jobs /\ s.at = "mark" /\ s.d = job[w].d /\ s.era = job[w].era
    BY <1>1, <1>3, Zenon DEF Jobs
  <1> HIDE DEF s
  <1>5. Moves(w, s)
    BY <1>2, <1>4, Zenon DEF Moves
  <1>6. QED
    BY <1>4, <1>5, Zenon

LEMMA DeadlineMoves ==
    ASSUME TJob, NEW w \in Workers, Deadline(w)
    PROVE  \E s : Moves(w, s) /\ s.at = job[w].at
  <1> DEFINE s == [job[w] EXCEPT !.live = FALSE]
  <1>1. job[w] \in Jobs
    BY JobRecord, Zenon
  <1>2. s \in Jobs /\ s.at = job[w].at /\ s.d = job[w].d /\ s.era = job[w].era
    <2>1. ASSUME NEW b \in BOOLEAN
          PROVE  LET u == [job[w] EXCEPT !.live = b]
                 IN  u \in Jobs /\ u.at = job[w].at /\ u.d = job[w].d /\ u.era = job[w].era
      BY <1>1, Zenon DEF Jobs
    <2>2. QED
      BY <2>1, Zenon
  <1>3. job' = [job EXCEPT ![w] = s] /\ job[w].at # "idle"
    BY Zenon DEF Deadline
  <1> HIDE DEF s
  <1>4. Moves(w, s)
    BY <1>2, <1>3, Zenon DEF Moves
  <1>5. QED
    BY <1>2, <1>4, Zenon

\* The places of a job that has the lock, but for posting.
Work == {"check", "mark", "load", "guard", "delivered", "failed", "broken", "dlq", "requeue", "release"}

Working(w) ==
    \/ Check(w) \/ StartAttempt(w) \/ Load(w) \/ Delivered(w) \/ AttemptFails(w)
    \/ failDelivery(w) \/ DeadLetter(w) \/ Requeue(w)

LEMMA WorkMoves ==
    ASSUME TJob, TRow, NEW w \in Workers, Working(w)
    PROVE  /\ job[w].at \in Work
           /\ \E s : Moves(w, s) /\ s.at \in Work
           /\ UNCHANGED <<lockVars, guardVars, acked>>
  <1>1. Work \subseteq JobPlaces \ {"idle", "post"}
    BY Zenon DEF Work, JobPlaces
  <1>2. ASSUME job[w].at \in Work, NEW at \in Work, Go(w, at)
        PROVE  \E s : Moves(w, s) /\ s.at \in Work
    <2>1. job[w].at # "idle" /\ at \in JobPlaces \ {"idle", "post"}
      BY <1>1, <1>2, Zenon
    <2>2. \E s : Moves(w, s) /\ s.at = at
      BY <1>2, <2>1, GoMoves, Zenon
    <2>3. QED
      BY <1>2, <2>2, Zenon
  <1>3. ASSUME job[w].at \in Work, NEW res \in {"nil", "err"}, Finish(w, res)
        PROVE  \E s : Moves(w, s) /\ s.at \in Work
    <2>1. job[w].at # "idle" /\ "release" \in JobPlaces \ {"idle", "post"} /\ "release" \in Work
      BY <1>1, <1>3, Zenon DEF Work
    <2>2. \E s : Moves(w, s) /\ s.at = "release"
      BY <1>3, <2>1, FinishMoves, Zenon DEF Finish
    <2>3. QED
      BY <2>1, <2>2, Zenon
  <1>4. CASE Check(w)
    <2>1. job[w].at = "check" /\ job[w].at \in Work /\ UNCHANGED <<lockVars, guardVars, acked>>
      BY <1>4, Zenon DEF Check, Work
    <2>2. \/ Finish(w, "err") \/ Finish(w, "nil") \/ Go(w, "requeue")
          \/ job' = [job EXCEPT ![w].at = "mark", ![w].attempt = row[job[w].d].attempt]
      BY <1>4, Zenon DEF Check, GetDeliveryByID
    <2>3. "requeue" \in Work /\ "mark" \in Work
      BY Zenon DEF Work
    <2>4. QED
      BY <1>2, <1>3, <2>1, <2>2, <2>3, CheckMoves, Zenon
  <1>5. CASE StartAttempt(w)
    <2>1. job[w].at \in Work /\ "load" \in Work /\ UNCHANGED <<lockVars, guardVars, acked>>
      BY <1>5, Zenon DEF StartAttempt, Work
    <2>2. Finish(w, "err") \/ Go(w, "load")
      BY <1>5, Zenon DEF StartAttempt
    <2>3. QED
      BY <1>2, <1>3, <2>1, <2>2, Zenon
  <1>6. CASE Load(w)
    <2>1. /\ job[w].at \in Work /\ "broken" \in Work /\ "guard" \in Work
          /\ UNCHANGED <<lockVars, guardVars, acked>>
      BY <1>6, Zenon DEF Load, Work
    <2>2. Go(w, "broken") \/ Go(w, "guard")
      BY <1>6, Zenon DEF Load
    <2>3. QED
      BY <1>2, <2>1, <2>2, Zenon
  <1>7. CASE Delivered(w)
    <2>1. job[w].at \in Work /\ UNCHANGED <<lockVars, guardVars, acked>>
      BY <1>7, Zenon DEF Delivered, Work
    <2>2. Finish(w, "err") \/ Finish(w, "nil")
      BY <1>7, Zenon DEF Delivered
    <2>3. QED
      BY <1>3, <2>1, <2>2, Zenon
  <1>8. CASE AttemptFails(w) \/ failDelivery(w)
    <2>1. /\ job[w].at \in Work /\ "requeue" \in Work /\ "dlq" \in Work
          /\ UNCHANGED <<lockVars, guardVars, acked>>
      BY <1>8, Zenon DEF AttemptFails, failDelivery, Work
    <2>2. Finish(w, "err") \/ Go(w, "requeue") \/ Go(w, "dlq")
      BY <1>8, Zenon DEF AttemptFails, failDelivery, BackOff
    <2>3. QED
      BY <1>2, <1>3, <2>1, <2>2, Zenon
  <1>9. CASE DeadLetter(w) \/ Requeue(w)
    <2>1. job[w].at \in Work /\ UNCHANGED <<lockVars, guardVars, acked>>
      BY <1>9, Zenon DEF DeadLetter, Requeue, Work
    <2>2. Finish(w, "err") \/ Finish(w, "nil")
      BY <1>9, Zenon DEF DeadLetter, Requeue
    <2>3. QED
      BY <1>3, <2>1, <2>2, Zenon
  <1>10. QED
    BY <1>4, <1>5, <1>6, <1>7, <1>8, <1>9, Zenon DEF Working

----------------------------------------------------------------------------
(* A job that moves without entering or leaving changes nothing of the lease. *)
LEMMA QuietMove ==
    ASSUME Core, NEW w \in Workers, NEW s, Moves(w, s), (s.at \in Out) <=> (job[w].at \in Out),
           UNCHANGED <<lock, lapsed, lapses, era, acked>>,
           guard \subseteq guard', guard' \subseteq Deliveries
    PROVE  Core' /\ UNCHANGED <<lock, In, lapsed>>
  <1>1. TJob /\ TLock /\ TGuard /\ Leases /\ Guards /\ PostedOnce
    BY Zenon DEF Core
  <1>2. TJob' /\ \A v \in Workers : job'[v].d = job[v].d
    BY <1>1, MovesJob, Zenon
  <1>3. TLock' /\ Leases' /\ \A v \in Workers : Inside(v)' = Inside(v)
    BY <1>1, MovesLease, Zenon
  <1>4. TGuard' /\ Guards' /\ PostedOnce'
    BY <1>1, MovesGuard, Zenon
  <1>5. In' = In
    BY <1>2, <1>3, Zenon DEF In
  <1>6. QED
    BY <1>2, <1>3, <1>4, <1>5, Zenon DEF Core

LEMMA WorkStep ==
    ASSUME Core, TRow, NEW w \in Workers, Working(w) \/ Deadline(w)
    PROVE  Core' /\ UNCHANGED <<lock, In, lapsed>>
  <1>1. UNCHANGED <<lock, lapsed, lapses, era, acked>> /\ guard' = guard
    <2>1. CASE Working(w)
      BY <2>1, WorkMoves, Zenon DEF Core, lockVars, guardVars
    <2>2. CASE Deadline(w)
      BY <2>2, Zenon DEF Deadline, lockVars, guardVars
    <2>3. QED
      BY <2>1, <2>2, Zenon
  <1>2. \E s : Moves(w, s) /\ ((s.at \in Out) <=> (job[w].at \in Out))
    <2>1. CASE Working(w)
      <3>1. job[w].at \in Work /\ \E s : Moves(w, s) /\ s.at \in Work
        BY <2>1, WorkMoves, Zenon DEF Core
      <3>2. \A x \in Work : x \notin Out
        BY Zenon DEF Work, Out
      <3>3. QED
        BY <3>1, <3>2, Zenon
    <2>2. CASE Deadline(w)
      <3>1. \E s : Moves(w, s) /\ s.at = job[w].at
        BY <2>2, DeadlineMoves, Zenon DEF Core
      <3>2. QED
        BY <3>1, Zenon
    <2>3. QED
      BY <2>1, <2>2, Zenon
  <1>3. guard' \subseteq Deliveries
    BY <1>1, Zenon DEF Core, TGuard
  <1>4. PICK s : Moves(w, s) /\ ((s.at \in Out) <=> (job[w].at \in Out))
    BY <1>2, Zenon
  <1>5. QED
    BY <1>1, <1>3, <1>4, QuietMove, Zenon

LEMMA SetJob ==
    ASSUME TJob, NEW w \in Workers, NEW s \in Jobs, s.at # "idle" => s.d \in Deliveries,
           job' = [job EXCEPT ![w] = s]
    PROVE  TJob' /\ job'[w] = s /\ \A v \in Workers \ {w} : job'[v] = job[v]
  <1>1. job \in [Workers -> Jobs]
    BY Zenon DEF TJob
  <1>2. job' \in [Workers -> Jobs] /\ job'[w] = s /\ \A v \in Workers \ {w} : job'[v] = job[v]
    BY <1>1, Zenon
  <1>3. ASSUME NEW v \in Workers, job'[v].at # "idle" PROVE job'[v].d \in Deliveries
    BY <1>2, <1>3, Zenon DEF TJob
  <1>4. QED
    BY <1>2, <1>3, Zenon DEF TJob

(* The guard: a key that was not there starts what may be posted once.        *)
LEMMA GuardStep ==
    ASSUME Core, NEW w \in Workers, Guard(w)
    PROVE  Core' /\ UNCHANGED <<lock, In, lapsed>>
  <1> DEFINE d == job[w].d
             s == [job[w] EXCEPT !.at = "post", !.era = era[d]]
  <1>1. /\ TJob /\ TLock /\ TGuard /\ Leases /\ Guards /\ PostedOnce
        /\ job[w].at = "guard" /\ UNCHANGED <<lock, lapsed, lapses, era, acked>>
    BY Zenon DEF Core, Guard, lockVars
  <1>2. job[w] \in Jobs /\ d \in Deliveries /\ era[d] \in Nat
    BY <1>1, JobRecord, Zenon DEF TGuard
  <1>3. \/ /\ Go(w, "delivered") \/ Go(w, "failed")
           /\ guard' = guard \/ guard' = guard \union {d}
        \/ /\ job' = [job EXCEPT ![w].at = "post", ![w].era = era[d]]
           /\ GuardOn => d \notin guard /\ guard' = guard \union {d}
           /\ ~GuardOn => guard' = guard
    BY Zenon DEF Guard, ReplayAcquire
  <1>4. guard' \subseteq Deliveries /\ guard \subseteq guard'
    BY <1>1, <1>2, <1>3, Zenon DEF TGuard
  <1>5. CASE Go(w, "delivered") \/ Go(w, "failed")
    <2>1. "delivered" \in JobPlaces \ {"idle", "post"} /\ "failed" \in JobPlaces \ {"idle", "post"}
      BY Zenon DEF JobPlaces
    <2>2. PICK u : Moves(w, u) /\ u.at \in {"delivered", "failed"}
      BY <1>1, <1>5, <2>1, GoMoves, Zenon
    <2>3. (u.at \in Out) <=> (job[w].at \in Out)
      BY <1>1, <2>2, Zenon DEF Out
    <2>4. QED
      BY <1>1, <1>4, <2>2, <2>3, QuietMove, Zenon
  <1>6. ASSUME job' = [job EXCEPT ![w].at = "post", ![w].era = era[d]],
               GuardOn => d \notin guard /\ guard' = guard \union {d}
        PROVE  Core' /\ UNCHANGED <<lock, In, lapsed>>
    <2>1. s \in Jobs /\ s.at = "post" /\ s.d = d /\ s.era = era[d]
      <3>1. "post" \in JobPlaces
        BY Zenon DEF JobPlaces
      <3> DEFINE n == era[d]
      <3>2. n \in Nat
        BY <1>2, Zenon
      <3> HIDE DEF n
      <3>3. LET u == [job[w] EXCEPT !.at = "post", !.era = n]
            IN  u \in Jobs /\ u.at = "post" /\ u.d = job[w].d /\ u.era = n
        BY <1>2, <3>1, <3>2, Zenon DEF Jobs
      <3>4. QED
        BY <3>3, Zenon DEF n
    <2>2. job' = [job EXCEPT ![w] = s]
      BY <1>6, Zenon
    <2> HIDE DEF s
    <2>3. TJob' /\ job'[w] = s /\ \A v \in Workers \ {w} : job'[v] = job[v]
      BY <1>1, <1>2, <2>1, <2>2, SetJob, Zenon
    <2>4. \A v \in Workers : Inside(v)' = Inside(v) /\ job'[v].d = job[v].d
      BY <1>1, <2>1, <2>3, Zenon DEF Inside
    <2>5. TLock' /\ TGuard'
      BY <1>1, <1>4, Zenon DEF TLock, TGuard
    <2>6. Leases'
      BY <1>1, <2>4, Zenon DEF Leases, Leased
    <2>7. In' = In
      BY <2>4, Zenon DEF In
    <2> HIDE DEF d
    <2>8. Guards'
      <3>1. SUFFICES ASSUME GuardOn
                     PROVE  (\A x \in Deliveries : Guarded(x)') /\ (\A v \in Workers : Posting(v)')
        BY Zenon DEF Guards
      <3>2. ASSUME NEW x \in Deliveries PROVE Guarded(x)'
        BY <1>1, <1>4, <3>1, Zenon DEF Guards, Guarded
      <3>3. ASSUME NEW v \in Workers, v # w PROVE Posting(v)'
        BY <1>1, <1>4, <2>3, <3>1, <3>3, Zenon DEF Guards, Posting
      <3>4. Posting(w)'
        <4>1. job'[w].era = era[d] /\ job'[w].d = d /\ era' = era
          BY <1>1, <2>1, <2>3, Zenon
        <4>2. d \in guard' /\ era[d] <= era[d]
          BY <1>2, <1>6, <3>1
        <4>3. QED
          BY <4>1, <4>2, Zenon DEF Posting
      <3>5. QED
        BY <3>2, <3>3, <3>4, Zenon
    <2>9. PostedOnce'
      <3>1. SUFFICES ASSUME GuardOn, NEW x \in Workers, job'[x].at = "post"
                     PROVE  /\ job'[x].era \notin acked'[job'[x].d]
                            /\ \A v \in Workers \ {x} :
                                  job'[v].at = "post" /\ job'[v].d = job'[x].d => job'[v].era # job'[x].era
        BY Zenon DEF PostedOnce
      <3>2. era[d] \notin acked[d] /\ d \notin guard
        BY <1>1, <1>2, <1>6, <3>1, Zenon DEF Guards, Guarded
      <3>3. ASSUME NEW v \in Workers, job[v].at = "post", job[v].d = d PROVE job[v].era # era[d]
        BY <1>1, <3>1, <3>2, <3>3, Zenon DEF Guards, Posting
      <3>4. CASE x = w
        BY <1>1, <2>1, <2>3, <3>2, <3>3, <3>4, Zenon
      <3>5. CASE x # w
        <4>1. job'[x] = job[x] /\ job[x].at = "post"
          BY <2>3, <3>1, <3>5, Zenon
        <4>2. job[x].era \notin acked[job[x].d]
          BY <1>1, <3>1, <4>1, Zenon DEF PostedOnce
        <4>3. ASSUME NEW v \in Workers \ {x}, job'[v].at = "post", job'[v].d = job'[x].d
              PROVE  job'[v].era # job'[x].era
          <5>1. CASE v = w
            BY <2>1, <2>3, <3>3, <4>1, <4>3, <5>1, Zenon
          <5>2. CASE v # w
            BY <1>1, <2>3, <3>1, <4>1, <4>3, <5>2, Zenon DEF PostedOnce
          <5>3. QED
            BY <5>1, <5>2, Zenon
        <4>4. QED
          BY <1>1, <4>1, <4>2, <4>3, Zenon
      <3>6. QED
        BY <3>4, <3>5, Zenon
    <2>10. QED
      BY <1>1, <2>3, <2>5, <2>6, <2>7, <2>8, <2>9, Zenon DEF Core
  <1>7. QED
    BY <1>3, <1>5, <1>6, Zenon

(* An answer of the endpoint counts for the era of the job that posted.       *)
LEMMA PostStep ==
    ASSUME Core, NEW w \in Workers, Post(w)
    PROVE  Core' /\ UNCHANGED <<lock, In, lapsed>>
  <1> DEFINE d == job[w].d
             n == job[w].era
  <1>1. /\ TJob /\ TLock /\ TGuard /\ Leases /\ Guards /\ PostedOnce
        /\ job[w].at = "post" /\ UNCHANGED <<lock, lapsed, lapses, era, guard>>
    BY Zenon DEF Core, Post, lockVars, guardVars
  <1>2. job[w] \in Jobs /\ d \in Deliveries /\ n \in Nat
    BY <1>1, JobRecord, Zenon DEF Jobs
  <1>3. /\ acked' = acked \/ acked' = [acked EXCEPT ![d] = @ \union {n}]
        /\ Go(w, "delivered") \/ Go(w, "failed")
    BY Zenon DEF Post
  <1>4. PICK s : Moves(w, s) /\ s.at \in {"delivered", "failed"}
    <2>1. "delivered" \in JobPlaces \ {"idle", "post"} /\ "failed" \in JobPlaces \ {"idle", "post"}
      BY Zenon DEF JobPlaces
    <2>2. QED
      BY <1>1, <1>3, <2>1, GoMoves, Zenon
  <1>5. /\ TJob' /\ job'[w] = s
        /\ \A v \in Workers \ {w} : job'[v] = job[v]
        /\ \A v \in Workers : job'[v].d = job[v].d /\ job'[v].era = job[v].era
        /\ \A v \in Workers : job'[v].at = "post" => job[v].at = "post" /\ v # w
    BY <1>1, <1>4, MovesJob, Zenon
  <1>6. TLock' /\ Leases' /\ \A v \in Workers : Inside(v)' = Inside(v)
    <2>1. (s.at \in Out) <=> (job[w].at \in Out)
      BY <1>1, <1>4, Zenon DEF Out
    <2>2. QED
      BY <1>1, <1>4, <2>1, MovesLease, Zenon
  <1>7. In' = In
    BY <1>5, <1>6, Zenon DEF In
  <1> HIDE DEF d, n
  <1>8. TGuard'
    BY <1>1, <1>2, <1>3, Zenon DEF TGuard
  <1>9. ASSUME NEW x \in Deliveries
        PROVE  acked'[x] = acked[x] \/ (x = d /\ acked'[x] = acked[x] \union {n})
    BY <1>1, <1>2, <1>3, <1>9, Zenon DEF TGuard
  <1>10. Guards'
    <2>1. SUFFICES ASSUME GuardOn
                   PROVE  (\A x \in Deliveries : Guarded(x)') /\ (\A v \in Workers : Posting(v)')
      BY Zenon DEF Guards
    <2>2. n <= era[d] /\ (n = era[d] => d \in guard)
      BY <1>1, <2>1, Zenon DEF Guards, Posting, d, n
    <2>3. ASSUME NEW x \in Deliveries PROVE Guarded(x)'
      <3>1. Guarded(x) /\ era' = era /\ guard' = guard
        BY <1>1, <2>1, Zenon DEF Guards
      <3>2. QED
        BY <1>9, <2>2, <3>1, Zenon DEF Guarded
    <2>4. ASSUME NEW v \in Workers PROVE Posting(v)'
      BY <1>1, <1>5, <2>1, Zenon DEF Guards, Posting
    <2>5. QED
      BY <2>3, <2>4, Zenon
  <1>11. PostedOnce'
    <2>1. SUFFICES ASSUME GuardOn, NEW x \in Workers, job'[x].at = "post"
                   PROVE  /\ job'[x].era \notin acked'[job'[x].d]
                          /\ \A v \in Workers \ {x} :
                                job'[v].at = "post" /\ job'[v].d = job'[x].d => job'[v].era # job'[x].era
      BY Zenon DEF PostedOnce
    <2>2. x # w /\ job'[x] = job[x] /\ job[x].at = "post"
      BY <1>5, <2>1, Zenon
    <2>3. /\ job[x].era \notin acked[job[x].d]
          /\ job[x].d = d => job[x].era # n
          /\ \A v \in Workers \ {x} :
                job[v].at = "post" /\ job[v].d = job[x].d => job[v].era # job[x].era
      BY <1>1, <2>1, <2>2, Zenon DEF PostedOnce, d, n
    <2>4. job[x].d \in Deliveries
      BY <1>1, <2>2, JobRecord, Zenon
    <2>5. job[x].era \notin acked'[job[x].d]
      BY <1>9, <2>3, <2>4, Zenon
    <2>6. QED
      BY <1>5, <2>2, <2>3, <2>5, Zenon
  <1>12. QED
    BY <1>1, <1>5, <1>6, <1>7, <1>8, <1>10, <1>11, Zenon DEF Core

(* A replay key that goes begins a new era.                                   *)
LEMMA NewEra ==
    ASSUME Core, NEW d \in Deliveries, d \in guard, guard' = guard \ {d},
           era' = [era EXCEPT ![d] = @ + 1], UNCHANGED <<job, lock, lapsed, lapses, acked>>
    PROVE  Core' /\ UNCHANGED <<lock, In, lapsed>>
  <1>1. /\ TJob /\ TLock /\ TGuard /\ Leases /\ Guards /\ PostedOnce
        /\ job' = job /\ lock' = lock /\ lapsed' = lapsed /\ lapses' = lapses /\ acked' = acked
    BY Zenon DEF Core
  <1>2. TJob' /\ TLock' /\ In' = In
    BY <1>1, Zenon DEF TJob, TLock, In, Inside
  <1>3. Leases'
    BY <1>1, Zenon DEF Leases, Leased, Inside
  <1>4. PostedOnce'
    BY <1>1, Zenon DEF PostedOnce
  <1>5. TGuard'
    BY <1>1 DEF TGuard
  <1>6. era'[d] = era[d] + 1 /\ era[d] \in Nat /\ \A x \in Deliveries \ {d} : era'[x] = era[x]
    BY <1>1, Zenon DEF TGuard
  <1>7. Guards'
    <2>1. SUFFICES ASSUME GuardOn
                   PROVE  (\A x \in Deliveries : Guarded(x)') /\ (\A v \in Workers : Posting(v)')
      BY Zenon DEF Guards
    <2>2. ASSUME NEW x \in Deliveries PROVE Guarded(x)'
      <3>1. Guarded(x) /\ acked[x] \subseteq Nat
        BY <1>1, <2>1, Zenon DEF Guards, TGuard
      <3>2. CASE x = d
        <4>1. \A m \in acked[d] : m <= era[d] + 1 /\ m # era[d] + 1
          BY <1>6, <3>1, <3>2 DEF Guarded
        <4>2. QED
          BY <1>1, <1>6, <3>2, <4>1, Zenon DEF Guarded
      <3>3. CASE x # d
        BY <1>1, <1>6, <3>1, <3>3, Zenon DEF Guarded
      <3>4. QED
        BY <3>2, <3>3, Zenon
    <2>3. ASSUME NEW v \in Workers, job[v].at = "post" PROVE Posting(v)'
      <3>1. Posting(v) /\ job[v] \in Jobs /\ job[v].d \in Deliveries
        BY <1>1, <2>1, <2>3, JobRecord, Zenon DEF Guards
      <3>2. CASE job[v].d = d
        <4>1. job[v].era <= era[d] /\ job[v].era \in Nat
          BY <2>3, <3>1, <3>2, Zenon DEF Posting, Jobs
        <4>2. job[v].era <= era[d] + 1 /\ job[v].era # era[d] + 1
          BY <1>6, <4>1
        <4>3. QED
          BY <1>1, <1>6, <3>2, <4>2, Zenon DEF Posting
      <3>3. CASE job[v].d # d
        BY <1>1, <1>6, <3>1, <3>3, Zenon DEF Posting
      <3>4. QED
        BY <3>2, <3>3, Zenon
    <2>4. QED
      BY <1>1, <2>2, <2>3, Zenon DEF Posting
  <1>8. QED
    BY <1>1, <1>2, <1>3, <1>4, <1>5, <1>7, Zenon DEF Core

----------------------------------------------------------------------------
(* A job that is outside afterwards: it lapses no more, and of the keys it    *)
(* set at most one that was free and freed at most its own.                   *)
Frees(w) ==
    \A d \in Deliveries :
        \/ lock'[d] = lock[d]
        \/ lock[d] = None /\ lock'[d] = w
        \/ lock'[d] = None /\ (lock[d] = w \/ ~EvalKnown)

LEMMA OutsideStep ==
    ASSUME Core, NEW w \in Workers, NEW s \in Jobs, s.at \in Out, s.at # "idle" => s.d \in Deliveries,
           job' = [job EXCEPT ![w] = s], lapsed' = lapsed \ {w}, lapses' = lapses,
           lock' \in [Deliveries -> Workers \union {None}], Frees(w),
           UNCHANGED <<guard, era, acked>>
    PROVE  /\ Core' /\ In' = [In EXCEPT ![w] = None]
           /\ ~Inside(w) => In' = In /\ lapsed' = lapsed
  <1>1. /\ TJob /\ TLock /\ TGuard /\ Leases /\ Guards /\ PostedOnce
        /\ guard' = guard /\ era' = era /\ acked' = acked /\ None \notin Workers
    BY DeliveryConstants, Zenon DEF Core
  <1>2. TJob' /\ job'[w] = s /\ \A v \in Workers \ {w} : job'[v] = job[v]
    BY <1>1, SetJob, Zenon
  <1>3. TLock' /\ TGuard'
    BY <1>1, Zenon DEF TLock, TGuard
  <1>4. ~Inside(w)' /\ \A v \in Workers \ {w} : Inside(v)' = Inside(v)
    BY <1>2, Zenon DEF Inside, Out
  <1>5. Leases'
    <2>1. Leased(w)'
      BY <1>4, Zenon DEF Leased
    <2>2. ASSUME NEW v \in Workers, v # w PROVE Leased(v)'
      <3>1. /\ Leased(v) /\ job'[v] = job[v] /\ Inside(v)' = Inside(v)
            /\ v \in lapsed' <=> v \in lapsed
        BY <1>1, <1>2, <1>4, <2>2, Zenon DEF Leases
      <3>2. CASE Inside(v)
        <4>1. job[v].d \in Deliveries
          BY <1>1, <3>2, JobRecord, Zenon DEF Inside
        <4>2. \/ lock'[job[v].d] = lock[job[v].d]
              \/ lock[job[v].d] = None /\ lock'[job[v].d] = w
              \/ lock'[job[v].d] = None /\ (lock[job[v].d] = w \/ ~EvalKnown)
          BY <4>1, Zenon DEF Frees
        <4>3. QED
          BY <1>1, <2>2, <3>1, <3>2, <4>2 DEF Leased
      <3>3. CASE ~Inside(v)
        BY <3>1, <3>3, Zenon DEF Leased
      <3>4. QED
        BY <3>2, <3>3, Zenon
    <2>3. QED
      BY <2>1, <2>2, Zenon DEF Leases
  <1>6. s.at # "post"
    BY Zenon DEF Out
  <1>7. Guards'
    <2>1. ASSUME GuardOn, NEW v \in Workers PROVE Posting(v)'
      BY <1>1, <1>2, <1>6, <2>1, Zenon DEF Guards, Posting
    <2>2. ASSUME GuardOn, NEW d \in Deliveries PROVE Guarded(d)'
      BY <1>1, <2>2, Zenon DEF Guards, Guarded
    <2>3. QED
      BY <2>1, <2>2, Zenon DEF Guards
  <1>8. PostedOnce'
    <2>1. \A v \in Workers : job'[v].at = "post" => job'[v] = job[v] /\ v # w
      BY <1>2, <1>6, Zenon
    <2>2. SUFFICES ASSUME GuardOn, NEW x \in Workers, job'[x].at = "post"
                   PROVE  /\ job'[x].era \notin acked'[job'[x].d]
                          /\ \A v \in Workers \ {x} :
                                job'[v].at = "post" /\ job'[v].d = job'[x].d => job'[v].era # job'[x].era
      BY Zenon DEF PostedOnce
    <2>3. job'[x] = job[x] /\ job[x].at = "post"
      BY <2>1, <2>2, Zenon
    <2>4. /\ job[x].era \notin acked[job[x].d]
          /\ \A v \in Workers \ {x} :
                job[v].at = "post" /\ job[v].d = job[x].d => job[v].era # job[x].era
      BY <1>1, <2>2, <2>3, Zenon DEF PostedOnce
    <2>5. QED
      BY <1>1, <2>1, <2>3, <2>4, Zenon
  <1>9. In' = [In EXCEPT ![w] = None]
    <2>1. In' = [v \in Workers |-> IF Inside(v)' THEN job'[v].d ELSE None]
      BY Zenon DEF In
    <2>2. \A v \in Workers : (IF Inside(v)' THEN job'[v].d ELSE None) = IF v = w THEN None ELSE In[v]
      BY <1>2, <1>4 DEF In
    <2>3. [In EXCEPT ![w] = None] = [v \in Workers |-> IF v = w THEN None ELSE In[v]]
      BY Zenon DEF In
    <2>4. QED
      BY <2>1, <2>2, <2>3, Zenon
  <1>10. ASSUME ~Inside(w) PROVE In' = In /\ lapsed' = lapsed
    <2>1. w \notin lapsed /\ In[w] = None
      BY <1>1, <1>10, Zenon DEF Leases, Leased, In
    <2>2. QED
      BY <1>9, <2>1, Zenon DEF In
  <1>11. QED
    BY <1>2, <1>3, <1>5, <1>7, <1>8, <1>9, <1>10, Zenon DEF Core

LEMMA NoJobType == NoJob \in Jobs /\ NoJob.at = "idle"
  <1> DEFINE u(a, b, r, n) == [at |-> a, d |-> None, live |-> b, attempt |-> n, res |-> r, era |-> n]
  <1>1. ASSUME NEW a \in JobPlaces, NEW b \in BOOLEAN, NEW r \in {"nil", "err"}, NEW n \in Nat
        PROVE  u(a, b, r, n) \in Jobs /\ u(a, b, r, n).at = a
    BY Zenon DEF Jobs
  <1>2. NoJob = u("idle", TRUE, "nil", 0)
    BY Zenon DEF NoJob
  <1>3. "idle" \in JobPlaces /\ TRUE \in BOOLEAN /\ "nil" \in {"nil", "err"} /\ 0 \in Nat
    BY Zenon DEF JobPlaces
  <1> HIDE DEF u
  <1>4. QED
    BY <1>1, <1>2, <1>3, Zenon

\* What a step does to the lease.
Refined == EvalKnown => LockLease!Next \/ UNCHANGED <<lock, In, lapsed>>

LEMMA ClaimStep ==
    ASSUME Core, NEW w \in Workers, NEW d \in Deliveries, Claim(w, d)
    PROVE  Core' /\ UNCHANGED <<lock, In, lapsed>>
  <1> DEFINE s == [NoJob EXCEPT !.at = "lock", !.d = d]
  <1>1. s \in Jobs /\ s.at = "lock" /\ s.d = d
    <2>1. "lock" \in JobPlaces
      BY Zenon DEF JobPlaces
    <2>2. ASSUME NEW u \in Jobs
          PROVE  LET v == [u EXCEPT !.at = "lock", !.d = d]
                 IN  v \in Jobs /\ v.at = "lock" /\ v.d = d
      BY <2>1, Zenon DEF Jobs
    <2>3. QED
      BY <2>2, NoJobType, Zenon
  <1>2. /\ job' = [job EXCEPT ![w] = s] /\ ~Inside(w)
        /\ UNCHANGED <<lock, lapsed, lapses, guard, era, acked>>
    BY Zenon DEF Claim, lockVars, guardVars, Inside
  <1> HIDE DEF s
  <1>3. lapsed' = lapsed \ {w}
    BY <1>2, Zenon DEF Core, Leases, Leased
  <1>4. lock' \in [Deliveries -> Workers \union {None}] /\ Frees(w)
    BY <1>2, Zenon DEF Core, TLock, Frees
  <1>5. s.at \in Out
    BY <1>1, Zenon DEF Out
  <1>6. QED
    BY <1>1, <1>2, <1>3, <1>4, <1>5, OutsideStep, Zenon

LEMMA ReturnStep ==
    ASSUME Core, NEW w \in Workers, Return(w)
    PROVE  Core' /\ UNCHANGED <<lock, In, lapsed>>
  <1>1. /\ job' = [job EXCEPT ![w] = NoJob] /\ ~Inside(w)
        /\ UNCHANGED <<lock, lapsed, lapses, guard, era, acked>>
    BY Zenon DEF Return, lockVars, guardVars, Inside
  <1>2. lapsed' = lapsed \ {w}
    BY <1>1, Zenon DEF Core, Leases, Leased
  <1>3. lock' \in [Deliveries -> Workers \union {None}] /\ Frees(w)
    BY <1>1, Zenon DEF Core, TLock, Frees
  <1>4. NoJob.at \in Out
    BY NoJobType, Zenon DEF Out
  <1>5. QED
    BY <1>1, <1>2, <1>3, <1>4, NoJobType, OutsideStep, Zenon

(* The lease's view of a job that is inside.                                  *)
LEMMA Held ==
    ASSUME Core, NEW w \in Workers, Inside(w)
    PROVE  In[w] = job[w].d /\ job[w].d \in Deliveries
  BY JobRecord, Zenon DEF Core, In, Inside

LEMMA DieStep ==
    ASSUME Core, NEW w \in Workers, Die(w)
    PROVE  Core' /\ Refined
  <1>1. /\ job' = [job EXCEPT ![w] = NoJob] /\ lapsed' = lapsed \ {w}
        /\ UNCHANGED <<lock, lapses, guard, era, acked>>
    BY Zenon DEF Die, guardVars
  <1>2. lock' \in [Deliveries -> Workers \union {None}] /\ Frees(w)
    BY <1>1, Zenon DEF Core, TLock, Frees
  <1>3. NoJob.at \in Out
    BY NoJobType, Zenon DEF Out
  <1>4. /\ Core' /\ In' = [In EXCEPT ![w] = None]
        /\ ~Inside(w) => In' = In /\ lapsed' = lapsed
    BY <1>1, <1>2, <1>3, NoJobType, OutsideStep, Zenon
  <1>5. CASE Inside(w)
    <2>1. PICK d \in Deliveries : d = job[w].d
      BY <1>5, Held, Zenon
    <2>2. LockLease!Abandon(w, d)
      BY <1>1, <1>4, <1>5, <2>1, Held, Zenon DEF LockLease!Abandon, In
    <2>3. LockLease!Next
      BY <2>2, Zenon DEF LockLease!Next
    <2>4. QED
      BY <1>4, <2>3, Zenon DEF Refined
  <1>6. CASE ~Inside(w)
    BY <1>1, <1>4, <1>6, Zenon DEF Refined
  <1>7. QED
    BY <1>5, <1>6, Zenon

LEMMA AcquireFailsStep ==
    ASSUME Core, NEW w \in Workers, AcquireFails(w)
    PROVE  Core' /\ Refined
  <1> DEFINE s == [job[w] EXCEPT !.at = "return", !.res = "err"]
  <1>1. PICK d \in Deliveries : d = job[w].d
    BY JobRecord, Zenon DEF Core, AcquireFails
  <1>2. s \in Jobs /\ s.at = "return" /\ s.d = d
    <2>1. "return" \in JobPlaces /\ job[w] \in Jobs
      BY JobRecord, Zenon DEF JobPlaces, Core
    <2>2. QED
      BY <1>1, <2>1, Zenon DEF Jobs
  <1>3. /\ job' = [job EXCEPT ![w] = s] /\ ~Inside(w)
        /\ UNCHANGED <<lapsed, lapses, guard, era, acked>>
        /\ lock' = lock \/ (lock[d] = None /\ lock' = [lock EXCEPT ![d] = w])
    BY <1>1, Zenon DEF AcquireFails, guardVars, Inside
  <1> HIDE DEF s
  <1>4. lapsed' = lapsed \ {w}
    BY <1>3, Zenon DEF Core, Leases, Leased
  <1>5. lock \in [Deliveries -> Workers \union {None}]
    BY Zenon DEF Core, TLock
  <1>6. lock' \in [Deliveries -> Workers \union {None}] /\ Frees(w)
    BY <1>3, <1>5, Zenon DEF Frees
  <1>7. s.at \in Out
    BY <1>2, Zenon DEF Out
  <1>8. Core' /\ In' = In
    BY <1>2, <1>3, <1>4, <1>6, <1>7, OutsideStep, Zenon
  <1>9. CASE lock' = lock
    BY <1>3, <1>8, <1>9, Zenon DEF Refined
  <1>10. CASE lock[d] = None /\ lock' = [lock EXCEPT ![d] = w]
    <2>1. In[w] = None
      BY <1>3, Zenon DEF In
    <2>2. LockLease!Strand(w, d)
      BY <1>3, <1>8, <1>10, <2>1, Zenon DEF LockLease!Strand, In
    <2>3. LockLease!Next
      BY <2>2, Zenon DEF LockLease!Next
    <2>4. QED
      BY <1>8, <2>3, Zenon DEF Refined
  <1>11. QED
    BY <1>3, <1>9, <1>10, Zenon

LEMMA ReleaseStep ==
    ASSUME Core, NEW w \in Workers, release(w)
    PROVE  Core' /\ Refined
  <1> DEFINE s == [job[w] EXCEPT !.at = "return"]
  <1>1. PICK d \in Deliveries : d = job[w].d
    BY JobRecord, Zenon DEF Core, release
  <1>2. s \in Jobs /\ s.at = "return" /\ s.d = d
    <2>1. "return" \in JobPlaces /\ job[w] \in Jobs
      BY JobRecord, Zenon DEF JobPlaces, Core
    <2>2. QED
      BY <1>1, <2>1, Zenon DEF Jobs
  <1>3. /\ job' = [job EXCEPT ![w] = s] /\ Inside(w) /\ lapsed' = lapsed \ {w}
        /\ UNCHANGED <<lapses, guard, era, acked>>
        /\ \/ lock' = lock
           \/ lock' = IF lock[d] = w \/ ~EvalKnown THEN [lock EXCEPT ![d] = None] ELSE lock
    BY <1>1, Zenon DEF release, guardVars, Inside, Go
  <1> HIDE DEF s
  <1>4. lock \in [Deliveries -> Workers \union {None}]
    BY Zenon DEF Core, TLock
  <1>5. lock' \in [Deliveries -> Workers \union {None}] /\ Frees(w)
    BY <1>3, <1>4, Zenon DEF Frees
  <1>6. s.at \in Out
    BY <1>2, Zenon DEF Out
  <1>7. Core' /\ In' = [In EXCEPT ![w] = None]
    BY <1>2, <1>3, <1>5, <1>6, OutsideStep, Zenon
  <1>8. In[w] = d
    BY <1>1, <1>3, Held, Zenon
  <1>9. CASE lock' = lock
    <2>1. LockLease!Abandon(w, d)
      BY <1>3, <1>7, <1>8, <1>9, Zenon DEF LockLease!Abandon, In
    <2>2. LockLease!Next
      BY <2>1, Zenon DEF LockLease!Next
    <2>3. QED
      BY <1>7, <2>2, Zenon DEF Refined
  <1>10. ASSUME EvalKnown,
                lock' = IF lock[d] = w \/ ~EvalKnown THEN [lock EXCEPT ![d] = None] ELSE lock
         PROVE  LockLease!Next
    <2>1. w \in lapsed <=> lock[d] # w
      BY <1>1, <1>3, <1>10, Zenon DEF Core, Leases, Leased
    <2>2. lock' = IF w \in lapsed THEN lock ELSE [lock EXCEPT ![d] = None]
      BY <1>10, <2>1, Zenon
    <2>3. LockLease!Leave(w, d)
      BY <1>3, <1>7, <1>8, <2>2, Zenon DEF LockLease!Leave, In
    <2>4. QED
      BY <2>3, Zenon DEF LockLease!Next
  <1>11. QED
    BY <1>3, <1>7, <1>9, <1>10, Zenon DEF Refined

LEMMA AcquireStep ==
    ASSUME Core, NEW w \in Workers, Acquire(w)
    PROVE  Core' /\ Refined
  <1>1. PICK d \in Deliveries : d = job[w].d
    BY JobRecord, Zenon DEF Core, Acquire
  <1>2. /\ job[w].at = "lock" /\ ~Inside(w) /\ lock[d] = None
        /\ lock' = [lock EXCEPT ![d] = w] /\ Go(w, "check")
        /\ UNCHANGED <<lapsed, lapses, guard, era, acked>>
    BY <1>1, Zenon DEF Acquire, guardVars, Inside
  <1>3. /\ TJob /\ TLock /\ TGuard /\ Leases /\ Guards /\ PostedOnce
        /\ None \notin Workers /\ lock \in [Deliveries -> Workers \union {None}]
    BY DeliveryConstants, Zenon DEF Core, TLock
  <1>4. PICK s : Moves(w, s) /\ s.at = "check"
    <2>1. "check" \in JobPlaces \ {"idle", "post"}
      BY Zenon DEF JobPlaces
    <2>2. QED
      BY <1>2, <1>3, <2>1, GoMoves, Zenon
  <1>5. /\ TJob' /\ job'[w] = s
        /\ \A v \in Workers \ {w} : job'[v] = job[v]
        /\ \A v \in Workers : job'[v].d = job[v].d
    BY <1>3, <1>4, MovesJob, Zenon
  <1>6. guard \subseteq guard' /\ guard' \subseteq Deliveries /\ UNCHANGED <<era, acked>>
    BY <1>2, <1>3, Zenon DEF TGuard
  <1>7. TGuard' /\ Guards' /\ PostedOnce'
    BY <1>3, <1>4, <1>6, MovesGuard, Zenon
  <1>8. TLock'
    BY <1>2, <1>3, Zenon DEF TLock
  <1>9. Inside(w)' /\ \A v \in Workers \ {w} : Inside(v)' = Inside(v)
    BY <1>4, <1>5, Zenon DEF Inside
  <1>10. Leases'
    <2>1. Leased(w)'
      <3>1. w \notin lapsed' /\ lock'[d] = w /\ job'[w].d = d
        BY <1>1, <1>2, <1>3, <1>5, Zenon DEF Leases, Leased
      <3>2. QED
        BY <3>1, Zenon DEF Leased
    <2>2. ASSUME NEW v \in Workers, v # w PROVE Leased(v)'
      <3>1. Leased(v) /\ job'[v] = job[v] /\ Inside(v)' = Inside(v) /\ lapsed' = lapsed
        BY <1>2, <1>3, <1>5, <1>9, <2>2, Zenon DEF Leases
      <3>2. CASE Inside(v)
        <4>1. job[v].d \in Deliveries
          BY <1>3, <3>2, JobRecord, Zenon DEF Inside
        <4>2. lock'[job[v].d] = IF job[v].d = d THEN w ELSE lock[job[v].d]
          BY <1>2, <1>3, <4>1, Zenon
        <4>3. QED
          BY <1>2, <1>3, <2>2, <3>1, <3>2, <4>2, Zenon DEF Leased
      <3>3. CASE ~Inside(v)
        BY <3>1, <3>3, Zenon DEF Leased
      <3>4. QED
        BY <3>2, <3>3, Zenon
    <2>3. QED
      BY <2>1, <2>2, Zenon DEF Leases
  <1>11. Core'
    BY <1>5, <1>7, <1>8, <1>10, Zenon DEF Core
  <1>12. In' = [In EXCEPT ![w] = d] /\ In[w] = None
    <2>1. In' = [v \in Workers |-> IF Inside(v)' THEN job'[v].d ELSE None]
      BY Zenon DEF In
    <2>2. \A v \in Workers : (IF Inside(v)' THEN job'[v].d ELSE None) = IF v = w THEN d ELSE In[v]
      BY <1>1, <1>5, <1>9, Zenon DEF In
    <2>3. [In EXCEPT ![w] = d] = [v \in Workers |-> IF v = w THEN d ELSE In[v]]
      BY Zenon DEF In
    <2>4. In[w] = None
      BY <1>2, Zenon DEF In
    <2>5. QED
      BY <2>1, <2>2, <2>3, <2>4, Zenon
  <1>13. LockLease!Enter(w, d)
    BY <1>2, <1>12, Zenon DEF LockLease!Enter, In
  <1>14. LockLease!Next
    BY <1>13, Zenon DEF LockLease!Next
  <1>15. QED
    BY <1>11, <1>14, Zenon DEF Refined

LEMMA LockExpiresStep ==
    ASSUME Core, NEW d \in Deliveries, LockExpires(d)
    PROVE  Core' /\ Refined
  <1>1. /\ TJob /\ TLock /\ TGuard /\ Leases /\ Guards /\ PostedOnce
        /\ None \notin Workers /\ lock \in [Deliveries -> Workers \union {None}]
    BY DeliveryConstants, Zenon DEF Core, TLock
  <1>2. /\ lock[d] # None /\ lock' = [lock EXCEPT ![d] = None]
        /\ job' = job /\ guard' = guard /\ era' = era /\ acked' = acked
    BY Zenon DEF LockExpires, guardVars
  <1>3. PICK x \in Workers : x = lock[d]
    BY <1>1, <1>2, Zenon
  <1>4. \/ job[x].d = d /\ Inside(x) /\ lapsed' = lapsed \union {x} /\ lapses' = lapses + 1
        \/ ~(job[x].d = d /\ Inside(x)) /\ lapsed' = lapsed /\ lapses' = lapses
    BY <1>3, Zenon DEF LockExpires
  <1>5. TJob' /\ TGuard' /\ In' = In
    BY <1>1, <1>2, Zenon DEF TJob, TGuard, In, Inside
  <1>6. TLock'
    BY <1>1, <1>2, <1>4 DEF TLock
  <1>7. Guards' /\ PostedOnce'
    BY <1>1, <1>2, Zenon DEF Guards, Guarded, Posting, PostedOnce
  <1>8. Leases'
    <2>1. SUFFICES ASSUME NEW v \in Workers PROVE Leased(v)'
      BY Zenon DEF Leases
    <2>2. Leased(v) /\ Inside(v)' = Inside(v)
      BY <1>1, <1>2, Zenon DEF Leases, Inside
    <2>3. CASE Inside(v)
      <3>1. job[v].d \in Deliveries
        BY <1>1, <2>3, JobRecord, Zenon DEF Inside
      <3>2. lock'[job[v].d] = IF job[v].d = d THEN None ELSE lock[job[v].d]
        BY <1>1, <1>2, <3>1, Zenon
      <3>3. CASE job[v].d = d
        <4>1. lock'[job[v].d] # v
          BY <1>1, <3>2, <3>3, Zenon
        <4>2. EvalKnown => v \in lapsed'
          BY <1>3, <1>4, <2>2, <2>3, <3>3, Zenon DEF Leased
        <4>3. QED
          BY <1>2, <2>2, <2>3, <4>1, <4>2, Zenon DEF Leased
      <3>4. CASE job[v].d # d
        <4>1. v \in lapsed' <=> v \in lapsed
          BY <1>4, <3>4, Zenon
        <4>2. QED
          BY <1>2, <2>2, <2>3, <3>2, <3>4, <4>1, Zenon DEF Leased
      <3>5. QED
        BY <3>3, <3>4, Zenon
    <2>4. CASE ~Inside(v)
      <3>1. v \notin lapsed'
        BY <1>4, <2>2, <2>4, Zenon DEF Leased
      <3>2. QED
        BY <2>2, <2>4, <3>1, Zenon DEF Leased
    <2>5. QED
      BY <2>3, <2>4, Zenon
  <1>9. In[x] = d <=> job[x].d = d /\ Inside(x)
    BY DeliveryConstants, Zenon DEF In
  <1>10. lapsed' = lapsed \union {c \in {lock[d]} : In[c] = d}
    BY <1>3, <1>4, <1>9, Zenon
  <1>11. LockLease!Expire(d)
    BY <1>2, <1>5, <1>10, Zenon DEF LockLease!Expire, In
  <1>12. LockLease!Next
    BY <1>11, Zenon DEF LockLease!Next
  <1>13. QED
    BY <1>5, <1>6, <1>7, <1>8, <1>12, Zenon DEF Core, Refined

LEMMA EraStep ==
    ASSUME Core, TReplay, ReplayUnguard \/ \E d \in Deliveries : GuardExpires(d)
    PROVE  Core' /\ UNCHANGED <<lock, In, lapsed>>
  <1>1. ASSUME NEW d \in Deliveries, GuardExpires(d)
        PROVE  Core' /\ UNCHANGED <<lock, In, lapsed>>
    <2>1. /\ d \in guard /\ guard' = guard \ {d} /\ era' = [era EXCEPT ![d] = @ + 1]
          /\ UNCHANGED <<job, lock, lapsed, lapses, acked>>
      BY <1>1, Zenon DEF GuardExpires, lockVars
    <2>2. QED
      BY <2>1, NewEra, Zenon
  <1>2. CASE ReplayUnguard
    <2>1. PICK d \in Deliveries : d = replay.d
      BY <1>2, Zenon DEF ReplayUnguard, TReplay
    <2>2. /\ UNCHANGED <<job, lock, lapsed, lapses, acked>>
          /\ \/ /\ guard' = guard \ {d}
                /\ era' = [era EXCEPT ![d] = IF d \in guard THEN @ + 1 ELSE @]
             \/ UNCHANGED <<guard, era>>
      BY <1>2, <2>1, Zenon DEF ReplayUnguard, ReplayRelease, lockVars, guardVars
    <2>3. CASE d \in guard /\ ~UNCHANGED <<guard, era>>
      <3>1. guard' = guard \ {d} /\ era' = [era EXCEPT ![d] = @ + 1]
        BY <2>2, <2>3, Zenon
      <3>2. QED
        BY <2>2, <2>3, <3>1, NewEra, Zenon
    <2>4. CASE d \notin guard \/ UNCHANGED <<guard, era>>
      <3>1. era \in [Deliveries -> Nat]
        BY Zenon DEF Core, TGuard
      <3>2. guard' = guard /\ era' = era
        BY <2>2, <2>4, <3>1, Zenon
      <3>3. QED
        BY <2>2, <3>2, Same, Zenon DEF coreVars
    <2>5. QED
      BY <2>3, <2>4, Zenon
  <1>3. QED
    BY <1>1, <1>2, Zenon

----------------------------------------------------------------------------
\* The rows and the replay request.

Statuses == {"none", "PENDING", "DELIVERING", "DELIVERED", "FAILED", "DLQ"}

LEMMA RowEdits ==
    ASSUME NEW r \in Rows, NEW st \in Statuses, NEW b \in BOOLEAN, NEW n \in Nat
    PROVE  /\ [r EXCEPT !.status = st] \in Rows
           /\ [r EXCEPT !.due = b] \in Rows
           /\ [r EXCEPT !.status = st, !.due = b] \in Rows
           /\ [r EXCEPT !.status = st, !.tried = b] \in Rows
           /\ [r EXCEPT !.status = st, !.attempt = n, !.due = b] \in Rows
  BY Zenon DEF Rows, Statuses

LEMMA NoRowType == NoRow \in Rows
  <1>1. ASSUME NEW st \in Statuses, NEW n \in Nat, NEW b \in BOOLEAN, NEW c \in BOOLEAN
        PROVE  [status |-> st, attempt |-> n, due |-> b, tried |-> c] \in Rows
    BY Zenon DEF Rows, Statuses
  <1>2. "none" \in Statuses /\ 0 \in Nat /\ TRUE \in BOOLEAN /\ FALSE \in BOOLEAN
    BY Zenon DEF Statuses
  <1>3. QED
    BY <1>1, <1>2, Zenon DEF NoRow

LEMMA SetRow ==
    ASSUME TRow, NEW d \in Deliveries, NEW r \in Rows,
           row' = row \/ row' = [row EXCEPT ![d] = r]
    PROVE  TRow'
  BY Zenon DEF TRow

\* What the statements make of a row.
LEMMA StatementRows ==
    ASSUME TRow, NEW d \in Deliveries,
           \/ MarkDelivering(d) \/ MarkDelivered(d) \/ MarkFailedWithBackoff(d) \/ MoveToDLQ(d)
           \/ ResetDeliveryForReplay(d) \/ EnqueueDelivery(d) \/ BackoffPasses(d)
    PROVE  TRow'
  <1>1. row[d] \in Rows /\ row[d].attempt \in Nat
    BY Zenon DEF TRow, Rows
  <1>2. /\ \A st \in {"PENDING", "DELIVERING", "DELIVERED", "FAILED", "DLQ"} : st \in Statuses
        /\ TRUE \in BOOLEAN /\ FALSE \in BOOLEAN /\ 0 \in Nat /\ row[d].attempt + 1 \in Nat
    BY <1>1 DEF Statuses
  <1>3. CASE MarkDelivering(d)
    <2>1. PICK r \in Rows : r = [row[d] EXCEPT !.status = "DELIVERING", !.tried = TRUE]
      BY <1>1, <1>2, RowEdits, Zenon
    <2>2. row' = row \/ row' = [row EXCEPT ![d] = r]
      BY <1>3, <2>1, Zenon DEF MarkDelivering, UpdateDelivery
    <2>3. QED
      BY <2>2, SetRow, Zenon
  <1>4. CASE MarkDelivered(d)
    <2>1. PICK r \in Rows : r = [row[d] EXCEPT !.status = "DELIVERED", !.due = TRUE]
      BY <1>1, <1>2, RowEdits, Zenon
    <2>2. row' = row \/ row' = [row EXCEPT ![d] = r]
      BY <1>4, <2>1, Zenon DEF MarkDelivered, UpdateDelivery
    <2>3. QED
      BY <2>2, SetRow, Zenon
  <1>5. CASE MarkFailedWithBackoff(d)
    <2>1. PICK n \in Nat : n = row[d].attempt + 1
      BY <1>2, Zenon
    <2>2. PICK r \in Rows : r = [row[d] EXCEPT !.status = "FAILED", !.attempt = n, !.due = FALSE]
      BY <1>1, <1>2, RowEdits, Zenon
    <2>3. row' = row \/ row' = [row EXCEPT ![d] = r]
      BY <1>5, <2>1, <2>2, Zenon DEF MarkFailedWithBackoff, UpdateDelivery
    <2>4. QED
      BY <2>3, SetRow, Zenon
  <1>6. CASE MoveToDLQ(d)
    <2>1. PICK r \in Rows : r = [row[d] EXCEPT !.status = "DLQ", !.due = TRUE]
      BY <1>1, <1>2, RowEdits, Zenon
    <2>2. row' = row \/ row' = [row EXCEPT ![d] = r]
      BY <1>6, <2>1, Zenon DEF MoveToDLQ, UpdateDelivery
    <2>3. QED
      BY <2>2, SetRow, Zenon
  <1>7. CASE ResetDeliveryForReplay(d)
    <2>1. PICK r \in Rows : r = [row[d] EXCEPT !.status = "PENDING", !.attempt = 0, !.due = TRUE]
      BY <1>1, <1>2, RowEdits, Zenon
    <2>2. row' = row \/ row' = [row EXCEPT ![d] = r]
      BY <1>7, <2>1, Zenon DEF ResetDeliveryForReplay, UpdateDelivery
    <2>3. QED
      BY <2>2, SetRow, Zenon
  <1>8. CASE EnqueueDelivery(d)
    <2>1. PICK r \in Rows : r = [NoRow EXCEPT !.status = "PENDING"]
      BY <1>2, NoRowType, RowEdits, Zenon
    <2>2. row' = [row EXCEPT ![d] = r]
      BY <1>8, <2>1, Zenon DEF EnqueueDelivery
    <2>3. QED
      BY <2>2, SetRow, Zenon
  <1>9. CASE BackoffPasses(d)
    <2>1. PICK r \in Rows : r = [row[d] EXCEPT !.due = TRUE]
      BY <1>1, <1>2, RowEdits, Zenon
    <2>2. row' = [row EXCEPT ![d] = r]
      BY <1>9, <2>1, Zenon DEF BackoffPasses
    <2>3. QED
      BY <2>2, SetRow, Zenon
  <1>10. QED
    BY <1>3, <1>4, <1>5, <1>6, <1>7, <1>8, <1>9, Zenon

LEMMA WorkRows ==
    ASSUME TRow, TJob, NEW w \in Workers, Working(w)
    PROVE  TRow'
  <1>1. job[w].at # "idle"
    BY Zenon DEF Working, Check, StartAttempt, Load, Delivered, AttemptFails, failDelivery, DeadLetter, Requeue
  <1>2. PICK d \in Deliveries : d = job[w].d
    BY <1>1, JobRecord, Zenon
  <1>3. CASE Check(w) \/ Load(w) \/ DeadLetter(w) \/ Requeue(w)
    BY <1>3, Zenon DEF Check, Load, DeadLetter, Requeue, TRow
  <1>4. CASE StartAttempt(w)
    <2>1. MarkDelivering(d) \/ row' = row
      BY <1>2, <1>4, Zenon DEF StartAttempt, MarkDelivering, UpdateDelivery, Exists
    <2>2. QED
      BY <2>1, StatementRows, Zenon DEF TRow
  <1>5. CASE Delivered(w)
    <2>1. MarkDelivered(d) \/ row' = row
      BY <1>2, <1>5, Zenon DEF Delivered, MarkDelivered, UpdateDelivery, Exists
    <2>2. QED
      BY <2>1, StatementRows, Zenon DEF TRow
  <1>6. CASE AttemptFails(w) \/ failDelivery(w)
    <2>1. MarkFailedWithBackoff(d) \/ MoveToDLQ(d) \/ row' = row
      BY <1>2, <1>6, Zenon
         DEF AttemptFails, failDelivery, BackOff, MarkFailedWithBackoff, MoveToDLQ, UpdateDelivery, Exists
    <2>2. QED
      BY <2>1, StatementRows, Zenon DEF TRow
  <1>7. QED
    BY <1>3, <1>4, <1>5, <1>6, Zenon DEF Working

LEMMA AdminRows ==
    ASSUME TRow, TReplay, Admin
    PROVE  TRow' /\ TReplay'
  <1>1. ASSUME NEW p \in Endpoints, NEW active \in BOOLEAN, NEW ts \in TopicLists,
               CreateEndpoint(p, active, ts) \/ UpdateEndpoint(p, active, ts)
        PROVE  TRow' /\ TReplay'
    BY <1>1, Zenon DEF CreateEndpoint, UpdateEndpoint, adminVars, TRow, TReplay
  <1>2. ASSUME NEW p \in Endpoints, DeleteEndpoint(p)
        PROVE  TRow' /\ TReplay'
    <2>1. row' = [d \in Deliveries |-> IF d[1] = p THEN NoRow ELSE row[d]] /\ replay' = replay
      BY <1>2, Zenon DEF DeleteEndpoint, DeleteWebhookEndpoint
    <2>2. \A d \in Deliveries : (IF d[1] = p THEN NoRow ELSE row[d]) \in Rows
      BY NoRowType, Zenon DEF TRow
    <2>3. QED
      BY <2>1, <2>2, Zenon DEF TRow, TReplay
  <1>3. ASSUME NEW d \in Deliveries, ReplayReset(d)
        PROVE  TRow' /\ TReplay'
    <2>1. ResetDeliveryForReplay(d) /\ replay' = [at |-> "dlq", d |-> d]
      BY <1>3, Zenon DEF ReplayReset
    <2>2. TRow'
      BY <2>1, StatementRows, Zenon
    <2>3. QED
      BY <2>1, <2>2, Zenon DEF TReplay
  <1>4. ASSUME NEW d \in Deliveries, ReplayTask(d)
        PROVE  TRow' /\ TReplay'
    BY <1>4, Zenon DEF ReplayTask, TRow, TReplay
  <1>5. CASE ReplayDeleteDlq
    <2>1. row' = row /\ replay.at = "dlq" /\ replay' = [replay EXCEPT !.at = "guard"]
      BY <1>5, Zenon DEF ReplayDeleteDlq
    <2>2. DOMAIN replay' = {"at", "d"} /\ replay'.d = replay.d
      BY <2>1, Zenon DEF TReplay
    <2>3. QED
      BY <2>1, <2>2, Zenon DEF TRow, TReplay
  <1>6. CASE ReplayUnguard
    <2>1. row' = row /\ replay' = [at |-> "none", d |-> None]
      BY <1>6, Zenon DEF ReplayUnguard
    <2>2. QED
      BY <2>1, Zenon DEF TRow, TReplay
  <1>7. QED
    BY <1>1, <1>2, <1>3, <1>4, <1>5, <1>6, Zenon DEF Admin

LEMMA EmitRows ==
    ASSUME TRow, TReplay, NEW e \in Events, EmitStep(e) \/ EmitCallFails(e) \/ EmitterDies(e)
    PROVE  TRow' /\ TReplay' /\ UNCHANGED coreVars
  <1>1. UNCHANGED replay /\ UNCHANGED coreVars
    BY Zenon DEF EmitStep, EmitInsert, ScheduleList, ScheduleInsert, ScheduleEnqueue, Notify, EmitCallFails,
           EmitterDies, adminVars, lockVars, guardVars, coreVars
  <1>2. CASE UNCHANGED row
    BY <1>1, <1>2, Zenon DEF TRow, TReplay
  <1>3. ASSUME NEW p \in Endpoints, ScheduleInsert(e, p)
        PROVE  TRow'
    <2>1. PICK d \in Deliveries : d = <<p, e>>
      BY Zenon DEF Deliveries
    <2>2. row' = row \/ EnqueueDelivery(d)
      BY <1>3, <2>1, Zenon DEF ScheduleInsert, EnqueueDelivery
    <2>3. QED
      BY <2>2, StatementRows, Zenon DEF TRow
  <1>4. QED
    BY <1>1, <1>2, <1>3, Zenon
       DEF EmitStep, EmitInsert, ScheduleList, ScheduleEnqueue, Notify, EmitCallFails, EmitterDies, TReplay

----------------------------------------------------------------------------
Inv == Core /\ TRow /\ TReplay

\* Steps of a job, and the passing of time.
LEMMA JobSteps ==
    ASSUME Inv, NEW w \in Workers, JobStep(w) \/ Deadline(w) \/ Die(w)
    PROVE  Inv' /\ Refined
  <1>1. TReplay'
    BY Zenon DEF Inv, TReplay, adminVars, JobStep, Deadline, Die, Acquire, AcquireFails, Check, StartAttempt,
           Load, Guard, Post, Delivered, AttemptFails, failDelivery, DeadLetter, Requeue, release, Return
  <1>2. CASE Working(w)
    <2>1. TRow'
      BY <1>2, WorkRows, Zenon DEF Inv, Core
    <2>2. Core' /\ UNCHANGED <<lock, In, lapsed>>
      BY <1>2, WorkStep, Zenon DEF Inv
    <2>3. QED
      BY <1>1, <2>1, <2>2, Zenon DEF Inv, Refined
  <1>3. ASSUME ~Working(w)
        PROVE  TRow'
    BY <1>3, Zenon DEF Inv, TRow, Working, JobStep, Deadline, Die, Acquire, AcquireFails, Guard, Post, release, Return
  <1>4. CASE Deadline(w) \/ Guard(w) \/ Post(w) \/ Return(w)
    <2>1. Core' /\ UNCHANGED <<lock, In, lapsed>>
      BY <1>4, WorkStep, GuardStep, PostStep, ReturnStep, Zenon DEF Inv
    <2>2. QED
      BY <1>1, <1>2, <1>3, <2>1, Zenon DEF Inv, Refined
  <1>5. CASE Acquire(w) \/ AcquireFails(w) \/ release(w) \/ Die(w)
    <2>1. Core' /\ Refined
      BY <1>5, AcquireStep, AcquireFailsStep, ReleaseStep, DieStep, Zenon DEF Inv
    <2>2. QED
      BY <1>1, <1>2, <1>3, <2>1, Zenon DEF Inv
  <1>6. QED
    BY <1>2, <1>4, <1>5, Zenon DEF JobStep, Working

LEMMA TimeSteps ==
    ASSUME Inv, NEW d \in Deliveries,
           \/ BackoffPasses(d) \/ LockExpires(d) \/ GuardExpires(d) \/ DedupExpires(d)
           \/ \E w \in Workers : Claim(w, d) \/ Redeliver(d, w)
    PROVE  Inv' /\ Refined
  <1>1. TReplay'
    BY Zenon DEF Inv, TReplay, adminVars, BackoffPasses, LockExpires, GuardExpires, DedupExpires, Claim, Redeliver
  <1>2. TRow'
    <2>1. CASE BackoffPasses(d)
      BY <2>1, StatementRows, Zenon DEF Inv
    <2>2. CASE ~BackoffPasses(d)
      BY <2>2, Zenon DEF Inv, TRow, LockExpires, GuardExpires, DedupExpires, Claim, Redeliver
    <2>3. QED
      BY <2>1, <2>2, Zenon
  <1>3. CASE BackoffPasses(d) \/ DedupExpires(d) \/ \E w \in Workers : Redeliver(d, w)
    <2>1. UNCHANGED coreVars
      BY <1>3, Zenon DEF BackoffPasses, DedupExpires, Redeliver, coreVars, lockVars, guardVars
    <2>2. Core' /\ UNCHANGED <<lock, In, lapsed>>
      BY <2>1, Same, Zenon DEF Inv
    <2>3. QED
      BY <1>1, <1>2, <2>2, Zenon DEF Inv, Refined
  <1>4. CASE LockExpires(d)
    BY <1>1, <1>2, <1>4, LockExpiresStep, Zenon DEF Inv
  <1>5. CASE GuardExpires(d)
    <2>1. Core' /\ UNCHANGED <<lock, In, lapsed>>
      BY <1>5, EraStep, Zenon DEF Inv
    <2>2. QED
      BY <1>1, <1>2, <2>1, Zenon DEF Inv, Refined
  <1>6. ASSUME NEW w \in Workers, Claim(w, d)
        PROVE  Inv' /\ Refined
    <2>1. Core' /\ UNCHANGED <<lock, In, lapsed>>
      BY <1>6, ClaimStep, Zenon DEF Inv
    <2>2. QED
      BY <1>1, <1>2, <2>1, Zenon DEF Inv, Refined
  <1>7. QED
    BY <1>3, <1>4, <1>5, <1>6, Zenon

LEMMA AdminSteps ==
    ASSUME Inv, Admin
    PROVE  Inv' /\ Refined
  <1>1. TRow' /\ TReplay'
    BY AdminRows, Zenon DEF Inv
  <1>2. CASE ReplayUnguard
    <2>1. Core' /\ UNCHANGED <<lock, In, lapsed>>
      BY <1>2, EraStep, Zenon DEF Inv
    <2>2. QED
      BY <1>1, <2>1, Zenon DEF Inv, Refined
  <1>3. CASE ~ReplayUnguard
    <2>1. UNCHANGED coreVars
      BY <1>3, Zenon DEF Admin, CreateEndpoint, UpdateEndpoint, DeleteEndpoint, ReplayReset, ReplayTask,
                  ReplayDeleteDlq, coreVars, lockVars, guardVars
    <2>2. Core' /\ UNCHANGED <<lock, In, lapsed>>
      BY <2>1, Same, Zenon DEF Inv
    <2>3. QED
      BY <1>1, <2>2, Zenon DEF Inv, Refined
  <1>4. QED
    BY <1>2, <1>3, Zenon

LEMMA Inductive ==
    ASSUME Inv, [Next]_vars
    PROVE  Inv' /\ Refined
  <1>1. CASE Admin
    BY <1>1, AdminSteps, Zenon
  <1>2. ASSUME NEW e \in Events, EmitStep(e) \/ EmitCallFails(e) \/ EmitterDies(e)
        PROVE  Inv' /\ Refined
    <2>1. TRow' /\ TReplay' /\ UNCHANGED coreVars
      BY <1>2, EmitRows, Zenon DEF Inv
    <2>2. Core' /\ UNCHANGED <<lock, In, lapsed>>
      BY <2>1, Same, Zenon DEF Inv
    <2>3. QED
      BY <2>1, <2>2, Zenon DEF Inv, Refined
  <1>3. ASSUME NEW w \in Workers, JobStep(w) \/ Deadline(w) \/ Die(w)
        PROVE  Inv' /\ Refined
    BY <1>3, JobSteps, Zenon
  <1>4. ASSUME NEW d \in Deliveries,
               \/ BackoffPasses(d) \/ LockExpires(d) \/ GuardExpires(d) \/ DedupExpires(d)
               \/ \E w \in Workers : Claim(w, d) \/ Redeliver(d, w)
        PROVE  Inv' /\ Refined
    BY <1>4, TimeSteps, Zenon
  <1>5. CASE UNCHANGED vars
    <2>1. UNCHANGED coreVars /\ row' = row /\ replay' = replay
      BY <1>5, Zenon DEF vars, coreVars, lockVars, guardVars, adminVars
    <2>2. Core' /\ UNCHANGED <<lock, In, lapsed>>
      BY <2>1, Same, Zenon DEF Inv
    <2>3. QED
      BY <2>1, <2>2, Zenon DEF Inv, Refined, TRow, TReplay
  <1>6. QED
    BY <1>1, <1>2, <1>3, <1>4, <1>5, Zenon DEF Next

LEMMA Initially ==
    ASSUME Init
    PROVE  Inv /\ LockLease!Init
  <1>1. \A w \in Workers : job[w] = NoJob /\ ~Inside(w) /\ job[w].at = "idle"
    BY NoJobType, Zenon DEF Init, Inside
  <1>2. TJob
    BY <1>1, NoJobType, Zenon DEF Init, TJob
  <1>3. TLock /\ TGuard /\ TReplay
    BY Zenon DEF Init, TLock, TGuard, TReplay
  <1>4. TRow
    BY NoRowType, Zenon DEF Init, TRow
  <1>5. Leases
    BY <1>1, Zenon DEF Init, Leases, Leased
  <1>6. Guards /\ PostedOnce
    BY <1>1, Zenon DEF Init, Guards, Guarded, Posting, PostedOnce
  <1>7. LockLease!Init
    BY <1>1, Zenon DEF Init, LockLease!Init
  <1>8. QED
    BY <1>2, <1>3, <1>4, <1>5, <1>6, <1>7, Zenon DEF Inv, Core

(* Two jobs are inside the handler of one delivery only when the lock of one *)
(* of them has expired under it (redislock.go:22, webhook_worker.go:39).     *)
THEOREM HandlerIsExclusive == Spec => []OneAtATime
  <1>1. Inv => OneAtATime
    BY Zenon DEF Inv, Core, Leases, Leased, OneAtATime
  <1>2. Init => Inv
    BY Initially, Zenon
  <1>3. Inv /\ [Next]_vars => Inv'
    BY Inductive, Zenon
  <1>4. QED
    BY <1>1, <1>2, <1>3, PTL DEF Spec

(* While its replay key stays, an endpoint acknowledges an event at most     *)
(* once (webhook.go:278), whatever the queue redelivers.                     *)
THEOREM AcknowledgedOnce == Spec => []PostedOnce
  <1>1. Inv => PostedOnce
    BY Zenon DEF Inv, Core
  <1>2. Init => Inv
    BY Initially, Zenon
  <1>3. Inv /\ [Next]_vars => Inv'
    BY Inductive, Zenon
  <1>4. QED
    BY <1>1, <1>2, <1>3, PTL DEF Spec

(* Against a Redis that knows EVAL, Locker.WithLock around the handler       *)
(* implements the lease (redislock.go): every step of the system is one of   *)
(* the lease or leaves it alone.                                             *)
THEOREM LockIsALease ==
    ASSUME EvalKnown
    PROVE  Spec => ImplementsLease
  <1>1. Init => Inv /\ LockLease!Init
    BY Initially, Zenon
  <1>2. Inv /\ [Next]_vars => Inv' /\ [LockLease!Next]_(LockLease!leaseVars)
    <2>1. SUFFICES ASSUME Inv, [Next]_vars PROVE Inv' /\ [LockLease!Next]_(LockLease!leaseVars)
      BY Zenon
    <2>2. Inv' /\ (LockLease!Next \/ UNCHANGED <<lock, In, lapsed>>)
      BY <2>1, Inductive, Zenon DEF Refined
    <2>3. UNCHANGED <<lock, In, lapsed>> => UNCHANGED LockLease!leaseVars
      BY Zenon DEF In, LockLease!leaseVars
    <2>4. QED
      BY <2>2, <2>3, Zenon
  <1>3. QED
    BY <1>1, <1>2, PTL DEF Spec, ImplementsLease, LockLease!Spec

----------------------------------------------------------------------------
(***************************************************************************)
(* Attempts.  A job that has read the row's attempt while it had the lock  *)
(* counts once.  Those that count on top of it are the ones whose lock     *)
(* expired before they counted: there are no more of them than lapses, and *)
(* each that counts leaves them.                                           *)
(***************************************************************************)
Reading == {"mark", "load", "guard", "post", "failed", "broken"}
Trying == Reading \union {"check"}
Astray == {v \in lapsed : job[v].at \in Trying}

Below(d) == row[d].attempt + Cardinality(Astray) < MaxAttempt + lapses
Fresh(w) ==
    job[w].at \in Reading /\ w \notin lapsed =>
        row[job[w].d].attempt + Cardinality(Astray) <= job[w].attempt + lapses

Count ==
    /\ IsFiniteSet(lapsed) /\ Cardinality(Astray) <= lapses
    /\ EvalKnown => (\A d \in Deliveries : Below(d)) /\ (\A w \in Workers : Fresh(w))

\* No lock expires, and no job starts to read.
Steady ==
    /\ lapsed' \subseteq lapsed /\ lapses' = lapses
    /\ \A v \in Workers : job'[v].at \in Reading =>
          /\ job[v].at \in Reading /\ job'[v].d = job[v].d /\ job'[v].attempt = job[v].attempt
          /\ v \in lapsed => v \in lapsed'
    /\ \A v \in lapsed : job'[v].at \in Trying => job[v].at \in Trying

NoHigher == \A d \in Deliveries : row'[d].attempt <= row[d].attempt

LEMMA CountTypes ==
    ASSUME Inv, Count
    PROVE  /\ lapses \in Nat /\ MaxAttempt \in Nat /\ MaxAttempt > 0
           /\ \A d \in Deliveries : row[d].attempt \in Nat
           /\ \A w \in Workers : job[w].attempt \in Nat /\ (job[w].at # "idle" => job[w].d \in Deliveries)
           /\ IsFiniteSet(Astray) /\ Cardinality(Astray) \in Nat
  <1>1. lapses \in Nat
    BY Zenon DEF Inv, Core, TLock
  <1>2. MaxAttempt \in Nat /\ MaxAttempt > 0
    BY DeliveryConstants DEF MaxAttempt
  <1>3. \A d \in Deliveries : row[d].attempt \in Nat
    BY Zenon DEF Inv, TRow, Rows
  <1>4. \A w \in Workers : job[w].attempt \in Nat /\ (job[w].at # "idle" => job[w].d \in Deliveries)
    BY Zenon DEF Inv, Core, TJob, Jobs
  <1>5. IsFiniteSet(lapsed) /\ Astray \in SUBSET lapsed
    BY Zenon DEF Count, Astray
  <1>6. IsFiniteSet(Astray) /\ Cardinality(Astray) \in Nat
    BY <1>5, FS_Subset, FS_CardinalityType, Zenon
  <1>7. QED
    BY <1>1, <1>2, <1>3, <1>4, <1>6, Zenon

LEMMA FewerAstray ==
    ASSUME Inv, Count, Steady
    PROVE  /\ IsFiniteSet(lapsed') /\ Astray' \subseteq Astray
           /\ Cardinality(Astray') \in Nat /\ Cardinality(Astray') <= Cardinality(Astray)
  <1>1. IsFiniteSet(lapsed')
    BY FS_Subset, Zenon DEF Count, Steady
  <1>2. Astray' \subseteq Astray
    BY Zenon DEF Astray, Steady
  <1>3. IsFiniteSet(Astray)
    BY CountTypes, Zenon
  <1>4. IsFiniteSet(Astray') /\ Cardinality(Astray') <= Cardinality(Astray)
    BY <1>2, <1>3, FS_Subset, Zenon
  <1>5. QED
    BY <1>1, <1>2, <1>4, FS_CardinalityType, Zenon

(* A job that reads on reads the row of the same delivery, which no other    *)
(* job raised.                                                               *)
LEMMA CountKept ==
    ASSUME Inv, Inv', Count, Steady, NoHigher
    PROVE  Count'
  <1> DEFINE n == Cardinality(Astray)
             m == Cardinality(Astray')
  <1>1. /\ IsFiniteSet(lapsed') /\ m \in Nat /\ m <= n /\ n \in Nat /\ n <= lapses
        /\ lapses' = lapses /\ lapses \in Nat /\ MaxAttempt \in Nat
    BY FewerAstray, CountTypes, Zenon DEF Count, Steady
  <1>2. ASSUME NEW d \in Deliveries
        PROVE  row[d].attempt \in Nat /\ row'[d].attempt \in Nat /\ row'[d].attempt <= row[d].attempt
    BY Zenon DEF Inv, TRow, Rows, NoHigher
  <1> HIDE DEF n, m
  <1>3. ASSUME EvalKnown, NEW d \in Deliveries PROVE Below(d)'
    <2>1. row[d].attempt + n < MaxAttempt + lapses
      BY <1>3, Zenon DEF Count, Below, n
    <2>2. row'[d].attempt + m < MaxAttempt + lapses'
      BY <1>1, <1>2, <2>1
    <2>3. QED
      BY <2>2, Zenon DEF Below, m
  <1>4. ASSUME EvalKnown, NEW w \in Workers, job'[w].at \in Reading, w \notin lapsed'
        PROVE  row'[job'[w].d].attempt + m <= job'[w].attempt + lapses'
    <2>1. /\ job[w].at \in Reading /\ job'[w].d = job[w].d /\ job'[w].attempt = job[w].attempt
          /\ w \notin lapsed
      BY <1>4, Zenon DEF Steady
    <2>2. job[w].attempt \in Nat /\ job[w].at # "idle"
      BY <2>1, CountTypes, Zenon DEF Reading
    <2>3. PICK d \in Deliveries : d = job[w].d
      BY <2>2, CountTypes, Zenon
    <2>4. row[d].attempt + n <= job[w].attempt + lapses
      BY <1>4, <2>1, <2>3, Zenon DEF Count, Fresh, n
    <2>5. row'[d].attempt + m <= job[w].attempt + lapses
      BY <1>1, <1>2, <2>2, <2>4
    <2>6. QED
      BY <1>1, <2>1, <2>3, <2>5, Zenon
  <1>5. m <= lapses'
    BY <1>1
  <1>6. QED
    BY <1>1, <1>3, <1>4, <1>5, Zenon DEF Count, Fresh, m

(* What an assignment to a job's fields leaves alone.                        *)
LEMMA GoRecord ==
    ASSUME TJob, NEW w \in Workers, NEW at, Go(w, at)
    PROVE  /\ job'[w].at = at /\ job'[w].d = job[w].d /\ job'[w].attempt = job[w].attempt
           /\ job'[w].live = job[w].live /\ job'[w].res = job[w].res
           /\ \A v \in Workers \ {w} : job'[v] = job[v]
  BY Zenon DEF Go, TJob, Jobs

LEMMA FinishRecord ==
    ASSUME TJob, NEW w \in Workers, NEW at, NEW res, job' = [job EXCEPT ![w].at = at, ![w].res = res]
    PROVE  /\ job'[w].at = at /\ job'[w].d = job[w].d /\ job'[w].attempt = job[w].attempt
           /\ job'[w].live = job[w].live /\ job'[w].res = res
           /\ \A v \in Workers \ {w} : job'[v] = job[v]
  BY Zenon DEF TJob, Jobs

LEMMA EraRecord ==
    ASSUME TJob, NEW w \in Workers, NEW at, NEW n, job' = [job EXCEPT ![w].at = at, ![w].era = n]
    PROVE  /\ job'[w].at = at /\ job'[w].d = job[w].d /\ job'[w].attempt = job[w].attempt
           /\ job'[w].live = job[w].live /\ job'[w].res = job[w].res
           /\ \A v \in Workers \ {w} : job'[v] = job[v]
  BY Zenon DEF TJob, Jobs

LEMMA DeadlineRecord ==
    ASSUME TJob, NEW w \in Workers, Deadline(w)
    PROVE  /\ job'[w].at = job[w].at /\ job'[w].d = job[w].d /\ job'[w].attempt = job[w].attempt
           /\ job'[w].res = job[w].res
           /\ \A v \in Workers \ {w} : job'[v] = job[v]
  BY Zenon DEF Deadline, TJob, Jobs

LEMMA SetRecord ==
    ASSUME TJob, NEW w \in Workers, NEW r, job' = [job EXCEPT ![w] = r]
    PROVE  job'[w] = r /\ \A v \in Workers \ {w} : job'[v] = job[v]
  BY Zenon DEF TJob

LEMMA ClaimRecord ==
    ASSUME TJob, NEW w \in Workers, NEW d, Claim(w, d)
    PROVE  /\ job'[w].at = "lock" /\ job'[w].d = d /\ job'[w].live = TRUE /\ job'[w].res = "nil"
           /\ \A v \in Workers \ {w} : job'[v] = job[v]
  <1>1. job' = [job EXCEPT ![w] = [NoJob EXCEPT !.at = "lock", !.d = d]]
    BY Zenon DEF Claim
  <1>2. /\ [NoJob EXCEPT !.at = "lock", !.d = d].at = "lock"
        /\ [NoJob EXCEPT !.at = "lock", !.d = d].d = d
        /\ [NoJob EXCEPT !.at = "lock", !.d = d].live = TRUE
        /\ [NoJob EXCEPT !.at = "lock", !.d = d].res = "nil"
    BY DEF NoJob
  <1>3. QED
    BY <1>1, <1>2, SetRecord, Zenon

\* One job moves, and does not begin to read.
LEMMA OneSteady ==
    ASSUME Inv, NEW w \in Workers, \A v \in Workers \ {w} : job'[v] = job[v], lapses' = lapses,
           lapsed' = lapsed \/ (lapsed' = lapsed \ {w} /\ job'[w].at \notin Reading),
           job'[w].at \in Reading =>
               job[w].at \in Reading /\ job'[w].d = job[w].d /\ job'[w].attempt = job[w].attempt,
           w \in lapsed /\ job'[w].at \in Trying => job[w].at \in Trying
    PROVE  Steady
  <1>1. lapsed \subseteq Workers
    BY Zenon DEF Inv, Core, TLock
  <1>2. lapsed' \subseteq lapsed
    BY Zenon
  <1>3. ASSUME NEW v \in Workers, job'[v].at \in Reading
        PROVE  /\ job[v].at \in Reading /\ job'[v].d = job[v].d /\ job'[v].attempt = job[v].attempt
               /\ v \in lapsed => v \in lapsed'
    BY <1>3, Zenon
  <1>4. ASSUME NEW v \in lapsed, job'[v].at \in Trying PROVE job[v].at \in Trying
    BY <1>1, <1>4, Zenon
  <1>5. QED
    BY <1>2, <1>3, <1>4, Zenon DEF Steady

LEMMA SteadySame ==
    ASSUME UNCHANGED <<job, lapsed, lapses>>
    PROVE  Steady
  BY Zenon DEF Steady

\* A job outside has not lapsed.
LEMMA OutsideLapsed ==
    ASSUME Inv, NEW w \in Workers, job[w].at \in Out
    PROVE  w \notin lapsed
  BY Zenon DEF Inv, Core, Leases, Leased, Inside, Out

LEMMA JobSteady ==
    ASSUME Inv, NEW w \in Workers,
           \/ Acquire(w) \/ AcquireFails(w) \/ StartAttempt(w) \/ Load(w) \/ Guard(w) \/ Post(w)
           \/ Delivered(w) \/ AttemptFails(w) \/ failDelivery(w) \/ DeadLetter(w) \/ Requeue(w)
           \/ release(w) \/ Return(w) \/ Deadline(w) \/ Die(w)
    PROVE  Steady
  <1>1. TJob
    BY Zenon DEF Inv, Core
  <1>2. ASSUME NEW at, Go(w, at), job[w].at \in Reading, UNCHANGED lockVars PROVE Steady
    BY <1>1, <1>2, GoRecord, OneSteady, Zenon DEF lockVars, Trying
  <1>3. ASSUME NEW at \in {"release", "return"}, NEW res, lapsed' = lapsed, lapses' = lapses,
               job' = [job EXCEPT ![w].at = at, ![w].res = res]
        PROVE  Steady
    <2>1. job'[w].at \notin Trying /\ job'[w].at \notin Reading /\ \A v \in Workers \ {w} : job'[v] = job[v]
      BY <1>1, <1>3, FinishRecord, Zenon DEF Reading, Trying
    <2>2. QED
      BY <1>3, <2>1, OneSteady, Zenon
  <1>4. CASE Acquire(w)
    <2>1. Go(w, "check") /\ lapsed' = lapsed /\ lapses' = lapses /\ job[w].at = "lock"
      BY <1>4, Zenon DEF Acquire
    <2>2. w \notin lapsed
      BY <2>1, OutsideLapsed, Zenon DEF Out
    <2>3. job'[w].at \notin Reading /\ \A v \in Workers \ {w} : job'[v] = job[v]
      BY <1>1, <2>1, GoRecord, ZenonT(30) DEF Reading
    <2>4. QED
      BY <2>1, <2>2, <2>3, OneSteady, Zenon
  <1>5. CASE AcquireFails(w)
    BY <1>3, <1>5, Zenon DEF AcquireFails
  <1>6. CASE StartAttempt(w) \/ Load(w) \/ AttemptFails(w) \/ failDelivery(w)
    <2>1. job[w].at \in Reading /\ UNCHANGED lockVars
      BY <1>6, Zenon DEF StartAttempt, Load, AttemptFails, failDelivery, Reading
    <2>2. (\E at : Go(w, at)) \/ (\E res : Finish(w, res))
      BY <1>6, Zenon DEF StartAttempt, Load, AttemptFails, failDelivery, BackOff
    <2>3. QED
      BY <1>2, <1>3, <2>1, <2>2, Zenon DEF Finish, lockVars
  <1>7. CASE Guard(w)
    <2>1. job[w].at \in Reading /\ UNCHANGED lockVars
      BY <1>7, Zenon DEF Guard, Reading
    <2>2. \/ Go(w, "delivered") \/ Go(w, "failed")
          \/ job' = [job EXCEPT ![w].at = "post", ![w].era = era[job[w].d]]
      BY <1>7, Zenon DEF Guard
    <2>3. CASE job' = [job EXCEPT ![w].at = "post", ![w].era = era[job[w].d]]
      BY <1>1, <2>1, <2>3, EraRecord, OneSteady, Zenon DEF lockVars, Trying
    <2>4. QED
      BY <1>2, <2>1, <2>2, <2>3, Zenon
  <1>8. CASE Post(w)
    <2>1. job[w].at \in Reading /\ UNCHANGED lockVars /\ \E at : Go(w, at)
      BY <1>8, Zenon DEF Post, Reading
    <2>2. QED
      BY <1>2, <2>1, Zenon
  <1>9. CASE Delivered(w) \/ DeadLetter(w) \/ Requeue(w)
    <2>1. UNCHANGED lockVars /\ \E res : Finish(w, res)
      BY <1>9, Zenon DEF Delivered, DeadLetter, Requeue
    <2>2. QED
      BY <1>3, <2>1, Zenon DEF Finish, lockVars
  <1>10. CASE release(w)
    <2>1. Go(w, "return") /\ lapsed' = lapsed \ {w} /\ lapses' = lapses
      BY <1>10, Zenon DEF release
    <2>2. job'[w].at \notin Trying /\ job'[w].at \notin Reading /\ \A v \in Workers \ {w} : job'[v] = job[v]
      <3>1. job'[w].at = "return" /\ \A v \in Workers \ {w} : job'[v] = job[v]
        BY <1>1, <2>1, GoRecord, Zenon
      <3>2. "return" \notin Trying /\ "return" \notin Reading
        BY DEF Reading, Trying
      <3>3. QED
        BY <3>1, <3>2, Zenon
    <2>3. QED
      BY <2>1, <2>2, OneSteady, Zenon
  <1>11. CASE Return(w) \/ Die(w)
    <2>1. /\ job' = [job EXCEPT ![w] = NoJob] /\ lapses' = lapses
          /\ lapsed' = lapsed \/ lapsed' = lapsed \ {w}
      BY <1>11, Zenon DEF Return, Die, lockVars
    <2>2. job'[w].at \notin Trying /\ job'[w].at \notin Reading /\ \A v \in Workers \ {w} : job'[v] = job[v]
      BY <1>1, <2>1, SetRecord, NoJobType, Zenon DEF Reading, Trying
    <2>3. QED
      BY <2>1, <2>2, OneSteady, Zenon
  <1>12. CASE Deadline(w)
    BY <1>1, <1>12, DeadlineRecord, OneSteady, Zenon DEF Deadline, lockVars
  <1>13. QED
    BY <1>4, <1>5, <1>6, <1>7, <1>8, <1>9, <1>10, <1>11, <1>12, Zenon

\* The statements that do not count an attempt.
LEMMA StatementAttempts ==
    ASSUME TRow, NEW d \in Deliveries,
           \/ MarkDelivering(d) \/ MarkDelivered(d) \/ MoveToDLQ(d) \/ ResetDeliveryForReplay(d)
           \/ EnqueueDelivery(d) \/ BackoffPasses(d) \/ UNCHANGED row
    PROVE  NoHigher
  <1>1. \A x \in Deliveries : row[x].attempt \in Nat
    BY Zenon DEF TRow, Rows
  <1>2. \A x \in Deliveries : row[x].attempt <= row[x].attempt /\ 0 <= row[x].attempt
    BY <1>1
  <1>3. SUFFICES \A x \in Deliveries : row'[x] = row[x] \/ row'[x].attempt \in {row[x].attempt, 0}
    BY <1>2, Zenon DEF NoHigher
  <1>4. row \in [Deliveries -> Rows]
    BY Zenon DEF TRow
  <1>5. [NoRow EXCEPT !.status = "PENDING"].attempt = 0
    BY DEF NoRow
  <1>6. CASE MarkDelivering(d) \/ MarkDelivered(d) \/ MoveToDLQ(d)
    <2>1. CASE MarkDelivering(d)
      BY <1>4, <2>1, Zenon DEF MarkDelivering, UpdateDelivery, Rows
    <2>2. CASE MarkDelivered(d)
      BY <1>4, <2>2, Zenon DEF MarkDelivered, UpdateDelivery, Rows
    <2>3. CASE MoveToDLQ(d)
      BY <1>4, <2>3, Zenon DEF MoveToDLQ, UpdateDelivery, Rows
    <2>4. QED
      BY <1>6, <2>1, <2>2, <2>3, Zenon
  <1>7. CASE ResetDeliveryForReplay(d)
    BY <1>4, <1>7, Zenon DEF ResetDeliveryForReplay, UpdateDelivery, Rows
  <1>8. CASE EnqueueDelivery(d)
    BY <1>4, <1>5, <1>8, Zenon DEF EnqueueDelivery
  <1>9. CASE BackoffPasses(d)
    BY <1>4, <1>9, Zenon DEF BackoffPasses, Rows
  <1>10. QED
    BY <1>6, <1>7, <1>8, <1>9, Zenon

LEMMA SameRows ==
    ASSUME TRow, UNCHANGED row
    PROVE  NoHigher
  <1>1. \A x \in Deliveries : row[x].attempt \in Nat
    BY Zenon DEF TRow, Rows
  <1>2. QED
    BY <1>1 DEF NoHigher

(* A failed attempt is counted.  A job whose lock expired was astray before; *)
(* one whose lock stands had read the row.                                   *)
LEMMA BackoffCounts ==
    ASSUME Inv, Inv', Count, Steady, NEW w \in Workers, job[w].at \in {"failed", "broken"},
           ~LastAttempt(w), MarkFailedWithBackoff(job[w].d), Go(w, "requeue"), UNCHANGED lockVars
    PROVE  Count'
  <1> DEFINE n == Cardinality(Astray)
             m == Cardinality(Astray')
  <1>1. /\ IsFiniteSet(lapsed') /\ m \in Nat /\ m <= n /\ n \in Nat /\ n <= lapses
        /\ lapses' = lapses /\ lapsed' = lapsed /\ lapses \in Nat /\ MaxAttempt \in Nat
        /\ IsFiniteSet(Astray) /\ Astray' \subseteq Astray
    BY FewerAstray, CountTypes, Zenon DEF Count, lockVars
  <1>2. TJob
    BY Zenon DEF Inv, Core
  <1>3. job'[w].at = "requeue" /\ job'[w].d = job[w].d /\ \A v \in Workers \ {w} : job'[v] = job[v]
    BY <1>2, GoRecord, Zenon
  <1>4. "requeue" \notin Reading /\ "requeue" \notin Trying /\ job[w].at \in Reading /\ job[w].at \in Trying
    BY DEF Reading, Trying
  <1>5. PICK d \in Deliveries : d = job[w].d
    BY CountTypes, Zenon
  <1>6. ASSUME NEW x \in Deliveries
        PROVE  row[x].attempt \in Nat /\ row'[x].attempt \in Nat
    BY Zenon DEF Inv, TRow, Rows
  <1>7. /\ row'[d].attempt = row[d].attempt \/ row'[d].attempt = row[d].attempt + 1
        /\ \A x \in Deliveries \ {d} : row'[x] = row[x]
    <2>1. row \in [Deliveries -> Rows]
      BY Zenon DEF Inv, TRow
    <2>2. QED
      BY <1>5, <2>1, Zenon DEF MarkFailedWithBackoff, UpdateDelivery, Rows
  <1>8. w \in lapsed => m + 1 <= n
    <2>1. SUFFICES ASSUME w \in lapsed PROVE m + 1 <= n
      OBVIOUS
    <2>2. w \in Astray /\ w \notin Astray'
      BY <1>3, <1>4, <2>1, Zenon DEF Astray
    <2>3. Astray' \in SUBSET (Astray \ {w})
      BY <1>1, <2>2, Zenon
    <2>4. IsFiniteSet(Astray \ {w}) /\ Cardinality(Astray \ {w}) = n - 1
      BY <1>1, <2>2, FS_RemoveElement
    <2>5. m <= n - 1
      BY <2>3, <2>4, FS_Subset
    <2>6. QED
      BY <1>1, <2>5
  <1> HIDE DEF n, m
  <1>9. ASSUME EvalKnown, w \notin lapsed PROVE row[d].attempt + n + 1 < MaxAttempt + lapses
    <2>1. job[w].attempt \in Nat /\ row[d].attempt + n <= job[w].attempt + lapses
      BY <1>4, <1>5, <1>9, CountTypes, Zenon DEF Count, Fresh, n
    <2>2. job[w].attempt + 1 < MaxAttempt
      BY <1>1, <2>1 DEF LastAttempt
    <2>3. QED
      BY <1>1, <1>6, <2>1, <2>2
  <1>10. ASSUME EvalKnown, NEW x \in Deliveries PROVE Below(x)'
    <2>1. row[x].attempt + n < MaxAttempt + lapses
      BY <1>10, Zenon DEF Count, Below, n
    <2>2. row'[x].attempt + m < MaxAttempt + lapses'
      <3>1. CASE x # d
        BY <1>1, <1>6, <1>7, <2>1, <3>1
      <3>2. CASE x = d
        BY <1>1, <1>6, <1>7, <1>8, <1>9, <1>10, <2>1, <3>2
      <3>3. QED
        BY <3>1, <3>2, Zenon
    <2>3. QED
      BY <2>2, Zenon DEF Below, m
  <1>11. ASSUME EvalKnown, NEW v \in Workers, job'[v].at \in Reading, v \notin lapsed'
         PROVE  row'[job'[v].d].attempt + m <= job'[v].attempt + lapses'
    <2>1. v # w /\ job'[v] = job[v] /\ job[v].at \in Reading /\ v \notin lapsed
      BY <1>1, <1>3, <1>4, <1>11, Zenon
    <2>2. job[v].attempt \in Nat /\ job[v].at # "idle"
      BY <2>1, CountTypes, Zenon DEF Reading
    <2>3. PICK x \in Deliveries : x = job[v].d
      BY <2>2, CountTypes, Zenon
    <2>4. row[x].attempt + n <= job[v].attempt + lapses
      BY <1>11, <2>1, <2>3, Zenon DEF Count, Fresh, n
    <2>5. x = d => w \in lapsed
      <3>1. Inside(v) /\ Inside(w)
        BY <1>4, <2>1, Zenon DEF Inside, Reading
      <3>2. QED
        BY <1>5, <1>11, <2>1, <2>3, <3>1, Zenon DEF Inv, Core, Leases, Leased
    <2>6. row'[x].attempt + m <= job[v].attempt + lapses
      <3>1. CASE x # d
        BY <1>1, <1>6, <1>7, <2>2, <2>4, <3>1
      <3>2. CASE x = d
        BY <1>1, <1>6, <1>7, <1>8, <2>2, <2>4, <2>5, <3>2
      <3>3. QED
        BY <3>1, <3>2, Zenon
    <2>7. QED
      BY <1>1, <2>1, <2>3, <2>6, Zenon
  <1>12. m <= lapses'
    BY <1>1
  <1>13. QED
    BY <1>1, <1>10, <1>11, <1>12, Zenon DEF Count, Fresh, m

(* A job that reads the row finds no more jobs astray than lapses.           *)
LEMMA CheckCounts ==
    ASSUME Inv, Inv', Count, NEW w \in Workers, Check(w)
    PROVE  Count'
  <1>1. /\ job[w].at = "check" /\ row' = row /\ lapsed' = lapsed /\ lapses' = lapses /\ TJob /\ TRow
    BY Zenon DEF Check, lockVars, Inv, Core
  <1>2. NoHigher
    BY <1>1, SameRows, Zenon
  <1>3. "check" \in Trying /\ {"requeue", "release"} \cap Reading = {} /\ "mark" \in Reading
    BY DEF Trying, Reading
  <1>4. CASE Finish(w, "err") \/ Finish(w, "nil") \/ Go(w, "requeue")
    <2>1. job'[w].at \in {"release", "requeue"} /\ \A v \in Workers \ {w} : job'[v] = job[v]
      <3>1. CASE Go(w, "requeue")
        BY <1>1, <3>1, GoRecord, Zenon
      <3>2. ASSUME NEW res, Finish(w, res)
            PROVE  job'[w].at = "release" /\ \A v \in Workers \ {w} : job'[v] = job[v]
        <4>1. job' = [job EXCEPT ![w].at = "release", ![w].res = res]
          BY <3>2, Zenon DEF Finish
        <4>2. QED
          BY <1>1, <4>1, FinishRecord, Zenon
      <3>3. QED
        BY <1>4, <3>1, <3>2, Zenon
    <2>2. Steady
      BY <1>1, <1>3, <2>1, OneSteady, Zenon
    <2>3. QED
      BY <1>2, <2>2, CountKept, Zenon
  <1>5. CASE job' = [job EXCEPT ![w].at = "mark", ![w].attempt = row[job[w].d].attempt]
    <2> DEFINE n == Cardinality(Astray)
               a == row[job[w].d].attempt
    <2>1. /\ job'[w].at = "mark" /\ job'[w].d = job[w].d /\ job'[w].attempt = a
          /\ \A v \in Workers \ {w} : job'[v] = job[v]
      <3>1. PICK k, at : k = a /\ at = "mark"
        BY Zenon
      <3>2. job' = [job EXCEPT ![w].at = at, ![w].attempt = k] /\ TJob
        BY <1>1, <1>5, <3>1, Zenon
      <3>3. /\ job'[w].at = at /\ job'[w].d = job[w].d /\ job'[w].attempt = k
            /\ \A v \in Workers \ {w} : job'[v] = job[v]
        BY <3>2, Zenon DEF TJob, Jobs
      <3>4. QED
        BY <3>1, <3>3, Zenon
    <2>2. Astray' = Astray
      <3>1. ASSUME NEW v \in Workers PROVE job'[v].at \in Trying <=> job[v].at \in Trying
        BY <1>1, <1>3, <2>1, Zenon DEF Trying
      <3>2. lapsed \subseteq Workers
        BY Zenon DEF Inv, Core, TLock
      <3>3. QED
        BY <1>1, <3>1, <3>2, Zenon DEF Astray
    <2>3. n \in Nat /\ n <= lapses /\ lapses \in Nat /\ a \in Nat
      BY <1>1, CountTypes, Zenon DEF Count
    <2>4. a + n <= a + lapses
      BY <2>3
    <2>5. ASSUME EvalKnown, NEW v \in Workers PROVE Fresh(v)'
      <3>1. CASE v = w
        BY <1>1, <2>1, <2>2, <2>4, <3>1, Zenon DEF Fresh
      <3>2. CASE v # w
        BY <1>1, <2>1, <2>2, <2>5, <3>2, Zenon DEF Fresh, Count
      <3>3. QED
        BY <3>1, <3>2, Zenon
    <2>6. QED
      BY <1>1, <2>2, <2>5, Zenon DEF Count, Below
  <1>6. \/ Finish(w, "err") \/ Finish(w, "nil") \/ Go(w, "requeue")
        \/ job' = [job EXCEPT ![w].at = "mark", ![w].attempt = row[job[w].d].attempt]
    BY Zenon DEF Check, GetDeliveryByID
  <1>7. QED
    BY <1>4, <1>5, <1>6, Zenon

(* A lock that expires puts at most one more job astray.                     *)
LEMMA LapseCounts ==
    ASSUME Inv, Inv', Count, NEW d \in Deliveries, LockExpires(d)
    PROVE  Count'
  <1>1. row' = row /\ job' = job /\ TRow
    BY Zenon DEF LockExpires, Inv
  <1>2. CASE UNCHANGED <<lapsed, lapses>>
    BY <1>1, <1>2, SteadySame, SameRows, CountKept, Zenon
  <1>3. ASSUME NEW x, lapsed' = lapsed \union {x}, lapses' = lapses + 1
        PROVE  Count'
    <2> DEFINE n == Cardinality(Astray)
               m == Cardinality(Astray')
    <2>1. /\ IsFiniteSet(lapsed) /\ IsFiniteSet(Astray) /\ n \in Nat /\ n <= lapses /\ lapses \in Nat
          /\ MaxAttempt \in Nat /\ \A y \in Deliveries : row[y].attempt \in Nat
      BY CountTypes, Zenon DEF Count
    <2>2. IsFiniteSet(lapsed')
      BY <1>3, <2>1, FS_AddElement, Zenon
    <2>3. Astray' \in SUBSET (Astray \union {x})
      BY <1>1, <1>3, Zenon DEF Astray
    <2>4. IsFiniteSet(Astray \union {x}) /\ Cardinality(Astray \union {x}) \in Nat /\ Cardinality(Astray \union {x}) <= n + 1
      <3>1. /\ IsFiniteSet(Astray \union {x})
            /\ Cardinality(Astray \union {x}) = IF x \in Astray THEN Cardinality(Astray) ELSE Cardinality(Astray) + 1
        BY <2>1, FS_AddElement, Zenon
      <3>2. CASE x \in Astray
        BY <2>1, <3>1, <3>2
      <3>3. CASE x \notin Astray
        BY <2>1, <3>1, <3>3
      <3>4. QED
        BY <3>2, <3>3, Zenon
    <2>5. m \in Nat /\ m <= Cardinality(Astray \union {x})
      BY <2>3, <2>4, FS_Subset, FS_CardinalityType, Zenon
    <2>6. m <= n + 1
      BY <2>1, <2>4, <2>5
    <2> HIDE DEF n, m
    <2>7. ASSUME EvalKnown, NEW y \in Deliveries PROVE Below(y)'
      <3>1. row[y].attempt + n < MaxAttempt + lapses
        BY <2>7, Zenon DEF Count, Below, n
      <3>2. row[y].attempt + m < MaxAttempt + lapses'
        BY <1>3, <2>1, <2>5, <2>6, <3>1
      <3>3. QED
        BY <1>1, <3>2, Zenon DEF Below, m
    <2>8. ASSUME EvalKnown, NEW w \in Workers, job[w].at \in Reading, w \notin lapsed
          PROVE  row[job[w].d].attempt + m <= job[w].attempt + lapses'
      <3>1. job[w].attempt \in Nat /\ job[w].at # "idle"
        BY <2>8, CountTypes, Zenon DEF Reading
      <3>2. row[job[w].d].attempt \in Nat
        BY <2>1, <3>1, CountTypes, Zenon
      <3>3. row[job[w].d].attempt + n <= job[w].attempt + lapses
        BY <2>8, Zenon DEF Count, Fresh, n
      <3>4. QED
        BY <1>3, <2>1, <2>5, <2>6, <3>1, <3>2, <3>3
    <2>9. m <= lapses'
      BY <1>3, <2>1, <2>5, <2>6
    <2>10. ASSUME EvalKnown, NEW w \in Workers PROVE Fresh(w)'
      BY <1>1, <1>3, <2>8, <2>10, Zenon DEF Fresh, m
    <2>11. QED
      BY <2>2, <2>7, <2>9, <2>10, Zenon DEF Count, m
  <1>4. QED
    BY <1>2, <1>3, Zenon DEF LockExpires

LEMMA JobCounts ==
    ASSUME Inv, Inv', Count, NEW w \in Workers, JobStep(w) \/ Deadline(w) \/ Die(w)
    PROVE  Count'
  <1>1. CASE Check(w)
    BY <1>1, CheckCounts, Zenon
  <1>2. ASSUME ~Check(w) PROVE Steady
    BY <1>2, JobSteady, Zenon DEF JobStep
  <1>3. TRow /\ TJob
    BY Zenon DEF Inv, Core
  <1>4. CASE UNCHANGED row
    BY <1>1, <1>2, <1>3, <1>4, SameRows, CountKept, Zenon
  <1>5. CASE StartAttempt(w) \/ Delivered(w) \/ AttemptFails(w) \/ failDelivery(w)
    <2>1. ~Check(w) /\ job[w].at # "idle" /\ UNCHANGED lockVars
      BY <1>5, Zenon DEF Check, StartAttempt, Delivered, AttemptFails, failDelivery
    <2>2. PICK d \in Deliveries : d = job[w].d
      BY <1>3, <2>1, JobRecord, Zenon
    <2>3. CASE MarkDelivering(d) \/ MarkDelivered(d) \/ MoveToDLQ(d)
      BY <1>2, <1>3, <2>1, <2>3, StatementAttempts, CountKept, Zenon
    <2>4. CASE /\ job[w].at \in {"failed", "broken"} /\ ~LastAttempt(w)
               /\ MarkFailedWithBackoff(job[w].d) /\ Go(w, "requeue")
      BY <1>2, <2>1, <2>4, BackoffCounts, Zenon
    <2>5. \/ MarkDelivering(job[w].d) \/ MarkDelivered(job[w].d) \/ MoveToDLQ(job[w].d) \/ UNCHANGED row
          \/ /\ job[w].at \in {"failed", "broken"} /\ ~LastAttempt(w)
             /\ MarkFailedWithBackoff(job[w].d) /\ Go(w, "requeue")
      BY <1>5, Zenon DEF StartAttempt, Delivered, AttemptFails, failDelivery, BackOff
    <2>6. QED
      BY <1>4, <2>2, <2>3, <2>4, <2>5, Zenon
  <1>6. QED
    BY <1>1, <1>4, <1>5, Zenon
       DEF JobStep, Deadline, Die, Acquire, AcquireFails, Load, Guard, Post, DeadLetter, Requeue, release, Return

LEMMA InductiveCount ==
    ASSUME Inv, Inv', Count, [Next]_vars
    PROVE  Count'
  <1>1. TRow
    BY Zenon DEF Inv
  <1>2. CASE UNCHANGED <<job, lapsed, lapses, row>>
    BY <1>1, <1>2, SteadySame, SameRows, CountKept, Zenon
  <1>3. CASE UNCHANGED <<job, lapsed, lapses>> /\ NoHigher
    BY <1>3, SteadySame, CountKept, Zenon
  <1>4. CASE Admin
    <2>1. UNCHANGED <<job, lapsed, lapses>>
      BY <1>4, Zenon DEF Admin, CreateEndpoint, UpdateEndpoint, DeleteEndpoint, ReplayReset, ReplayTask,
                         ReplayDeleteDlq, ReplayUnguard, lockVars
    <2>2. ASSUME NEW p \in Endpoints, DeleteEndpoint(p) PROVE NoHigher
      <3>1. row' = [d \in Deliveries |-> IF d[1] = p THEN NoRow ELSE row[d]]
        BY <2>2, Zenon DEF DeleteEndpoint, DeleteWebhookEndpoint
      <3>2. NoRow.attempt = 0 /\ \A d \in Deliveries : row[d].attempt \in Nat
        BY <1>1, Zenon DEF TRow, Rows, NoRow
      <3>3. \A d \in Deliveries : row'[d] = row[d] \/ row'[d].attempt = 0
        BY <3>1, <3>2, Zenon
      <3>4. QED
        BY <3>2, <3>3 DEF NoHigher
    <2>3. ASSUME NEW d \in Deliveries, ReplayReset(d) PROVE NoHigher
      BY <1>1, <2>3, StatementAttempts, Zenon DEF ReplayReset
    <2>4. CASE UNCHANGED row
      BY <1>2, <2>1, <2>4, Zenon
    <2>5. QED
      BY <1>3, <1>4, <2>1, <2>2, <2>3, <2>4, Zenon
         DEF Admin, CreateEndpoint, UpdateEndpoint, ReplayTask, ReplayDeleteDlq, ReplayUnguard
  <1>5. ASSUME NEW e \in Events, EmitStep(e) \/ EmitCallFails(e) \/ EmitterDies(e)
        PROVE  Count'
    <2>1. UNCHANGED <<job, lapsed, lapses>>
      BY <1>5, EmitRows, Zenon DEF Inv, coreVars
    <2>2. ASSUME NEW p \in Endpoints, ScheduleInsert(e, p) PROVE NoHigher
      <3>1. PICK d \in Deliveries : d = <<p, e>>
        BY Zenon DEF Deliveries
      <3>2. row' = row \/ EnqueueDelivery(d)
        BY <2>2, <3>1, Zenon DEF ScheduleInsert, EnqueueDelivery
      <3>3. QED
        BY <1>1, <3>2, StatementAttempts, Zenon
    <2>3. QED
      BY <1>2, <1>3, <1>5, <2>1, <2>2, Zenon
         DEF EmitStep, EmitInsert, ScheduleList, ScheduleEnqueue, Notify, EmitCallFails, EmitterDies
  <1>6. ASSUME NEW w \in Workers, JobStep(w) \/ Deadline(w) \/ Die(w)
        PROVE  Count'
    BY <1>6, JobCounts, Zenon
  <1>7. ASSUME NEW d \in Deliveries,
               \/ BackoffPasses(d) \/ LockExpires(d) \/ GuardExpires(d) \/ DedupExpires(d)
               \/ \E w \in Workers : Claim(w, d) \/ Redeliver(d, w)
        PROVE  Count'
    <2>1. CASE LockExpires(d)
      BY <2>1, LapseCounts, Zenon
    <2>2. CASE BackoffPasses(d)
      BY <1>1, <1>3, <2>2, StatementAttempts, Zenon DEF BackoffPasses, lockVars
    <2>3. ASSUME NEW w \in Workers, Claim(w, d) PROVE Count'
      <3>1. row' = row /\ lapsed' = lapsed /\ lapses' = lapses /\ TJob
        BY <2>3, Zenon DEF Claim, lockVars, Inv, Core
      <3>2. job'[w].at = "lock" /\ \A v \in Workers \ {w} : job'[v] = job[v]
        BY <2>3, <3>1, ClaimRecord, Zenon
      <3>3. "lock" \notin Reading /\ "lock" \notin Trying
        BY DEF Reading, Trying
      <3>4. Steady
        BY <3>1, <3>2, <3>3, OneSteady, Zenon
      <3>5. QED
        BY <1>1, <3>1, <3>4, SameRows, CountKept, Zenon
    <2>4. QED
      BY <1>2, <1>7, <2>1, <2>2, <2>3, Zenon DEF GuardExpires, DedupExpires, Redeliver, lockVars
  <1>8. CASE UNCHANGED vars
    BY <1>2, <1>8, Zenon DEF vars, lockVars
  <1>9. QED
    BY <1>4, <1>5, <1>6, <1>7, <1>8, Zenon DEF Next

LEMMA InitCount ==
    ASSUME Init
    PROVE  Count
  <1>1. lapsed = {} /\ lapses = 0 /\ Astray = {}
    BY Zenon DEF Init, Astray
  <1>2. IsFiniteSet({}) /\ Cardinality({}) = 0
    BY FS_EmptySet, Zenon
  <1>3. \A d \in Deliveries : row[d].attempt = 0
    BY Zenon DEF Init, NoRow
  <1>4. \A w \in Workers : job[w].at = "idle"
    BY NoJobType, Zenon DEF Init
  <1>5. 0 < MaxAttempt /\ MaxAttempt \in Nat
    BY DeliveryConstants DEF MaxAttempt
  <1>6. \A d \in Deliveries : Below(d)
    BY <1>1, <1>2, <1>3, <1>5 DEF Below
  <1>7. \A w \in Workers : Fresh(w)
    BY <1>4, Zenon DEF Fresh, Reading
  <1>8. Cardinality(Astray) <= lapses
    BY <1>1, <1>2
  <1>9. QED
    BY <1>1, <1>2, <1>6, <1>7, <1>8, Zenon DEF Count

(* Against a Redis that knows EVAL, a delivery is attempted fewer times than *)
(* its maximum, plus once for every lock that expired under its job,         *)
(* whatever is redelivered, dies or is replayed (webhook.go:174).            *)
THEOREM AttemptsStayBounded == Spec => []AttemptsBounded
  <1>1. Inv /\ Count => AttemptsBounded
    <2>1. SUFFICES ASSUME Inv, Count, EvalKnown, NEW d \in Deliveries
                   PROVE  row[d].attempt < MaxAttempt + lapses
      BY Zenon DEF AttemptsBounded
    <2>2. row[d].attempt + Cardinality(Astray) < MaxAttempt + lapses
      BY <2>1, Zenon DEF Count, Below
    <2>3. row[d].attempt \in Nat /\ Cardinality(Astray) \in Nat /\ MaxAttempt \in Nat /\ lapses \in Nat
      BY <2>1, CountTypes, Zenon
    <2>4. QED
      BY <2>2, <2>3
  <1>2. Init => Inv /\ Count
    BY Initially, InitCount, Zenon
  <1>3. Inv /\ Count /\ [Next]_vars => Inv' /\ Count'
    BY Inductive, InductiveCount, Zenon
  <1>4. QED
    BY <1>1, <1>2, <1>3, PTL DEF Spec


----------------------------------------------------------------------------
(***************************************************************************)
(* Scheduling.  Until something fails, a delivery that exists has one task *)
(* at most, queued or in the hands of one job; before Emit has come to it  *)
(* it has none, so that the deduplication key is free when Emit enqueues;  *)
(* and a lock is held by a job inside.                                     *)
(***************************************************************************)
EmitType == [at : {"none", "list", "insert", "enqueue", "notify", "done"},
             todo : SUBSET Endpoints, now : Endpoints \union {None}]

Busy(w, d) == job[w].at # "idle" /\ job[w].d = d

Unseen(d) ==
    \/ emit[d[2]].at \in {"none", "list"} \/ d[1] \in emit[d[2]].todo
    \/ emit[d[2]].at = "enqueue" /\ emit[d[2]].now = d[1]

Untouched(d) ==
    /\ d \notin queued /\ d \notin dedup /\ d \notin dead
    /\ \A w \in Workers : <<d, w>> \notin claimed /\ ~Busy(w, d)

Settled(d) == row[d].status \in {"DELIVERED", "DLQ"} \/ ~row[d].due => row[d].tried

Handled(d) ==
    /\ d \notin dead
    /\ d \in queued => d \in dedup /\ \A w \in Workers : ~Busy(w, d)
    /\ \A w \in Workers :
          /\ <<d, w>> \in claimed => Busy(w, d)
          /\ Busy(w, d) => /\ d \in dedup /\ job[w].live /\ job[w].res = "nil"
                           /\ job[w].at \notin {"lock", "check", "mark"} => row[d].tried
                           /\ \A v \in Workers : Busy(v, d) => v = w
    /\ Settled(d)
    /\ ~row[d].tried => InHand(d)

Locked(d) == lock[d] # None => Inside(lock[d]) /\ job[lock[d]].d = d

One(d) == (Unseen(d) => Untouched(d)) /\ (Exists(d) => Handled(d)) /\ Locked(d)

Emits ==
    /\ emit \in [Events -> EmitType]
    /\ \A e \in Events : emit[e].at = "enqueue" =>
          emit[e].now \in Endpoints /\ emit[e].now \notin emit[e].todo

Tasks == Emits /\ \A d \in Deliveries : One(d)

\* A step that touches one delivery only.
SameTask(x) ==
    /\ (x \in queued' <=> x \in queued) /\ (x \in dedup' <=> x \in dedup) /\ (x \in dead' <=> x \in dead)
    /\ \A v \in Workers : (<<x, v>> \in claimed' <=> <<x, v>> \in claimed)

Touches(d) ==
    /\ emit' = emit
    /\ \A x \in Deliveries \ {d} : SameTask(x) /\ row'[x] = row[x] /\ lock'[x] = lock[x]
    /\ \A v \in Workers :
          \/ job'[v] = job[v]
          \/ (job[v].at = "idle" \/ job[v].d = d) /\ (job'[v].at = "idle" \/ job'[v].d = d)

LEMMA Elsewhere ==
    ASSUME Inv, Tasks, NEW d \in Deliveries, Touches(d), One(d)'
    PROVE  Tasks'
  <1>1. Emits'
    BY Zenon DEF Tasks, Emits, Touches
  <1>2. ASSUME NEW x \in Deliveries, x # d PROVE One(x)'
    <2>1. SameTask(x) /\ row'[x] = row[x] /\ lock'[x] = lock[x] /\ emit' = emit /\ One(x)
      BY <1>2, Zenon DEF Touches, Tasks
    <2>2. ASSUME NEW v \in Workers
          PROVE  (Busy(v, x)' <=> Busy(v, x)) /\ (Busy(v, x) => job'[v] = job[v])
      <3>1. CASE job'[v] = job[v]
        BY <3>1, Zenon DEF Busy
      <3>2. CASE (job[v].at = "idle" \/ job[v].d = d) /\ (job'[v].at = "idle" \/ job'[v].d = d)
        BY <1>2, <3>2, Zenon DEF Busy
      <3>3. QED
        BY <3>1, <3>2, Zenon DEF Touches
    <2>3. Unseen(x)' = Unseen(x) /\ Exists(x)' = Exists(x)
      BY <2>1, Zenon DEF Unseen, Exists
    <2>4. Untouched(x) => Untouched(x)'
      BY <2>1, <2>2, Zenon DEF Untouched, SameTask
    <2>5. InHand(x) => InHand(x)'
      BY <2>1, <2>2, Zenon DEF InHand, SameTask, Busy
    <2>6. Handled(x) => Handled(x)'
      <3>1. SUFFICES ASSUME Handled(x) PROVE Handled(x)'
        BY Zenon
      <3>2. ASSUME NEW w \in Workers, Busy(w, x)'
            PROVE  /\ x \in dedup' /\ job'[w].live /\ job'[w].res = "nil"
                   /\ job'[w].at \notin {"lock", "check", "mark"} => row'[x].tried
                   /\ \A v \in Workers : Busy(v, x)' => v = w
        BY <2>1, <2>2, <3>1, <3>2, Zenon DEF Handled, SameTask
      <3>3. Settled(x)' /\ x \notin dead'
        BY <2>1, <3>1, Zenon DEF Handled, SameTask, Settled
      <3>4. x \in queued' => x \in dedup' /\ \A w \in Workers : ~Busy(w, x)'
        BY <2>1, <2>2, <3>1, Zenon DEF Handled, SameTask
      <3>5. \A w \in Workers : <<x, w>> \in claimed' => Busy(w, x)'
        BY <2>1, <2>2, <3>1, Zenon DEF Handled, SameTask
      <3>6. ~row'[x].tried => InHand(x)'
        BY <2>1, <2>5, <3>1, Zenon DEF Handled
      <3>7. QED
        BY <3>2, <3>3, <3>4, <3>5, <3>6, Zenon DEF Handled
    <2>7. Locked(x)'
      <3>1. lock[x] \in Workers \union {None}
        BY Zenon DEF Inv, Core, TLock
      <3>2. CASE lock[x] = None
        BY <2>1, <3>2, Zenon DEF Locked
      <3>3. CASE lock[x] # None
        <4>1. PICK v \in Workers : v = lock[x]
          BY <3>1, <3>3, Zenon
        <4>2. Inside(v) /\ job[v].d = x
          BY <2>1, <3>3, <4>1, Zenon DEF One, Locked
        <4>3. job'[v] = job[v]
          BY <2>2, <4>2, Zenon DEF Busy, Inside
        <4>4. QED
          BY <2>1, <4>1, <4>2, <4>3, Zenon DEF Locked, Inside
      <3>4. QED
        BY <3>2, <3>3, Zenon
    <2>8. QED
      BY <2>1, <2>3, <2>4, <2>6, <2>7, Zenon DEF One
  <1>3. QED
    BY <1>1, <1>2, Zenon DEF Tasks

\* A job that goes on with its delivery.
LEMMA GoesOn ==
    ASSUME Inv, Tasks, NEW w \in Workers, NEW d \in Deliveries, Busy(w, d), Busy(w, d)',
           \A v \in Workers \ {w} : job'[v] = job[v], emit' = emit,
           \A x \in Deliveries \ {d} : SameTask(x) /\ row'[x] = row[x] /\ lock'[x] = lock[x],
           Locked(d)',
           Exists(d)' => /\ Exists(d) /\ SameTask(d) /\ job'[w].live /\ job'[w].res = "nil"
                         /\ job'[w].at \notin {"lock", "check", "mark"} => row'[d].tried
                         /\ Settled(d)'
    PROVE  Tasks'
  <1>1. Touches(d)
    BY Zenon DEF Touches, Busy
  <1>2. ~Unseen(d)' /\ One(d)
    BY Zenon DEF Tasks, One, Unseen, Untouched
  <1>3. ASSUME NEW v \in Workers PROVE Busy(v, d)' <=> Busy(v, d)
    <2>1. CASE v = w
      BY <2>1, Zenon
    <2>2. CASE v # w
      BY <2>2, Zenon DEF Busy
    <2>3. QED
      BY <2>1, <2>2, Zenon
  <1>4. ASSUME Exists(d)' PROVE Handled(d)'
    <2>1. /\ Handled(d) /\ SameTask(d) /\ job'[w].live /\ job'[w].res = "nil"
          /\ job'[w].at \notin {"lock", "check", "mark"} => row'[d].tried
          /\ Settled(d)'
      BY <1>2, <1>4, Zenon DEF One
    <2>2. \A v \in Workers : Busy(v, d) => v = w
      BY <2>1, Zenon DEF Handled
    <2>3. d \in dedup' /\ d \notin dead' /\ d \notin queued'
      BY <2>1, Zenon DEF Handled, SameTask
    <2>4. \A v \in Workers : <<d, v>> \in claimed' => Busy(v, d)'
      BY <1>3, <2>1, Zenon DEF Handled, SameTask
    <2>5. \A v \in Workers : Busy(v, d)' => v = w
      BY <1>3, <2>2, Zenon
    <2>6. InHand(d)'
      BY Zenon DEF InHand, Busy
    <2>7. ASSUME NEW v \in Workers, Busy(v, d)'
          PROVE  /\ d \in dedup' /\ job'[v].live /\ job'[v].res = "nil"
                 /\ job'[v].at \notin {"lock", "check", "mark"} => row'[d].tried
                 /\ \A u \in Workers : Busy(u, d)' => u = v
      BY <2>1, <2>3, <2>5, <2>7, Zenon
    <2>8. QED
      BY <2>1, <2>3, <2>4, <2>6, <2>7, Zenon DEF Handled
  <1>5. One(d)'
    BY <1>2, <1>4, Zenon DEF One
  <1>6. QED
    BY <1>1, <1>5, Elsewhere, Zenon

\* Until something fails, the calls for a delivery that exists work.
LEMMA Alive ==
    ASSUME Tasks, ~Trouble, NEW w \in Workers, NEW d \in Deliveries, Busy(w, d), Exists(d)
    PROVE  /\ job[w].live /\ job[w].res = "nil" /\ ~Fails(w) /\ d \in dedup /\ d \notin queued
           /\ job[w].at \notin {"lock", "check", "mark"} => row[d].tried
           /\ \A v \in Workers : Busy(v, d) => v = w
           /\ Settled(d) /\ d \notin dead
  <1>1. Handled(d)
    BY Zenon DEF Tasks, One
  <1>2. QED
    BY <1>1, Zenon DEF Handled, Fails

LEMMA LockStays ==
    ASSUME Tasks, Inv, NEW w \in Workers, NEW d \in Deliveries, Busy(w, d), Busy(w, d)',
           \A v \in Workers \ {w} : job'[v] = job[v], lock' = lock, Inside(w) => Inside(w)'
    PROVE  Locked(d)'
  <1>1. CASE lock[d] = None
    BY <1>1, Zenon DEF Locked
  <1>2. CASE lock[d] # None
    <2>1. PICK v \in Workers : v = lock[d]
      BY <1>2, Zenon DEF Inv, Core, TLock
    <2>2. Inside(v) /\ job[v].d = d
      BY <1>2, <2>1, Zenon DEF Tasks, One, Locked
    <2>3. Inside(v)' /\ job'[v].d = d
      <3>1. CASE v = w
        BY <2>2, <3>1, Zenon DEF Busy
      <3>2. CASE v # w
        BY <2>2, <3>2, Zenon DEF Inside
      <3>3. QED
        BY <3>1, <3>2, Zenon
    <2>4. QED
      BY <2>1, <2>3, Zenon DEF Locked
  <1>3. QED
    BY <1>1, <1>2, Zenon

\* What the statements do to the columns that decide.
LEMMA StatementTried ==
    ASSUME TRow, NEW d \in Deliveries,
           \/ MarkDelivering(d) \/ MarkDelivered(d) \/ MarkFailedWithBackoff(d) \/ MoveToDLQ(d)
           \/ UNCHANGED row
    PROVE  /\ \A x \in Deliveries \ {d} : row'[x] = row[x]
           /\ Exists(d)' = Exists(d)
           /\ row[d].tried => row'[d].tried
           /\ MarkDelivering(d) /\ Exists(d) => row'[d].tried
  <1>1. row \in [Deliveries -> Rows] /\ row[d] \in Rows
    BY Zenon DEF TRow
  <1>2. CASE UNCHANGED row /\ ~(MarkDelivering(d) /\ Exists(d))
    BY <1>2, Zenon DEF Exists
  <1>4. CASE Exists(d) /\ MarkDelivering(d)
    <2>1. row' = [row EXCEPT ![d] = [row[d] EXCEPT !.status = "DELIVERING", !.tried = TRUE]]
      BY <1>4, Zenon DEF MarkDelivering, UpdateDelivery
    <2>2. row'[d].tried /\ row'[d].status = "DELIVERING" /\ \A x \in Deliveries \ {d} : row'[x] = row[x]
      BY <1>1, <2>1, Zenon DEF Rows
    <2>3. QED
      BY <1>4, <2>2, Zenon DEF Exists
  <1>5. CASE Exists(d) /\ ~MarkDelivering(d) /\ MarkDelivered(d)
    <2>1. row' = [row EXCEPT ![d] = [row[d] EXCEPT !.status = "DELIVERED", !.due = TRUE]]
      BY <1>5, Zenon DEF MarkDelivered, UpdateDelivery
    <2>2. /\ row'[d].tried = row[d].tried /\ row'[d].status = "DELIVERED"
          /\ \A x \in Deliveries \ {d} : row'[x] = row[x]
      BY <1>1, <2>1, Zenon DEF Rows
    <2>3. QED
      BY <1>5, <2>2, Zenon DEF Exists
  <1>6. CASE Exists(d) /\ ~MarkDelivering(d) /\ MarkFailedWithBackoff(d)
    <2>1. row' = [row EXCEPT ![d] = [row[d] EXCEPT !.status = "FAILED", !.attempt = @ + 1, !.due = FALSE]]
      BY <1>6, Zenon DEF MarkFailedWithBackoff, UpdateDelivery
    <2>2. /\ row'[d].tried = row[d].tried /\ row'[d].status = "FAILED"
          /\ \A x \in Deliveries \ {d} : row'[x] = row[x]
      BY <1>1, <2>1, Zenon DEF Rows
    <2>3. QED
      BY <1>6, <2>2, Zenon DEF Exists
  <1>7. CASE Exists(d) /\ ~MarkDelivering(d) /\ MoveToDLQ(d)
    <2>1. row' = [row EXCEPT ![d] = [row[d] EXCEPT !.status = "DLQ", !.due = TRUE]]
      BY <1>7, Zenon DEF MoveToDLQ, UpdateDelivery
    <2>2. /\ row'[d].tried = row[d].tried /\ row'[d].status = "DLQ"
          /\ \A x \in Deliveries \ {d} : row'[x] = row[x]
      BY <1>1, <2>1, Zenon DEF Rows
    <2>3. QED
      BY <1>7, <2>2, Zenon DEF Exists
  <1>8. CASE ~Exists(d)
    <2>1. row' = row
      BY <1>8, Zenon DEF MarkDelivering, MarkDelivered, MarkFailedWithBackoff, MoveToDLQ, UpdateDelivery
    <2>2. QED
      BY <1>8, <2>1, Zenon DEF Exists
  <1>9. QED
    BY <1>2, <1>4, <1>5, <1>6, <1>7, <1>8, Zenon

LEMMA ResetTried ==
    ASSUME TRow, NEW d \in Deliveries, Exists(d), ResetDeliveryForReplay(d) \/ BackoffPasses(d)
    PROVE  /\ \A x \in Deliveries \ {d} : row'[x] = row[x]
           /\ row'[d].tried = row[d].tried
           /\ Settled(d) => Settled(d)'
  <1>1. row \in [Deliveries -> Rows] /\ row[d] \in Rows
    BY Zenon DEF TRow
  <1>2. CASE ResetDeliveryForReplay(d)
    <2>1. row' = [row EXCEPT ![d] = [row[d] EXCEPT !.status = "PENDING", !.attempt = 0, !.due = TRUE]]
      BY <1>2, Zenon DEF ResetDeliveryForReplay, UpdateDelivery
    <2>2. /\ row'[d].tried = row[d].tried /\ row'[d].status = "PENDING" /\ row'[d].due
          /\ \A x \in Deliveries \ {d} : row'[x] = row[x]
      BY <1>1, <2>1, Zenon DEF Rows
    <2>3. QED
      BY <2>2, Zenon DEF Settled
  <1>3. CASE BackoffPasses(d)
    <2>1. row' = [row EXCEPT ![d].due = TRUE]
      BY <1>3, Zenon DEF BackoffPasses
    <2>2. /\ row'[d].tried = row[d].tried /\ row'[d].status = row[d].status /\ row'[d].due
          /\ \A x \in Deliveries \ {d} : row'[x] = row[x]
      BY <1>1, <2>1, Zenon DEF Rows
    <2>3. QED
      BY <2>2, Zenon DEF Settled
  <1>4. QED
    BY <1>2, <1>3, Zenon

\* The steps of a job that has the lock, but for those that use the queue.
Indoors(w) ==
    \/ Check(w) \/ StartAttempt(w) \/ Load(w) \/ Guard(w) \/ Post(w) \/ Delivered(w)
    \/ AttemptFails(w) \/ failDelivery(w) \/ DeadLetter(w)

Rooms == Work \union {"post"}

\* The record of a job after such a step.
Walks(w) ==
    /\ job'[w].at \in Rooms /\ job'[w].d = job[w].d /\ job'[w].live = job[w].live
    /\ \A v \in Workers \ {w} : job'[v] = job[v]

LEMMA Walking ==
    ASSUME TJob, NEW w \in Workers
    PROVE  /\ \A at \in Rooms : Go(w, at) => Walks(w) /\ job'[w].at = at /\ job'[w].res = job[w].res
           /\ \A res : Finish(w, res) => Walks(w) /\ job'[w].res = res
           /\ \A n : job' = [job EXCEPT ![w].at = "post", ![w].era = n] =>
                 Walks(w) /\ job'[w].res = job[w].res
           /\ \A n : job' = [job EXCEPT ![w].at = "mark", ![w].attempt = n] =>
                 Walks(w) /\ job'[w].at = "mark" /\ job'[w].res = job[w].res
  <1>1. "release" \in Rooms /\ "post" \in Rooms /\ "mark" \in Rooms
    BY Zenon DEF Rooms, Work
  <1>2. ASSUME NEW at \in Rooms, Go(w, at)
        PROVE  Walks(w) /\ job'[w].at = at /\ job'[w].res = job[w].res
    BY <1>2, GoRecord, Zenon DEF Walks
  <1>3. ASSUME NEW res, Finish(w, res) PROVE Walks(w) /\ job'[w].res = res
    <2>1. job' = [job EXCEPT ![w].at = "release", ![w].res = res]
      BY <1>3, Zenon DEF Finish
    <2>2. /\ job'[w].at = "release" /\ job'[w].d = job[w].d /\ job'[w].live = job[w].live
          /\ job'[w].res = res /\ \A v \in Workers \ {w} : job'[v] = job[v]
      BY <2>1, Zenon DEF TJob, Jobs
    <2>3. QED
      BY <1>1, <2>2, Zenon DEF Walks
  <1>4. ASSUME NEW n, job' = [job EXCEPT ![w].at = "post", ![w].era = n]
        PROVE  Walks(w) /\ job'[w].res = job[w].res
    BY <1>1, <1>4, EraRecord, ZenonT(30) DEF Walks
  <1>5. ASSUME NEW n, job' = [job EXCEPT ![w].at = "mark", ![w].attempt = n]
        PROVE  Walks(w) /\ job'[w].at = "mark" /\ job'[w].res = job[w].res
    <2>1. /\ job'[w].at = "mark" /\ job'[w].d = job[w].d /\ job'[w].live = job[w].live
          /\ job'[w].res = job[w].res /\ \A v \in Workers \ {w} : job'[v] = job[v]
      BY <1>5, Zenon DEF TJob, Jobs
    <2>2. QED
      BY <1>1, <2>1, Zenon DEF Walks
  <1>6. QED
    BY <1>2, <1>3, <1>4, <1>5, Zenon

\* Until something fails, the row of a delivery that exists has been marked
\* as tried when the job leaves the first two checks.
LEMMA IndoorsTried ==
    ASSUME Inv, Tasks, ~Trouble, NEW w \in Workers, Indoors(w), NEW d \in Deliveries, d = job[w].d
    PROVE  /\ Walks(w)
           /\ \/ MarkDelivering(d) \/ MarkDelivered(d) \/ MarkFailedWithBackoff(d) \/ MoveToDLQ(d)
              \/ UNCHANGED row
           /\ Exists(d) => /\ job'[w].res = "nil"
                           /\ row[d].tried \/ MarkDelivering(d) \/ (row' = row /\ job'[w].at = "mark")
  <1>1. TJob /\ TRow
    BY Zenon DEF Inv, Core
  <1>2. {"mark", "load", "guard", "delivered", "failed", "broken", "dlq", "requeue", "release"} \subseteq Rooms
    BY Zenon DEF Rooms, Work
  <1>3. job[w].at \in Rooms /\ Busy(w, d)
    BY Zenon DEF Indoors, Check, StartAttempt, Load, Guard, Post, Delivered, AttemptFails, failDelivery,
                 DeadLetter, Rooms, Work, Busy
  <1>4. ASSUME Exists(d)
        PROVE  /\ job[w].res = "nil" /\ ~Fails(w) /\ Settled(d)
               /\ job[w].at \notin {"lock", "check", "mark"} => row[d].tried
    BY <1>3, <1>4, Alive, Zenon
  <1>5. CASE Check(w)
    <2>1. row' = row
      BY <1>5, Zenon DEF Check
    <2>2. CASE Fails(w) /\ Finish(w, "err")
      BY <1>1, <1>4, <2>1, <2>2, Walking, Zenon
    <2>3. CASE row[d].status = "none" /\ Finish(w, "err")
      BY <1>1, <2>1, <2>3, Walking, Zenon DEF Exists
    <2>4. CASE row[d].status \in {"DELIVERED", "DLQ"} /\ Finish(w, "nil")
      BY <1>1, <1>4, <2>1, <2>4, Walking, Zenon DEF Settled
    <2>5. CASE ~row[d].due /\ Go(w, "requeue")
      BY <1>1, <1>2, <1>4, <2>1, <2>5, Walking, Zenon DEF Settled
    <2>6. CASE job' = [job EXCEPT ![w].at = "mark", ![w].attempt = row[d].attempt]
      BY <1>1, <1>4, <2>1, <2>6, Walking, Zenon
    <2>7. QED
      <3>1. \/ Fails(w) /\ Finish(w, "err")
            \/ CASE row[d].status = "none" -> Finish(w, "err")
                 [] row[d].status \in {"DELIVERED", "DLQ"} -> Finish(w, "nil")
                 [] row[d].status \notin {"none", "DELIVERED", "DLQ"} /\ ~row[d].due -> Go(w, "requeue")
                 [] OTHER -> job' = [job EXCEPT ![w].at = "mark", ![w].attempt = row[d].attempt]
        BY <1>5, Zenon DEF Check, GetDeliveryByID
      <3>2. \/ Fails(w) /\ Finish(w, "err")
            \/ row[d].status = "none" /\ Finish(w, "err")
            \/ row[d].status \in {"DELIVERED", "DLQ"} /\ Finish(w, "nil")
            \/ ~row[d].due /\ Go(w, "requeue")
            \/ job' = [job EXCEPT ![w].at = "mark", ![w].attempt = row[d].attempt]
        BY <3>1, Zenon
      <3>3. QED
        BY <2>2, <2>3, <2>4, <2>5, <2>6, <3>2, Zenon
  <1>6. CASE StartAttempt(w)
    <2>1. CASE Works(w) /\ MarkDelivering(d) /\ Go(w, "load")
      BY <1>1, <1>2, <1>4, <2>1, Walking, Zenon
    <2>2. CASE Fails(w) /\ Finish(w, "err") /\ UNCHANGED row
      BY <1>1, <1>4, <2>2, Walking, Zenon
    <2>3. QED
      BY <1>6, <2>1, <2>2, Zenon DEF StartAttempt
  <1>7. CASE Load(w) \/ Guard(w) \/ Post(w)
    <2>1. row' = row /\ (Exists(d) => row[d].tried)
      BY <1>4, <1>7, Zenon DEF Load, Guard, Post
    <2>2. Walks(w) /\ job'[w].res = job[w].res
      <3>1. CASE Load(w)
        BY <1>1, <1>2, <3>1, Walking, Zenon DEF Load
      <3>2. CASE Guard(w)
        BY <1>1, <1>2, <3>2, Walking, Zenon DEF Guard
      <3>3. CASE Post(w)
        BY <1>1, <1>2, <3>3, Walking, Zenon DEF Post
      <3>4. QED
        BY <1>7, <3>1, <3>2, <3>3, Zenon
    <2>3. QED
      BY <1>4, <2>1, <2>2, Zenon
  <1>8. CASE Delivered(w) \/ AttemptFails(w) \/ failDelivery(w) \/ DeadLetter(w)
    <2>1. job[w].at \in {"delivered", "failed", "broken", "dlq"}
      BY <1>8, Zenon DEF Delivered, AttemptFails, failDelivery, DeadLetter
    <2>2. Exists(d) => row[d].tried
      BY <1>4, <2>1, Zenon
    <2>3. \/ MarkDelivered(d) \/ MarkFailedWithBackoff(d) \/ MoveToDLQ(d) \/ UNCHANGED row
      BY <1>8, Zenon DEF Delivered, AttemptFails, failDelivery, DeadLetter, BackOff
    <2>4. Finish(w, "nil") \/ (Fails(w) /\ Finish(w, "err")) \/ Go(w, "requeue") \/ Go(w, "dlq")
      BY <1>8, Zenon DEF Delivered, AttemptFails, failDelivery, DeadLetter, BackOff
    <2>5. Walks(w) /\ (Exists(d) => job'[w].res = "nil")
      BY <1>1, <1>2, <1>4, <2>4, Walking, Zenon
    <2>6. QED
      BY <2>2, <2>3, <2>5, Zenon
  <1>9. QED
    BY <1>5, <1>6, <1>7, <1>8, Zenon DEF Indoors

LEMMA IndoorsTasks ==
    ASSUME Inv, Tasks, ~Trouble, NEW w \in Workers, Indoors(w)
    PROVE  Tasks'
  <1>1. TJob /\ TRow
    BY Zenon DEF Inv, Core
  <1>2. job[w].at \in Rooms
    BY Zenon DEF Indoors, Check, StartAttempt, Load, Guard, Post, Delivered, AttemptFails, failDelivery,
                 DeadLetter, Rooms, Work
  <1>3. \A r \in Rooms : r \notin {"idle", "lock", "return"}
    BY Zenon DEF Rooms, Work
  <1>4. PICK d \in Deliveries : d = job[w].d
    BY <1>1, <1>2, <1>3, JobRecord, Zenon
  <1>5. /\ emit' = emit /\ lock' = lock
        /\ queued' = queued /\ claimed' = claimed /\ dedup' = dedup /\ dead' = dead
    BY Zenon DEF Indoors, Check, StartAttempt, Load, Guard, Post, Delivered, AttemptFails, failDelivery,
                 DeadLetter, busVars, queueVars, lockVars
  <1>6. /\ Walks(w)
        /\ \/ MarkDelivering(d) \/ MarkDelivered(d) \/ MarkFailedWithBackoff(d) \/ MoveToDLQ(d)
           \/ UNCHANGED row
        /\ Exists(d) => /\ job'[w].res = "nil"
                        /\ row[d].tried \/ MarkDelivering(d) \/ (row' = row /\ job'[w].at = "mark")
    BY <1>4, IndoorsTried, Zenon
  <1>7. /\ \A x \in Deliveries \ {d} : row'[x] = row[x]
        /\ Exists(d)' = Exists(d)
        /\ row[d].tried => row'[d].tried
        /\ MarkDelivering(d) /\ Exists(d) => row'[d].tried
    BY <1>1, <1>6, StatementTried, Zenon
  <1>8. Busy(w, d) /\ Busy(w, d)' /\ Inside(w)' /\ \A v \in Workers \ {w} : job'[v] = job[v]
    BY <1>2, <1>3, <1>4, <1>6, Zenon DEF Busy, Walks, Inside
  <1>9. Locked(d)'
    BY <1>5, <1>8, LockStays, Zenon
  <1>10. ASSUME NEW x \in Deliveries PROVE SameTask(x)
    BY <1>5, Zenon DEF SameTask
  <1>11. ASSUME Exists(d)'
         PROVE  /\ Exists(d) /\ job'[w].live /\ job'[w].res = "nil"
                /\ job'[w].at \notin {"lock", "check", "mark"} => row'[d].tried
                /\ Settled(d)'
    <2>1. Exists(d) /\ job[w].live /\ Settled(d)
      BY <1>7, <1>8, <1>11, Alive, Zenon
    <2>2. job'[w].live /\ job'[w].res = "nil"
      BY <1>6, <2>1, Zenon DEF Walks
    <2>3. row'[d].tried \/ (row' = row /\ job'[w].at = "mark")
      BY <1>6, <1>7, <2>1, Zenon
    <2>4. QED
      BY <2>1, <2>2, <2>3, Zenon DEF Settled
  <1>12. QED
    BY <1>5, <1>7, <1>8, <1>9, <1>10, <1>11, GoesOn, Zenon

LEMMA RequeueTasks ==
    ASSUME Inv, Tasks, ~Trouble, NEW w \in Workers, Requeue(w)
    PROVE  Tasks'
  <1>1. TJob /\ TRow
    BY Zenon DEF Inv, Core
  <1>2. job[w].at = "requeue"
    BY Zenon DEF Requeue
  <1>3. PICK d \in Deliveries : d = job[w].d
    BY <1>1, <1>2, JobRecord, Zenon
  <1>4. emit' = emit /\ lock' = lock /\ row' = row /\ claimed' = claimed /\ dead' = dead
    BY Zenon DEF Requeue, busVars, lockVars
  <1>5. \/ Works(w) /\ Enqueue(d) /\ Finish(w, "nil")
        \/ Fails(w) /\ EnqueueFails(d) /\ Finish(w, "err")
    BY <1>3, Zenon DEF Requeue
  <1>6. Walks(w) /\ (Finish(w, "nil") => job'[w].res = "nil")
    BY <1>1, <1>5, Walking, Zenon
  <1>7. Busy(w, d) /\ Busy(w, d)' /\ Inside(w)' /\ \A v \in Workers \ {w} : job'[v] = job[v]
    <2>1. job'[w].at \notin {"idle", "lock", "return"}
      BY <1>6, Zenon DEF Walks, Rooms, Work
    <2>2. QED
      BY <1>2, <1>3, <1>6, <2>1, Zenon DEF Busy, Walks, Inside
  <1>8. Locked(d)'
    BY <1>4, <1>7, LockStays, Zenon
  <1>9. ASSUME NEW x \in Deliveries, x # d PROVE SameTask(x)
    <2>1. (x \in dedup' <=> x \in dedup) /\ (x \in queued' <=> x \in queued)
      BY <1>5, <1>9, Zenon DEF Enqueue, EnqueueFails
    <2>2. QED
      BY <1>4, <2>1, Zenon DEF SameTask
  <1>10. ASSUME Exists(d)'
         PROVE  /\ Exists(d) /\ SameTask(d) /\ job'[w].live /\ job'[w].res = "nil"
                /\ job'[w].at \notin {"lock", "check", "mark"} => row'[d].tried
                /\ Settled(d)'
    <2>1. Exists(d)
      BY <1>4, <1>10, Zenon DEF Exists
    <2>2. job[w].live /\ ~Fails(w) /\ d \in dedup /\ row[d].tried /\ Settled(d)
      BY <1>2, <1>7, <2>1, Alive, Zenon
    <2>3. dedup' = dedup /\ queued' = queued /\ job'[w].res = "nil"
      BY <1>5, <1>6, <2>2, Zenon DEF Enqueue
    <2>4. SameTask(d)
      BY <1>4, <2>3, Zenon DEF SameTask
    <2>5. QED
      BY <1>4, <1>6, <2>1, <2>2, <2>3, <2>4, Zenon DEF Walks, Settled
  <1>11. QED
    BY <1>4, <1>7, <1>8, <1>9, <1>10, GoesOn, Zenon

\* A job takes the lock, fails to, gives it back, or misses its deadline while
\* it waits: that one waits for another job of the same delivery.
LEMMA LockTasks ==
    ASSUME Inv, Tasks, ~Trouble, NEW w \in Workers,
           Acquire(w) \/ AcquireFails(w) \/ release(w) \/ Deadline(w)
    PROVE  Tasks'
  <1>1. TJob /\ TLock
    BY Zenon DEF Inv, Core
  <1>2. job[w].at # "idle"
    BY Zenon DEF Acquire, AcquireFails, release, Deadline
  <1>3. PICK d \in Deliveries : d = job[w].d
    BY <1>1, <1>2, JobRecord, Zenon
  <1>4. /\ emit' = emit /\ row' = row
        /\ queued' = queued /\ claimed' = claimed /\ dedup' = dedup /\ dead' = dead
    BY Zenon DEF Acquire, AcquireFails, release, Deadline, busVars, queueVars
  <1>5. ASSUME NEW x \in Deliveries PROVE SameTask(x)
    BY <1>4, Zenon DEF SameTask
  <1>6. Busy(w, d)
    BY <1>2, <1>3, Zenon DEF Busy
  <1>7. One(d) /\ lock[d] \in Workers \union {None}
    BY <1>1, Zenon DEF Tasks, TLock
  <1>8. lock \in [Deliveries -> Workers \union {None}]
    BY <1>1, Zenon DEF TLock
  <1>9. SUFFICES
          /\ Busy(w, d)' /\ \A v \in Workers \ {w} : job'[v] = job[v]
          /\ \A x \in Deliveries \ {d} : lock'[x] = lock[x]
          /\ Locked(d)'
          /\ Exists(d) => /\ job'[w].live /\ job'[w].res = "nil"
                          /\ job'[w].at \notin {"lock", "check", "mark"} => row[d].tried
    <2>1. Exists(d)' => /\ Exists(d) /\ job'[w].live /\ job'[w].res = "nil" /\ Settled(d)'
                        /\ job'[w].at \notin {"lock", "check", "mark"} => row'[d].tried
      <3>1. SUFFICES ASSUME Exists(d)'
                     PROVE  /\ Exists(d) /\ job'[w].live /\ job'[w].res = "nil" /\ Settled(d)'
                            /\ job'[w].at \notin {"lock", "check", "mark"} => row'[d].tried
        BY Zenon
      <3>2. Exists(d) /\ row'[d] = row[d]
        BY <1>4, <3>1, Zenon DEF Exists
      <3>3. Settled(d)'
        BY <1>6, <3>2, Alive, Zenon DEF Settled
      <3>4. QED
        BY <1>9, <3>2, <3>3, Zenon
    <2>2. QED
      BY <1>4, <1>5, <1>6, <1>9, <2>1, GoesOn, Zenon
  <1>10. CASE Acquire(w)
    <2>1. Go(w, "check") /\ lock' = [lock EXCEPT ![d] = w]
      BY <1>3, <1>10, Zenon DEF Acquire
    <2>2. /\ job'[w].at = "check" /\ job'[w].d = d /\ job'[w].live = job[w].live /\ job'[w].res = job[w].res
          /\ \A v \in Workers \ {w} : job'[v] = job[v]
      BY <1>1, <1>3, <2>1, GoRecord, Zenon
    <2>3. lock'[d] = w /\ \A x \in Deliveries \ {d} : lock'[x] = lock[x]
      BY <1>8, <2>1, Zenon
    <2>4. Locked(d)' /\ Busy(w, d)'
      BY <2>2, <2>3, Zenon DEF Locked, Inside, Busy
    <2>5. QED
      BY <1>6, <2>2, <2>3, <2>4, Alive, Zenon
  <1>11. CASE AcquireFails(w)
    <2>1. ~job[w].live /\ lock' = lock /\ job[w].at = "lock"
      BY <1>11, Zenon DEF AcquireFails, Fails
    <2>2. ~Exists(d)
      BY <1>6, <2>1, Alive, Zenon
    <2>3. job'[w].at = "return" /\ job'[w].d = d /\ \A v \in Workers \ {w} : job'[v] = job[v]
      <3>1. job' = [job EXCEPT ![w].at = "return", ![w].res = "err"]
        BY <1>11, Zenon DEF AcquireFails
      <3>2. QED
        BY <1>1, <1>3, <3>1, FinishRecord, Zenon
    <2>4. Busy(w, d)' /\ ~Inside(w)
      BY <2>1, <2>3, Zenon DEF Busy, Inside
    <2>5. Locked(d)'
      BY <1>6, <2>1, <2>3, <2>4, LockStays, Zenon
    <2>6. QED
      BY <2>1, <2>2, <2>3, <2>4, <2>5, Zenon
  <1>12. CASE release(w)
    <2>1. /\ job[w].at = "release" /\ Go(w, "return")
          /\ lock' = IF lock[d] = w \/ ~EvalKnown THEN [lock EXCEPT ![d] = None] ELSE lock
      BY <1>3, <1>12, Zenon DEF release
    <2>2. /\ job'[w].at = "return" /\ job'[w].d = d /\ job'[w].live = job[w].live /\ job'[w].res = job[w].res
          /\ \A v \in Workers \ {w} : job'[v] = job[v]
      BY <1>1, <1>3, <2>1, GoRecord, Zenon
    <2>3. \A x \in Deliveries \ {d} : lock'[x] = lock[x]
      BY <1>8, <2>1, Zenon
    <2>4. lock'[d] = None \/ (lock'[d] = lock[d] /\ lock[d] # w)
      BY <1>8, <2>1, Zenon
    <2>5. Locked(d)'
      <3>1. CASE lock'[d] = None
        BY <3>1, Zenon DEF Locked
      <3>2. CASE lock[d] # None /\ lock'[d] = lock[d] /\ lock[d] # w
        <4>1. PICK v \in Workers : v = lock[d]
          BY <1>7, <3>2, Zenon
        <4>2. Inside(v) /\ job[v].d = d /\ job'[v] = job[v]
          BY <1>7, <2>2, <3>2, <4>1, Zenon DEF One, Locked
        <4>3. QED
          BY <3>2, <4>1, <4>2, Zenon DEF Locked, Inside
      <3>3. QED
        BY <2>4, <3>1, <3>2, Zenon
    <2>6. Exists(d) => job[w].live /\ job[w].res = "nil" /\ row[d].tried
      BY <1>6, <2>1, Alive, Zenon
    <2>7. Busy(w, d)'
      BY <2>2, Zenon DEF Busy
    <2>8. QED
      BY <2>2, <2>3, <2>5, <2>6, <2>7, Zenon
  <1>13. CASE Deadline(w)
    <2>1. job[w].at = "lock" /\ lock[d] # None /\ lock' = lock
      BY <1>3, <1>13, Zenon DEF Deadline, lockVars
    <2>2. /\ job'[w].at = job[w].at /\ job'[w].d = d
          /\ \A v \in Workers \ {w} : job'[v] = job[v]
      BY <1>1, <1>3, <1>13, DeadlineRecord, Zenon
    <2>3. Busy(w, d)' /\ ~Inside(w)
      BY <2>1, <2>2, Zenon DEF Busy, Inside
    <2>4. Locked(d)'
      BY <1>6, <2>1, <2>2, <2>3, LockStays, Zenon
    <2>5. ~Exists(d)
      <3>1. PICK v \in Workers : v = lock[d]
        BY <1>7, <2>1, Zenon
      <3>2. Inside(v) /\ Busy(v, d) /\ v # w
        BY <1>7, <2>1, <2>3, <3>1, Zenon DEF One, Locked, Inside, Busy
      <3>3. QED
        BY <1>6, <3>2, Alive, Zenon
    <2>6. QED
      BY <2>1, <2>2, <2>3, <2>4, <2>5, Zenon
  <1>14. QED
    BY <1>10, <1>11, <1>12, <1>13, Zenon

\* A job ends: the queue forgets a task whose row has been tried.
LEMMA ReturnTasks ==
    ASSUME Inv, Tasks, ~Trouble, NEW w \in Workers, Return(w)
    PROVE  Tasks'
  <1>1. TJob /\ TLock
    BY Zenon DEF Inv, Core
  <1>2. job[w].at = "return"
    BY Zenon DEF Return
  <1>3. PICK d \in Deliveries : d = job[w].d
    BY <1>1, <1>2, JobRecord, Zenon
  <1>4. emit' = emit /\ row' = row /\ lock' = lock /\ job' = [job EXCEPT ![w] = NoJob]
    BY Zenon DEF Return, busVars, lockVars
  <1>5. job'[w].at = "idle" /\ \A v \in Workers \ {w} : job'[v] = job[v]
    BY <1>1, <1>4, SetRecord, NoJobType, Zenon
  <1>6. \/ ~job[w].live /\ UNCHANGED queueVars
        \/ /\ job[w].live /\ claimed' = claimed \ {<<d, w>>}
           /\ \/ job[w].res = "nil" /\ dedup' = dedup \ {d} /\ UNCHANGED <<queued, dead>>
              \/ job[w].res = "err" /\ queued' = queued \union {d} /\ UNCHANGED <<dedup, dead>>
              \/ job[w].res = "err" /\ dead' = dead \union {d} /\ dedup' = dedup \ {d} /\ UNCHANGED queued
    BY <1>3, Zenon DEF Return
  <1>7. ASSUME NEW x \in Deliveries, x # d PROVE SameTask(x)
    <2>1. \A v \in Workers : <<x, v>> # <<d, w>>
      BY <1>7
    <2>2. CASE UNCHANGED queueVars
      BY <2>2, Zenon DEF SameTask, queueVars
    <2>3. CASE ~UNCHANGED queueVars
      <3>1. claimed' = claimed \ {<<d, w>>}
        BY <1>6, <2>3, Zenon
      <3>2. \A v \in Workers : (<<x, v>> \in claimed' <=> <<x, v>> \in claimed)
        BY <2>1, <3>1, Zenon
      <3>3. /\ (x \in queued' <=> x \in queued) /\ (x \in dedup' <=> x \in dedup)
            /\ (x \in dead' <=> x \in dead)
        BY <1>6, <1>7, <2>3, Zenon
      <3>4. QED
        BY <3>2, <3>3, Zenon DEF SameTask
    <2>4. QED
      BY <2>2, <2>3, Zenon
  <1>8. Touches(d)
    BY <1>3, <1>4, <1>5, <1>7, Zenon DEF Touches
  <1>9. Busy(w, d) /\ One(d)
    BY <1>2, <1>3, Zenon DEF Busy, Tasks
  <1>10. ~Unseen(d)'
    BY <1>4, <1>9, Zenon DEF One, Untouched, Unseen
  <1>11. Locked(d)'
    <2>1. CASE lock[d] = None
      BY <1>4, <2>1, Zenon DEF Locked
    <2>2. CASE lock[d] # None
      <3>1. PICK v \in Workers : v = lock[d]
        BY <1>1, <2>2, Zenon DEF TLock
      <3>2. Inside(v) /\ job[v].d = d
        BY <1>9, <2>2, <3>1, Zenon DEF One, Locked
      <3>3. job'[v] = job[v]
        BY <1>2, <1>5, <3>2, Zenon DEF Inside
      <3>4. QED
        BY <1>4, <3>1, <3>2, <3>3, Zenon DEF Locked, Inside
    <2>3. QED
      BY <2>1, <2>2, Zenon
  <1>12. ASSUME Exists(d)' PROVE Handled(d)'
    <2>1. Exists(d) /\ row'[d] = row[d]
      BY <1>4, <1>12, Zenon DEF Exists
    <2>2. /\ job[w].live /\ job[w].res = "nil" /\ row[d].tried /\ d \notin queued /\ d \notin dead
          /\ \A v \in Workers : Busy(v, d) => v = w
      BY <1>2, <1>9, <2>1, Alive, Zenon
    <2>3. claimed' = claimed \ {<<d, w>>} /\ queued' = queued /\ dead' = dead
      BY <1>6, <2>2, Zenon
    <2>4. ASSUME NEW v \in Workers PROVE ~Busy(v, d)'
      BY <1>5, <2>2, Zenon DEF Busy
    <2>5. ASSUME NEW v \in Workers PROVE <<d, v>> \notin claimed'
      <3>1. <<d, v>> \in claimed => Busy(v, d)
        BY <1>9, <2>1, Zenon DEF One, Handled
      <3>2. QED
        BY <2>2, <2>3, <3>1, Zenon
    <2>6. Settled(d)'
      BY <2>1, <2>2, Zenon DEF Settled
    <2>7. QED
      BY <2>1, <2>2, <2>3, <2>4, <2>5, <2>6, Zenon DEF Handled
  <1>13. One(d)'
    BY <1>10, <1>11, <1>12, Zenon DEF One
  <1>14. QED
    BY <1>8, <1>13, Elsewhere, Zenon

\* Rows that are reset, become due or go away.
LEMMA RowTasks ==
    ASSUME Tasks, UNCHANGED <<emit, lock, job, queued, claimed, dedup, dead>>,
           \A x \in Deliveries : Exists(x)' =>
               Exists(x) /\ row'[x].tried = row[x].tried /\ (Settled(x) => Settled(x)')
    PROVE  Tasks'
  <1>1. /\ emit' = emit /\ lock' = lock /\ job' = job /\ queued' = queued
        /\ claimed' = claimed /\ dedup' = dedup /\ dead' = dead
    BY Zenon
  <1>2. Emits'
    BY <1>1, Zenon DEF Tasks, Emits
  <1>3. ASSUME NEW x \in Deliveries PROVE One(x)'
    <2>1. One(x)
      BY Zenon DEF Tasks
    <2>2. Locked(x)' /\ (Unseen(x)' => Untouched(x)')
      BY <1>1, <2>1, Zenon DEF One, Locked, Inside, Unseen, Untouched, Busy
    <2>3. ASSUME Exists(x)' PROVE Handled(x)'
      <3>1. Handled(x) /\ row'[x].tried = row[x].tried /\ Settled(x)'
        BY <2>1, <2>3, Zenon DEF One, Handled
      <3>2. InHand(x)' = InHand(x)
        BY <1>1, Zenon DEF InHand
      <3>3. QED
        BY <1>1, <3>1, <3>2, Zenon DEF Handled, Busy
    <2>4. QED
      BY <2>2, <2>3, Zenon DEF One
  <1>4. QED
    BY <1>2, <1>3, Zenon DEF Tasks

LEMMA AdminTasks ==
    ASSUME Inv, Tasks, ~Trouble, Admin
    PROVE  Tasks'
  <1>1. TRow
    BY Zenon DEF Inv
  <1>2. CASE UNCHANGED <<emit, lock, job, queued, claimed, dedup, dead, row>>
    BY <1>2, RowTasks, Zenon DEF Exists, Settled
  <1>3. ASSUME NEW p \in Endpoints, DeleteEndpoint(p) PROVE Tasks'
    <2>1. UNCHANGED <<emit, lock, job, queued, claimed, dedup, dead>>
      BY <1>3, Zenon DEF DeleteEndpoint, queueVars, lockVars
    <2>2. row' = [d \in Deliveries |-> IF d[1] = p THEN NoRow ELSE row[d]] /\ NoRow.status = "none"
      BY <1>3, Zenon DEF DeleteEndpoint, DeleteWebhookEndpoint, NoRow
    <2>3. ASSUME NEW x \in Deliveries, Exists(x)' PROVE row'[x] = row[x]
      BY <2>2, <2>3, Zenon DEF Exists
    <2>4. QED
      BY <2>1, <2>3, RowTasks, Zenon DEF Exists, Settled
  <1>4. ASSUME NEW d \in Deliveries, ReplayReset(d) PROVE Tasks'
    <2>1. UNCHANGED <<emit, lock, job, queued, claimed, dedup, dead>> /\ Exists(d) /\ ResetDeliveryForReplay(d)
      BY <1>4, Zenon DEF ReplayReset, queueVars, lockVars, busVars
    <2>2. /\ \A x \in Deliveries \ {d} : row'[x] = row[x]
          /\ row'[d].tried = row[d].tried
          /\ Settled(d) => Settled(d)'
      BY <1>1, <2>1, ResetTried, Zenon
    <2>3. ASSUME NEW x \in Deliveries, Exists(x)'
          PROVE  Exists(x) /\ row'[x].tried = row[x].tried /\ (Settled(x) => Settled(x)')
      <3>1. CASE x = d
        BY <2>1, <2>2, <3>1, Zenon
      <3>2. CASE x # d
        BY <2>2, <2>3, <3>2, Zenon DEF Exists, Settled
      <3>3. QED
        BY <3>1, <3>2, Zenon
    <2>4. QED
      BY <2>1, <2>3, RowTasks, Zenon
  <1>5. ASSUME NEW d \in Deliveries, ReplayTask(d) PROVE Tasks'
    <2>1. /\ d \in dead /\ Enqueue(d) /\ dead' = dead \ {d} /\ emit' = emit /\ row' = row
          /\ claimed' = claimed /\ job' = job /\ lock' = lock
      BY <1>5, Zenon DEF ReplayTask, busVars, lockVars
    <2>2. One(d) /\ ~Unseen(d) /\ ~Exists(d)
      BY <2>1, Zenon DEF Tasks, One, Untouched, Handled
    <2>3. One(d)'
      BY <2>1, <2>2, Zenon DEF One, Unseen, Exists, Locked, Inside
    <2>4. ASSUME NEW x \in Deliveries, x # d PROVE SameTask(x)
      <3>1. /\ (x \in dedup' <=> x \in dedup) /\ (x \in queued' <=> x \in queued)
            /\ (x \in dead' <=> x \in dead)
        BY <2>1, <2>4, Zenon DEF Enqueue
      <3>2. QED
        BY <2>1, <3>1, Zenon DEF SameTask
    <2>5. Touches(d)
      BY <2>1, <2>4, Zenon DEF Touches
    <2>6. QED
      BY <2>3, <2>5, Elsewhere, Zenon
  <1>6. QED
    BY <1>2, <1>3, <1>4, <1>5, Zenon
       DEF Admin, CreateEndpoint, UpdateEndpoint, ReplayDeleteDlq, ReplayUnguard, busVars, queueVars, lockVars

LEMMA TimeTasks ==
    ASSUME Inv, Tasks, ~Trouble, NEW d \in Deliveries,
           \/ BackoffPasses(d) \/ LockExpires(d) \/ GuardExpires(d) \/ DedupExpires(d)
           \/ \E w \in Workers : Claim(w, d) \/ Redeliver(d, w)
    PROVE  Tasks'
  <1>1. TRow /\ TJob /\ TLock /\ One(d)
    BY Zenon DEF Inv, Core, Tasks
  <1>2. CASE BackoffPasses(d)
    <2>1. UNCHANGED <<emit, lock, job, queued, claimed, dedup, dead>> /\ Exists(d)
      BY <1>2, Zenon DEF BackoffPasses, queueVars, lockVars, busVars
    <2>2. /\ \A x \in Deliveries \ {d} : row'[x] = row[x]
          /\ row'[d].tried = row[d].tried
          /\ Settled(d) => Settled(d)'
      BY <1>1, <1>2, <2>1, ResetTried, Zenon
    <2>3. ASSUME NEW x \in Deliveries, Exists(x)'
          PROVE  Exists(x) /\ row'[x].tried = row[x].tried /\ (Settled(x) => Settled(x)')
      <3>1. CASE x = d
        BY <2>1, <2>2, <3>1, Zenon
      <3>2. CASE x # d
        BY <2>2, <2>3, <3>2, Zenon DEF Exists, Settled
      <3>3. QED
        BY <3>1, <3>2, Zenon
    <2>4. QED
      BY <2>1, <2>3, RowTasks, Zenon
  <1>3. ~LockExpires(d) /\ ~GuardExpires(d) /\ ~DedupExpires(d)
    BY <1>1, Zenon DEF LockExpires, GuardExpires, DedupExpires, One, Locked
  <1>4. ASSUME NEW w \in Workers, Claim(w, d) PROVE Tasks'
    <2>1. /\ job[w].at = "idle" /\ d \in queued /\ queued' = queued \ {d}
          /\ claimed' = claimed \union {<<d, w>>}
          /\ emit' = emit /\ row' = row /\ dedup' = dedup /\ dead' = dead /\ lock' = lock
      BY <1>4, Zenon DEF Claim, busVars, lockVars
    <2>2. /\ job'[w].at = "lock" /\ job'[w].d = d /\ job'[w].live = TRUE /\ job'[w].res = "nil"
          /\ \A v \in Workers \ {w} : job'[v] = job[v]
      BY <1>1, <1>4, ClaimRecord, Zenon
    <2>3. ASSUME NEW x \in Deliveries, x # d PROVE SameTask(x)
      <3>1. \A v \in Workers : <<x, v>> # <<d, w>>
        BY <2>3
      <3>2. \A v \in Workers : (<<x, v>> \in claimed' <=> <<x, v>> \in claimed)
        BY <2>1, <3>1, Zenon
      <3>3. (x \in queued' <=> x \in queued)
        BY <2>1, <2>3, Zenon
      <3>4. QED
        BY <2>1, <3>2, <3>3, Zenon DEF SameTask
    <2>4. Touches(d)
      BY <2>1, <2>2, <2>3, Zenon DEF Touches
    <2>5. ~Unseen(d)'
      BY <1>1, <2>1, Zenon DEF One, Untouched, Unseen
    <2>6. Locked(d)'
      <3>1. CASE lock[d] = None
        BY <2>1, <3>1, Zenon DEF Locked
      <3>2. CASE lock[d] # None
        <4>1. PICK v \in Workers : v = lock[d]
          BY <1>1, <3>2, Zenon DEF TLock
        <4>2. Inside(v) /\ job[v].d = d
          BY <1>1, <3>2, <4>1, Zenon DEF One, Locked
        <4>3. job'[v] = job[v]
          BY <2>1, <2>2, <4>2, Zenon DEF Inside
        <4>4. QED
          BY <2>1, <4>1, <4>2, <4>3, Zenon DEF Locked, Inside
      <3>3. QED
        BY <3>1, <3>2, Zenon
    <2>7. ASSUME Exists(d)' PROVE Handled(d)'
      <3>1. Handled(d) /\ row'[d] = row[d]
        BY <1>1, <2>1, <2>7, Zenon DEF One, Exists
      <3>2. d \in dedup /\ d \notin dead /\ Settled(d)' /\ \A v \in Workers : ~Busy(v, d)
        BY <2>1, <3>1, Zenon DEF Handled, Settled
      <3>3. \A v \in Workers : <<d, v>> \notin claimed
        BY <3>1, <3>2, Zenon DEF Handled
      <3>4. Busy(w, d)' /\ \A v \in Workers : Busy(v, d)' => v = w
        BY <2>2, <3>2, Zenon DEF Busy
      <3>5. ASSUME NEW v \in Workers, <<d, v>> \in claimed' PROVE Busy(v, d)'
        <4>1. <<d, v>> = <<d, w>>
          BY <2>1, <3>3, <3>5, Zenon
        <4>2. v = w
          BY <4>1
        <4>3. QED
          BY <3>4, <4>2, Zenon
      <3>6. d \notin queued' /\ InHand(d)'
        BY <2>1, <3>4, Zenon DEF InHand, Busy
      <3>7. ASSUME NEW v \in Workers, Busy(v, d)'
            PROVE  /\ d \in dedup' /\ job'[v].live /\ job'[v].res = "nil"
                   /\ job'[v].at \notin {"lock", "check", "mark"} => row'[d].tried
                   /\ \A u \in Workers : Busy(u, d)' => u = v
        BY <2>1, <2>2, <3>2, <3>4, <3>7, Zenon
      <3>8. QED
        BY <2>1, <3>2, <3>5, <3>6, <3>7, Zenon DEF Handled
    <2>8. One(d)'
      BY <2>5, <2>6, <2>7, Zenon DEF One
    <2>9. QED
      BY <2>4, <2>8, Elsewhere, Zenon
  <1>5. ASSUME NEW w \in Workers, Redeliver(d, w) PROVE Tasks'
    <2>1. /\ <<d, w>> \in claimed /\ claimed' = claimed \ {<<d, w>>} /\ queued' = queued \union {d}
          /\ ~InTime(w, d)
          /\ emit' = emit /\ row' = row /\ dedup' = dedup /\ dead' = dead /\ lock' = lock /\ job' = job
      BY <1>5, Zenon DEF Redeliver, busVars, lockVars
    <2>2. ~Unseen(d) /\ ~Exists(d)
      BY <1>1, <2>1, Zenon DEF One, Untouched, Handled, InTime, Busy
    <2>3. One(d)'
      BY <1>1, <2>1, <2>2, Zenon DEF One, Unseen, Exists, Locked, Inside
    <2>4. ASSUME NEW x \in Deliveries, x # d PROVE SameTask(x)
      <3>1. \A v \in Workers : <<x, v>> # <<d, w>>
        BY <2>4
      <3>2. \A v \in Workers : (<<x, v>> \in claimed' <=> <<x, v>> \in claimed)
        BY <2>1, <3>1, Zenon
      <3>3. (x \in queued' <=> x \in queued)
        BY <2>1, <2>4, Zenon
      <3>4. QED
        BY <2>1, <3>2, <3>3, Zenon DEF SameTask
    <2>5. Touches(d)
      BY <2>1, <2>4, Zenon DEF Touches
    <2>6. QED
      BY <2>3, <2>5, Elsewhere, Zenon
  <1>6. QED
    BY <1>2, <1>3, <1>4, <1>5, Zenon

\* A step of Emit, seen from a delivery that it passes by.
PassedBy(x) ==
    /\ row'[x] = row[x] /\ SameTask(x)
    /\ Unseen(x)' => Unseen(x)
    /\ InHand(x) => InHand(x)'

LEMMA EmitKeeps ==
    ASSUME Tasks, Emits', UNCHANGED <<lock, job>>,
           \A x \in Deliveries :
               PassedBy(x) \/ ((Unseen(x)' => Untouched(x)') /\ (Exists(x)' => Handled(x)'))
    PROVE  Tasks'
  <1>1. job' = job /\ lock' = lock
    BY Zenon
  <1>2. ASSUME NEW x \in Deliveries PROVE One(x)'
    <2>1. One(x)
      BY Zenon DEF Tasks
    <2>2. Locked(x)'
      BY <1>1, <2>1, Zenon DEF One, Locked, Inside
    <2>3. CASE PassedBy(x)
      <3>1. Unseen(x)' => Untouched(x)'
        BY <1>1, <2>1, <2>3, Zenon DEF PassedBy, One, Untouched, SameTask, Busy
      <3>2. ASSUME Exists(x)' PROVE Handled(x)'
        <4>1. Handled(x) /\ row'[x] = row[x]
          BY <2>1, <2>3, <3>2, Zenon DEF PassedBy, One, Exists
        <4>2. ~row'[x].tried => InHand(x)'
          BY <2>3, <4>1, Zenon DEF PassedBy, Handled
        <4>3. Settled(x)'
          BY <4>1, Zenon DEF Handled, Settled
        <4>4. SameTask(x) /\ \A w \in Workers : Busy(w, x)' <=> Busy(w, x)
          BY <1>1, <2>3, Zenon DEF PassedBy, Busy
        <4>5. x \notin dead' /\ (x \in queued' => x \in dedup' /\ \A w \in Workers : ~Busy(w, x)')
          BY <4>1, <4>4, Zenon DEF Handled, SameTask
        <4>6. \A w \in Workers : <<x, w>> \in claimed' => Busy(w, x)'
          BY <4>1, <4>4, Zenon DEF Handled, SameTask
        <4>7. ASSUME NEW w \in Workers, Busy(w, x)'
              PROVE  /\ x \in dedup' /\ job'[w].live /\ job'[w].res = "nil"
                     /\ job'[w].at \notin {"lock", "check", "mark"} => row'[x].tried
                     /\ \A v \in Workers : Busy(v, x)' => v = w
          BY <1>1, <4>1, <4>4, <4>7, Zenon DEF Handled, SameTask
        <4>8. QED
          BY <4>2, <4>3, <4>5, <4>6, <4>7, Zenon DEF Handled
      <3>3. QED
        BY <2>2, <3>1, <3>2, Zenon DEF One
    <2>4. CASE (Unseen(x)' => Untouched(x)') /\ (Exists(x)' => Handled(x)')
      BY <2>2, <2>4, Zenon DEF One
    <2>5. QED
      BY <2>3, <2>4, Zenon
  <1>3. QED
    BY <1>2, Zenon DEF Tasks

LEMMA DeliveryParts ==
    ASSUME NEW d \in Deliveries
    PROVE  d[1] \in Endpoints /\ d[2] \in Events /\ d = <<d[1], d[2]>>
  BY DEF Deliveries

LEMMA EmitAtRecord ==
    ASSUME Emits, NEW e \in Events,
           NEW at \in {"none", "list", "insert", "enqueue", "notify", "done"},
           NEW todo \in SUBSET Endpoints, NEW now \in Endpoints \union {None},
           at = "enqueue" => now \in Endpoints /\ now \notin todo, EmitAt(e, at, todo, now)
    PROVE  /\ Emits' /\ emit'[e].at = at /\ emit'[e].todo = todo /\ emit'[e].now = now
           /\ \A f \in Events \ {e} : emit'[f] = emit[f]
  <1>1. PICK r \in EmitType : r = [at |-> at, todo |-> todo, now |-> now]
    BY Zenon DEF EmitType
  <1>2. r.at = at /\ r.todo = todo /\ r.now = now
    BY <1>1, Zenon
  <1>3. emit' = [emit EXCEPT ![e] = r] /\ emit \in [Events -> EmitType]
    BY <1>1, Zenon DEF EmitAt, Emits
  <1>4. emit' \in [Events -> EmitType] /\ emit'[e] = r /\ \A f \in Events \ {e} : emit'[f] = emit[f]
    BY <1>3, Zenon
  <1>5. ASSUME NEW f \in Events, emit'[f].at = "enqueue"
        PROVE  emit'[f].now \in Endpoints /\ emit'[f].now \notin emit'[f].todo
    BY <1>2, <1>4, <1>5, Zenon DEF Emits
  <1>6. QED
    BY <1>2, <1>4, <1>5, Zenon DEF Emits

\* A step of Emit that neither inserts nor enqueues.
LEMMA EmitOnly ==
    ASSUME Tasks, NEW e \in Events, Emits', UNCHANGED <<lock, job, row, queued, claimed, dedup, dead>>,
           \A f \in Events \ {e} : emit'[f] = emit[f],
           emit[e].at # "enqueue", emit'[e].at \notin {"none", "list", "enqueue"} \/ emit[e].at = "none",
           emit[e].at \in {"none", "list"} \/ emit'[e].todo \subseteq emit[e].todo
    PROVE  Tasks'
  <1>1. ASSUME NEW x \in Deliveries PROVE PassedBy(x)
    <2>1. row'[x] = row[x] /\ SameTask(x)
      BY Zenon DEF SameTask
    <2>2. x[2] \in Events
      BY DeliveryParts, Zenon
    <2>3. CASE x[2] = e
      <3>1. Unseen(x)' => Unseen(x)
        BY <2>3, Zenon DEF Unseen
      <3>2. InHand(x) => InHand(x)'
        BY <2>3, Zenon DEF InHand
      <3>3. QED
        BY <2>1, <3>1, <3>2, Zenon DEF PassedBy
    <2>4. CASE x[2] # e
      BY <2>1, <2>2, <2>4, Zenon DEF PassedBy, Unseen, InHand
    <2>5. QED
      BY <2>3, <2>4, Zenon
  <1>2. QED
    BY <1>1, EmitKeeps, Zenon

LEMMA InsertTasks ==
    ASSUME Inv, Tasks, NEW e \in Events, NEW p \in Endpoints, ScheduleInsert(e, p)
    PROVE  Tasks'
  <1>1. Emits /\ TRow
    BY Zenon DEF Tasks, Inv
  <1>2. emit[e].at = "insert" /\ p \in emit[e].todo
    BY Zenon DEF ScheduleInsert
  <1>3. lock' = lock /\ job' = job /\ queued' = queued /\ claimed' = claimed /\ dedup' = dedup /\ dead' = dead
    BY Zenon DEF ScheduleInsert, queueVars, lockVars
  <1>4. PICK todo \in SUBSET Endpoints : todo = emit[e].todo \ {p}
    <2>1. emit[e].todo \in SUBSET Endpoints
      BY <1>1, Zenon DEF Emits, EmitType
    <2>2. QED
      BY <2>1, Zenon
  <1>5. CASE NextEndpoint(e, todo) /\ UNCHANGED row
    <2>1. PICK at \in {"notify", "insert"} : at = IF todo = {} THEN "notify" ELSE "insert"
      BY Zenon
    <2>2. EmitAt(e, at, todo, None)
      BY <1>5, <2>1, Zenon DEF NextEndpoint
    <2>3. /\ Emits' /\ emit'[e].at = at /\ emit'[e].todo = todo
          /\ \A f \in Events \ {e} : emit'[f] = emit[f]
      BY <1>1, <2>1, <2>2, EmitAtRecord, Zenon
    <2>4. emit'[e].todo \subseteq emit[e].todo /\ emit'[e].at \notin {"none", "list", "enqueue"}
      BY <1>4, <2>1, <2>3, Zenon
    <2>5. QED
      BY <1>2, <1>3, <1>5, <2>3, <2>4, EmitOnly, Zenon
  <1>6. CASE EnqueueDelivery(<<p, e>>) /\ EmitAt(e, "enqueue", todo, p)
    <2>1. PICK d \in Deliveries : d = <<p, e>>
      BY Zenon DEF Deliveries
    <2>2. d[1] = p /\ d[2] = e
      BY <2>1
    <2>3. /\ Emits' /\ emit'[e].at = "enqueue" /\ emit'[e].todo = todo /\ emit'[e].now = p
          /\ \A f \in Events \ {e} : emit'[f] = emit[f]
      <3>1. /\ p \in Endpoints \union {None} /\ p \notin todo
            /\ "enqueue" \in {"none", "list", "insert", "enqueue", "notify", "done"}
        BY <1>4, Zenon
      <3>2. EmitAt(e, "enqueue", todo, p)
        BY <1>6, Zenon
      <3>3. QED
        BY <1>1, <3>1, <3>2, EmitAtRecord, Zenon
    <2>4. row' = [row EXCEPT ![d] = [NoRow EXCEPT !.status = "PENDING"]]
      BY <1>6, <2>1, Zenon DEF EnqueueDelivery
    <2>5. row'[d] = [NoRow EXCEPT !.status = "PENDING"] /\ \A x \in Deliveries \ {d} : row'[x] = row[x]
      BY <1>1, <2>4, Zenon DEF TRow
    <2>6. row'[d].status = "PENDING" /\ row'[d].due /\ ~row'[d].tried
      BY <2>5 DEF NoRow
    <2>7. Untouched(d)
      BY <1>2, <2>2, Zenon DEF Tasks, One, Unseen
    <2>8. Untouched(d)' /\ Settled(d)' /\ InHand(d)'
      BY <1>3, <2>2, <2>3, <2>6, <2>7, Zenon DEF Untouched, Busy, Settled, InHand
    <2>9. Handled(d)'
      BY <2>8, Zenon DEF Untouched, Handled
    <2>10. ASSUME NEW x \in Deliveries, x # d PROVE PassedBy(x)
      <3>1. row'[x] = row[x] /\ SameTask(x)
        BY <1>3, <2>5, <2>10, Zenon DEF SameTask
      <3>2. x[1] \in Endpoints /\ x[2] \in Events /\ x = <<x[1], x[2]>>
        BY DeliveryParts, Zenon
      <3>3. CASE x[2] = e
        <4>1. x[1] # p
          BY <2>1, <2>10, <3>2, <3>3, Zenon
        <4>2. Unseen(x)' => Unseen(x)
          BY <1>4, <2>3, <3>3, <4>1, Zenon DEF Unseen
        <4>3. InHand(x) => InHand(x)'
          BY <1>2, <1>3, <3>3, Zenon DEF InHand
        <4>4. QED
          BY <3>1, <4>2, <4>3, Zenon DEF PassedBy
      <3>4. CASE x[2] # e
        BY <1>3, <2>3, <3>1, <3>2, <3>4, Zenon DEF PassedBy, Unseen, InHand
      <3>5. QED
        BY <3>3, <3>4, Zenon
    <2>11. QED
      BY <1>3, <2>3, <2>8, <2>9, <2>10, EmitKeeps, Zenon
  <1>7. QED
    BY <1>4, <1>5, <1>6, Zenon DEF ScheduleInsert

LEMMA EnqueueTasks ==
    ASSUME Inv, Tasks, ~Trouble, NEW e \in Events, ScheduleEnqueue(e)
    PROVE  Tasks'
  <1>1. Emits /\ TRow
    BY Zenon DEF Tasks, Inv
  <1>2. PICK p \in Endpoints : p = emit[e].now
    BY <1>1, Zenon DEF ScheduleEnqueue, Emits
  <1>3. PICK todo \in SUBSET Endpoints : todo = emit[e].todo
    BY <1>1, Zenon DEF Emits, EmitType
  <1>4. PICK d \in Deliveries : d = <<p, e>>
    BY Zenon DEF Deliveries
  <1>5. d[1] = p /\ d[2] = e
    BY <1>4
  <1>6. /\ emit[e].at = "enqueue" /\ p \notin todo /\ Enqueue(d) /\ NextEndpoint(e, todo)
        /\ lock' = lock /\ job' = job /\ row' = row /\ claimed' = claimed /\ dead' = dead
    BY <1>1, <1>2, <1>3, <1>4, Zenon DEF ScheduleEnqueue, Emits, lockVars
  <1>7. PICK at \in {"notify", "insert"} : at = IF todo = {} THEN "notify" ELSE "insert"
    BY Zenon
  <1>8. /\ Emits' /\ emit'[e].at = at /\ emit'[e].todo = todo
        /\ \A f \in Events \ {e} : emit'[f] = emit[f]
    <2>1. EmitAt(e, at, todo, None)
      BY <1>6, <1>7, Zenon DEF NextEndpoint
    <2>2. QED
      BY <1>1, <1>7, <2>1, EmitAtRecord, Zenon
  <1>9. Untouched(d) /\ One(d)
    BY <1>2, <1>5, <1>6, Zenon DEF Tasks, One, Unseen
  <1>10. d \in queued' /\ d \in dedup'
    BY <1>6, <1>9, Zenon DEF Enqueue, Untouched
  <1>11. ~Unseen(d)'
    BY <1>5, <1>6, <1>7, <1>8, Zenon DEF Unseen
  <1>12. ASSUME Exists(d)' PROVE Handled(d)'
    <2>1. Settled(d)' /\ InHand(d)'
      BY <1>6, <1>9, <1>10, <1>12, Zenon DEF One, Exists, Handled, Settled, InHand
    <2>2. d \notin dead' /\ \A w \in Workers : <<d, w>> \notin claimed' /\ ~Busy(w, d)'
      BY <1>6, <1>9, Zenon DEF Untouched, Busy
    <2>3. QED
      BY <1>10, <2>1, <2>2, Zenon DEF Handled
  <1>13. ASSUME NEW x \in Deliveries, x # d PROVE PassedBy(x)
    <2>1. (x \in dedup' <=> x \in dedup) /\ (x \in queued' <=> x \in queued)
      BY <1>6, <1>13, Zenon DEF Enqueue
    <2>2. row'[x] = row[x] /\ SameTask(x)
      BY <1>6, <2>1, Zenon DEF SameTask
    <2>3. x[1] \in Endpoints /\ x[2] \in Events /\ x = <<x[1], x[2]>>
      BY DeliveryParts, Zenon
    <2>4. CASE x[2] = e
      <3>1. x[1] # p
        BY <1>4, <1>13, <2>3, <2>4, Zenon
      <3>2. Unseen(x)' => Unseen(x)
        BY <1>3, <1>7, <1>8, <2>4, Zenon DEF Unseen
      <3>3. InHand(x) => InHand(x)'
        BY <1>2, <1>6, <2>1, <2>4, <3>1, Zenon DEF InHand
      <3>4. QED
        BY <2>2, <3>2, <3>3, Zenon DEF PassedBy
    <2>5. CASE x[2] # e
      BY <1>6, <1>8, <2>1, <2>2, <2>3, <2>5, Zenon DEF PassedBy, Unseen, InHand
    <2>6. QED
      BY <2>4, <2>5, Zenon
  <1>14. QED
    BY <1>6, <1>8, <1>11, <1>12, <1>13, EmitKeeps, Zenon

LEMMA EmitTasks ==
    ASSUME Inv, Tasks, ~Trouble, NEW e \in Events, EmitStep(e) \/ EmitCallFails(e) \/ EmitterDies(e)
    PROVE  Tasks'
  <1>1. Emits
    BY Zenon DEF Tasks
  <1>2. ~EmitCallFails(e) /\ ~EmitterDies(e)
    BY Zenon DEF EmitCallFails, EmitterDies
  <1>3. CASE EmitInsert(e) \/ ScheduleList(e) \/ Notify(e)
    <2>1. UNCHANGED <<lock, job, row, queued, claimed, dedup, dead>>
      BY <1>3, Zenon DEF EmitInsert, ScheduleList, Notify, lockVars, queueVars
    <2>2. CASE EmitInsert(e)
      <3>1. PICK at \in {"list", "notify"} : at = IF Enabled THEN "list" ELSE "notify"
        BY Zenon
      <3>2. EmitAt(e, at, {}, None) /\ emit[e].at = "none"
        BY <2>2, <3>1, Zenon DEF EmitInsert
      <3>3. Emits' /\ emit'[e].at = at /\ \A f \in Events \ {e} : emit'[f] = emit[f]
        BY <1>1, <3>1, <3>2, EmitAtRecord, Zenon
      <3>4. QED
        BY <2>1, <3>2, <3>3, EmitOnly, Zenon
    <2>3. CASE ScheduleList(e)
      <3>1. PICK found \in SUBSET Endpoints : found = ListActiveEndpointsForTopic(Topic[e])
        BY Zenon DEF ListActiveEndpointsForTopic
      <3>2. PICK at \in {"notify", "insert"} : at = IF found = {} THEN "notify" ELSE "insert"
        BY Zenon
      <3>3. EmitAt(e, at, found, None) /\ emit[e].at = "list"
        BY <2>3, <3>1, <3>2, Zenon DEF ScheduleList
      <3>4. Emits' /\ emit'[e].at = at /\ \A f \in Events \ {e} : emit'[f] = emit[f]
        BY <1>1, <3>2, <3>3, EmitAtRecord, Zenon
      <3>5. emit'[e].at \notin {"none", "list", "enqueue"}
        BY <3>2, <3>4, Zenon
      <3>6. QED
        BY <2>1, <3>3, <3>4, <3>5, EmitOnly, Zenon
    <2>4. CASE Notify(e)
      <3>1. EmitAt(e, "done", {}, None) /\ emit[e].at = "notify"
        BY <2>4, Zenon DEF Notify
      <3>2. /\ Emits' /\ emit'[e].at = "done" /\ emit'[e].todo = {}
            /\ \A f \in Events \ {e} : emit'[f] = emit[f]
        BY <1>1, <3>1, EmitAtRecord, Zenon
      <3>3. QED
        BY <2>1, <3>1, <3>2, EmitOnly, Zenon
    <2>5. QED
      BY <1>3, <2>2, <2>3, <2>4, Zenon
  <1>4. QED
    BY <1>2, <1>3, InsertTasks, EnqueueTasks, Zenon DEF EmitStep

\* Troubles are counted and never forgotten.
LEMMA TroubleCounts ==
    ASSUME troubles \in Nat, [Next]_vars
    PROVE  troubles' = troubles \/ Trouble
  <1>1. CASE Admin
    BY <1>1, Zenon DEF Admin, CreateEndpoint, UpdateEndpoint, DeleteEndpoint, ReplayReset, ReplayTask,
                       ReplayDeleteDlq, ReplayUnguard
  <1>2. ASSUME NEW e \in Events, EmitStep(e) \/ EmitCallFails(e) \/ EmitterDies(e)
        PROVE  troubles' = troubles \/ Trouble
    BY <1>2, Zenon DEF EmitStep, EmitInsert, ScheduleList, ScheduleInsert, ScheduleEnqueue, Notify,
                       EmitCallFails, EmitterDies
  <1>3. ASSUME NEW w \in Workers, JobStep(w) \/ Deadline(w) \/ Die(w)
        PROVE  troubles' = troubles \/ Trouble
    <2>1. Works(w) \/ Fails(w) => troubles' = troubles \/ Trouble
      BY Zenon DEF Works, Fails
    <2>2. CASE Acquire(w) \/ AcquireFails(w) \/ Check(w) \/ StartAttempt(w) \/ Load(w) \/ Guard(w) \/ Post(w)
      BY <2>1, <2>2, Zenon DEF Acquire, AcquireFails, Check, StartAttempt, Load, Guard, Post
    <2>3. CASE \/ Delivered(w) \/ AttemptFails(w) \/ failDelivery(w) \/ DeadLetter(w)
               \/ Requeue(w) \/ release(w) \/ Return(w) \/ Deadline(w) \/ Die(w)
      BY <2>1, <2>3, Zenon DEF Delivered, AttemptFails, failDelivery, BackOff, DeadLetter, Requeue, release,
                               Return, Deadline, Die
    <2>4. QED
      BY <1>3, <2>2, <2>3, Zenon DEF JobStep
  <1>4. ASSUME NEW d \in Deliveries,
               \/ BackoffPasses(d) \/ LockExpires(d) \/ GuardExpires(d) \/ DedupExpires(d)
               \/ \E w \in Workers : Claim(w, d) \/ Redeliver(d, w)
        PROVE  troubles' = troubles \/ Trouble
    BY <1>4, Zenon DEF BackoffPasses, LockExpires, GuardExpires, DedupExpires, Claim, Redeliver
  <1>5. CASE UNCHANGED vars
    BY <1>5, Zenon DEF vars
  <1>6. QED
    BY <1>1, <1>2, <1>3, <1>4, <1>5, Zenon DEF Next

Calm == troubles \in Nat /\ (troubles = 0 => Tasks)

LEMMA InductiveCalm ==
    ASSUME Inv, Calm, [Next]_vars
    PROVE  Calm'
  <1>1. troubles' = troubles \/ Trouble
    BY TroubleCounts, Zenon DEF Calm
  <1>2. troubles' \in Nat /\ (troubles' = 0 => troubles = 0 /\ ~Trouble)
    <2>1. troubles \in Nat
      BY Zenon DEF Calm
    <2>2. CASE Trouble
      BY <2>1, <2>2 DEF Trouble
    <2>3. CASE ~Trouble /\ troubles' = troubles
      BY <2>1, <2>3, Zenon
    <2>4. QED
      BY <1>1, <2>2, <2>3, Zenon
  <1>3. SUFFICES ASSUME troubles' = 0 PROVE Tasks'
    BY <1>2, Zenon DEF Calm
  <1>4. Tasks /\ ~Trouble
    BY <1>2, <1>3, Zenon DEF Calm
  <1>5. CASE Admin
    BY <1>4, <1>5, AdminTasks, Zenon
  <1>6. ASSUME NEW e \in Events, EmitStep(e) \/ EmitCallFails(e) \/ EmitterDies(e)
        PROVE  Tasks'
    BY <1>4, <1>6, EmitTasks, Zenon
  <1>7. ASSUME NEW w \in Workers, JobStep(w) \/ Deadline(w) \/ Die(w)
        PROVE  Tasks'
    <2>1. ~Die(w)
      BY <1>4, Zenon DEF Die
    <2>2. QED
      BY <1>4, <1>7, <2>1, IndoorsTasks, RequeueTasks, LockTasks, ReturnTasks, Zenon DEF JobStep, Indoors
  <1>8. ASSUME NEW d \in Deliveries,
               \/ BackoffPasses(d) \/ LockExpires(d) \/ GuardExpires(d) \/ DedupExpires(d)
               \/ \E w \in Workers : Claim(w, d) \/ Redeliver(d, w)
        PROVE  Tasks'
    BY <1>4, <1>8, TimeTasks, Zenon
  <1>9. CASE UNCHANGED vars
    <2>1. UNCHANGED <<emit, lock, job, queued, claimed, dedup, dead, row>>
      BY <1>9, Zenon DEF vars, busVars, lockVars, queueVars
    <2>2. QED
      BY <1>4, <2>1, RowTasks, Zenon DEF Exists, Settled
  <1>10. QED
    BY <1>5, <1>6, <1>7, <1>8, <1>9, Zenon DEF Next

LEMMA InitCalm ==
    ASSUME Init
    PROVE  Calm
  <1>1. troubles \in Nat
    BY Zenon DEF Init
  <1>2. Emits
    <2>1. PICK r \in EmitType : r = [at |-> "none", todo |-> {}, now |-> None]
      BY Zenon DEF EmitType
    <2>2. r.at = "none" /\ emit = [e \in Events |-> r]
      BY <2>1, Zenon DEF Init
    <2>3. QED
      BY <2>2, Zenon DEF Emits
  <1>3. ASSUME NEW d \in Deliveries PROVE One(d)
    <2>1. ~Exists(d)
      BY Zenon DEF Init, NoRow, Exists
    <2>2. \A w \in Workers : ~Busy(w, d)
      BY NoJobType, Zenon DEF Init, Busy
    <2>3. Untouched(d) /\ Locked(d)
      BY <2>2, Zenon DEF Init, Untouched, Locked
    <2>4. QED
      BY <2>1, <2>3, Zenon DEF One
  <1>4. QED
    BY <1>1, <1>2, <1>3, Zenon DEF Calm, Tasks

(* Until a call, a worker or a deadline fails, a delivery that no job has    *)
(* tried yet is queued, about to be queued by Emit, or in a job's hands      *)
(* (webhook.go:58-81), for any number of endpoints, events and workers.      *)
THEOREM ScheduledStaysInHand == Spec => []ScheduledIsTried
  <1>1. Calm => ScheduledIsTried
    BY Zenon DEF Calm, Tasks, One, Handled, ScheduledIsTried
  <1>2. Init => Inv /\ Calm
    BY Initially, InitCalm, Zenon
  <1>3. Inv /\ Calm /\ [Next]_vars => Inv' /\ Calm'
    BY Inductive, InductiveCalm, Zenon
  <1>4. QED
    BY <1>1, <1>2, <1>3, PTL DEF Spec

=============================================================================
