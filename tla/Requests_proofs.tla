--------------------------- MODULE Requests_proofs ---------------------------
(***************************************************************************)
(* For any number of requests, keys, slots and troubles: handlers of one   *)
(* idempotency key run a lifetime apart, the shutdown cuts nobody off       *)
(* before its grace is over, the semaphore and the limiter let through what *)
(* they should, and the audit log tells what administrators did.            *)
(***************************************************************************)
EXTENDS Requests, FiniteSetTheorems, TLAPS

Stages == {"away", "semaphore", "limit", "idem", "running", "close", "done", "lost"}

RequestType ==
    [at : Stages, q : Traffic \union {None}, t : Int, claim : Int \union {None},
     status : Int, audited : {TRUE, FALSE}, late : Int]

RunType == [id : Ids, key : Keys, claim : Nat, end : Nat \union {None}]

\* The request has asked for its idempotency key.
Past(s) == s.at \notin {"away", "semaphore", "limit", "idem"}

Typed ==
    /\ now \in Nat
    /\ keys \in [Keys -> Nat]
    /\ req \in [Ids -> RequestType]
    /\ \A r \in Ids : req[r].at # "away" => req[r].q \in Traffic
    /\ runs \subseteq RunType

\* Every run is of a request past its key, began and ended by now, and its
\* key stands, or stood, for a lifetime from either.
Covered(x) ==
    /\ x.claim <= now /\ (x.end # None => x.end <= now)
    /\ Past(req[x.id]) /\ req[x.id].q.key = x.key
    /\ keys[x.key] >= x.claim + KeyTTL
    /\ x.end # None /\ x.end < x.claim + KeyTTL => keys[x.key] >= x.end + KeyTTL

Draining == proc = "draining" => signalled \in Nat

IInv == Typed /\ (\A x \in runs : Covered(x)) /\ RunsApart /\ Draining /\ GraceGiven

----------------------------------------------------------------------------
(* A request that has not arrived.                                           *)
LEMMA FreshState == Fresh \in RequestType /\ Fresh.at = "away"
  <1> DEFINE u(a, z, b) == [at |-> a, q |-> None, t |-> z, claim |-> None, status |-> z,
                            audited |-> b, late |-> z]
  <1>1. ASSUME NEW a \in Stages, NEW z \in Int, NEW b \in {TRUE, FALSE}
        PROVE  u(a, z, b) \in RequestType /\ u(a, z, b).at = a
    BY Zenon DEF RequestType
  <1>2. Fresh = u("away", 0, TRUE)
    BY Zenon DEF Fresh
  <1>3. "away" \in Stages /\ 0 \in Int /\ TRUE \in {TRUE, FALSE}
    BY DEF Stages
  <1> HIDE DEF u
  <1>4. QED
    BY <1>1, <1>2, <1>3, Zenon

(* An answer leaves the request itself alone and has it past its key, if it *)
(* is not lost.                                                             *)
LEMMA EndingState ==
    ASSUME NEW s \in RequestType, NEW n \in Int
    PROVE  /\ Ending(s, n) \in RequestType /\ Ending(s, n).q = s.q
           /\ Ending(s, n).at \in {"done", "close"}
  <1> DEFINE e(a, z) == [s EXCEPT !.at = a, !.status = n, !.t = z]
  <1>1. ASSUME NEW a \in Stages, NEW z \in Int
        PROVE  e(a, z) \in RequestType /\ e(a, z).q = s.q /\ e(a, z).at = a
    BY Zenon DEF RequestType
  <1>2. 0 \in Int /\ "done" \in Stages /\ "close" \in Stages
    BY DEF Stages
  <1>3. Ending(s, n) = e("done", 0) \/ Ending(s, n) = e("close", 0)
    BY Zenon DEF Ending
  <1> HIDE DEF e
  <1>4. QED
    BY <1>1, <1>2, <1>3

(* A check of the route lets the request go on or answers it.               *)
LEMMA ProtectState ==
    ASSUME NEW s \in RequestType, NEW checks, NEW at \in Stages
    PROVE  /\ Protect(s, checks, at) \in RequestType /\ Protect(s, checks, at).q = s.q
           /\ Protect(s, checks, at).at \in {"done", "close", at}
  <1>1. [s EXCEPT !.at = at] \in RequestType /\ [s EXCEPT !.at = at].q = s.q /\ [s EXCEPT !.at = at].at = at
    BY Zenon DEF RequestType
  <1>2. QED
    BY <1>1, EndingState DEF Protect

(* What a step on one request must do for the invariant to hold afterwards,  *)
(* if it leaves the keys and the history of runs alone.                      *)
Keeps(s, u) == (Past(s) => Past(u) /\ u.q = s.q) /\ (u.at # "away" => u.q \in Traffic)

LEMMA Quiet ==
    ASSUME IInv, runs' = runs, keys' = keys, now' \in Nat, now <= now',
           req' \in [Ids -> RequestType],
           \A r \in Ids : Keeps(req[r], req'[r])
    PROVE  Typed' /\ (\A x \in runs' : Covered(x)') /\ RunsApart'
  <1>1. Typed'
    BY Zenon DEF IInv, Typed, Keeps
  <1>2. ASSUME NEW x \in runs PROVE Covered(x)'
    <2>1. x \in RunType /\ Covered(x)
      BY Zenon DEF IInv, Typed
    <2>2. Past(req'[x.id]) /\ req'[x.id].q = req[x.id].q
      BY <2>1, Zenon DEF Covered, Keeps, RunType
    <2>3. x.claim <= now' /\ (x.end # None => x.end <= now')
      BY <2>1 DEF Covered, RunType, IInv, Typed
    <2>4. QED
      BY <2>1, <2>2, <2>3, Zenon DEF Covered
  <1>3. RunsApart'
    BY Zenon DEF IInv, RunsApart
  <1>4. QED
    BY <1>1, <1>2, <1>3, Zenon

(* A step that gives one request a new state.                                *)
LEMMA OneRequest ==
    ASSUME IInv, NEW r \in Ids, NEW s \in RequestType, To(r, s), Keeps(req[r], s),
           s.at # "lost"
    PROVE  /\ req' \in [Ids -> RequestType]
           /\ \A x \in Ids : Keeps(req[x], req'[x])
           /\ GraceGiven'
  <1>1. req' = [req EXCEPT ![r] = s] /\ req \in [Ids -> RequestType]
    BY Zenon DEF To, IInv, Typed
  <1>2. req'[r] = s /\ \A x \in Ids \ {r} : req'[x] = req[x]
    BY <1>1, Zenon
  <1>3. req' \in [Ids -> RequestType]
    BY <1>1, Zenon
  <1>4. \A x \in Ids : Keeps(req[x], req'[x])
    <2>1. ASSUME NEW x \in Ids, x # r PROVE Keeps(req[x], req'[x])
      BY <1>2, <2>1, Zenon DEF Keeps, IInv, Typed
    <2>2. QED
      BY <2>1, <1>2, Zenon
  <1>5. GraceGiven'
    BY <1>2, Zenon DEF GraceGiven, IInv
  <1>6. QED
    BY <1>3, <1>4, <1>5, Zenon

LEMMA Calm ==
    ASSUME IInv, NEW r \in Ids, NEW s \in RequestType, To(r, s), Keeps(req[r], s), s.at # "lost",
           UNCHANGED <<process, keys, runs>>
    PROVE  IInv'
  <1>1. now' = now /\ proc' = proc /\ signalled' = signalled /\ keys' = keys /\ runs' = runs
    BY Zenon DEF process
  <1>2. Draining'
    BY <1>1, Zenon DEF Draining, IInv
  <1>3. now' \in Nat /\ now <= now'
    BY <1>1 DEF IInv, Typed
  <1>4. Typed' /\ (\A x \in runs' : Covered(x)') /\ RunsApart'
    BY <1>1, <1>3, OneRequest, Quiet, Zenon
  <1>5. QED
    BY <1>2, <1>4, OneRequest, Zenon DEF IInv

----------------------------------------------------------------------------
(* The steps that touch neither the keys nor the runs.                       *)
LEMMA Answers ==
    ASSUME IInv, NEW r \in Ids, NEW n \in Int, req[r].at # "away", Answer(r, n),
           UNCHANGED <<process, keys, runs>>
    PROVE  IInv'
  <1> DEFINE s == Ending(req[r], n)
  <1>1. req[r] \in RequestType /\ req[r].q \in Traffic
    BY Zenon DEF IInv, Typed
  <1>2. s \in RequestType /\ s.q = req[r].q /\ s.at \in {"done", "close"}
    BY <1>1, EndingState, Zenon
  <1>3. To(r, s)
    BY Zenon DEF Answer
  <1> HIDE DEF s
  <1>4. Keeps(req[r], s) /\ s.at # "lost"
    BY <1>1, <1>2, Zenon DEF Keeps, Past
  <1>5. QED
    BY <1>2, <1>3, <1>4, Calm, Zenon

LEMMA Passes ==
    ASSUME IInv, NEW r \in Ids, req[r].at = "limit", Pass(r),
           UNCHANGED <<process, keys, runs>>
    PROVE  IInv'
  <1> DEFINE u == [req[r] EXCEPT !.t = 0]
             at == IF req[r].q.route = "admin" THEN "running" ELSE "idem"
             s == Protect(u, Before[req[r].q.route], at)
  <1>1. req[r] \in RequestType /\ req[r].q \in Traffic
    BY Zenon DEF IInv, Typed
  <1>2. u \in RequestType /\ u.q = req[r].q
    <2>1. ASSUME NEW z \in Int
          PROVE  [req[r] EXCEPT !.t = z] \in RequestType /\ [req[r] EXCEPT !.t = z].q = req[r].q
      BY <1>1, Zenon DEF RequestType
    <2>2. QED
      BY <2>1
  <1>3. at \in {"running", "idem"} /\ at \in Stages
    BY Zenon DEF Stages
  <1>4. To(r, s)
    BY Zenon DEF Pass
  <1> HIDE DEF u, at
  <1>5. s \in RequestType /\ s.q = u.q /\ s.at \in {"done", "close", at}
    BY <1>2, <1>3, ProtectState, Zenon
  <1> HIDE DEF s
  <1>6. Keeps(req[r], s) /\ s.at # "lost"
    BY <1>1, <1>2, <1>3, <1>5, Zenon DEF Keeps, Past
  <1>7. QED
    BY <1>4, <1>5, <1>6, Calm, Zenon

LEMMA ArriveKeeps ==
    ASSUME IInv, NEW r \in Ids, NEW q \in Traffic, Arrive(r, q)
    PROVE  IInv'
  <1> DEFINE s == [Fresh EXCEPT !.at = "semaphore", !.q = q]
  <1>1. s \in RequestType /\ s.q = q /\ s.at = "semaphore"
    <2>2. ASSUME NEW u \in RequestType, NEW a \in Stages
          PROVE  LET v == [u EXCEPT !.at = a, !.q = q]
                 IN  v \in RequestType /\ v.q = q /\ v.at = a
      BY Zenon DEF RequestType
    <2>3. "semaphore" \in Stages
      BY Zenon DEF Stages
    <2>4. QED
      BY <2>2, <2>3, FreshState, Zenon
  <1>2. To(r, s) /\ req[r].at = "away" /\ UNCHANGED <<process, keys, runs>>
    BY Zenon DEF Arrive, redis, history
  <1> HIDE DEF s
  <1>3. Keeps(req[r], s) /\ s.at # "lost"
    BY <1>1, <1>2, Zenon DEF Keeps, Past
  <1>4. QED
    BY <1>1, <1>2, <1>3, Calm, Zenon

LEMMA AdmitKeeps ==
    ASSUME IInv, NEW r \in Ids, Admit(r)
    PROVE  IInv'
  <1>1. req[r].at = "semaphore" /\ UNCHANGED <<process, keys, runs>>
    BY Zenon DEF Admit, redis, history
  <1>2. req[r] \in RequestType /\ now \in Int
    BY DEF IInv, Typed
  <1>3. CASE Answer(r, 413) \/ Answer(r, 403)
    BY <1>1, <1>3, Answers
  <1>4. CASE To(r, [req[r] EXCEPT !.at = "limit", !.t = now])
    <2> DEFINE s == [req[r] EXCEPT !.at = "limit", !.t = now]
    <2>1. s \in RequestType /\ s.q = req[r].q /\ s.at = "limit"
      <3>1. ASSUME NEW at \in Stages
            PROVE  LET u == [req[r] EXCEPT !.at = at, !.t = now]
                   IN  u \in RequestType /\ u.q = req[r].q /\ u.at = at
        BY <1>2, Zenon DEF RequestType
      <3>2. "limit" \in Stages
        BY Zenon DEF Stages
      <3>3. QED
        BY <3>1, <3>2, Zenon
    <2>2. To(r, s)
      BY <1>4, Zenon
    <2> HIDE DEF s
    <2>3. Keeps(req[r], s) /\ s.at # "lost"
      BY <1>1, <2>1, Zenon DEF Keeps, Past, IInv, Typed
    <2>4. QED
      BY <1>1, <2>1, <2>2, <2>3, Calm, Zenon
  <1>5. QED
    BY <1>3, <1>4, Zenon DEF Admit

LEMMA CancelledKeeps ==
    ASSUME IInv, NEW r \in Ids, Cancelled(r)
    PROVE  IInv'
  <1> DEFINE s == [req[r] EXCEPT !.at = "done", !.status = 408]
  <1>1. req[r].at = "semaphore" /\ To(r, s) /\ UNCHANGED <<process, keys, runs>>
    BY Zenon DEF Cancelled, redis, history
  <1>2. s \in RequestType /\ s.q = req[r].q /\ s.at = "done"
    <2>1. ASSUME NEW at \in Stages, NEW n \in Int
          PROVE  LET u == [req[r] EXCEPT !.at = at, !.status = n]
                 IN  u \in RequestType /\ u.q = req[r].q /\ u.at = at
      BY Zenon DEF RequestType, IInv, Typed
    <2>2. "done" \in Stages /\ 408 \in Int
      BY DEF Stages
    <2>3. QED
      BY <2>1, <2>2, Zenon
  <1> HIDE DEF s
  <1>3. Keeps(req[r], s) /\ s.at # "lost"
    BY <1>1, <1>2, Zenon DEF Keeps, Past, IInv, Typed
  <1>4. QED
    BY <1>1, <1>2, <1>3, Calm, Zenon

LEMMA AllowKeeps ==
    ASSUME IInv, NEW r \in Ids, Allow(r) \/ AllowFails(r)
    PROVE  IInv'
  <1>1. req[r].at = "limit" /\ (Pass(r) \/ Answer(r, 429)) /\ UNCHANGED <<process, keys, runs>>
    BY Zenon DEF Allow, AllowFails, redis, history
  <1>2. QED
    BY <1>1, Passes, Answers

LEMMA Unaudited ==
    ASSUME IInv, NEW r \in Ids, NEW n \in Int, req[r].at # "away",
           To(r, [Ending(req[r], n) EXCEPT !.audited = FALSE]),
           UNCHANGED <<process, keys, runs>>
    PROVE  IInv'
  <1> DEFINE e == Ending(req[r], n)
             s == [e EXCEPT !.audited = FALSE]
  <1>1. req[r] \in RequestType /\ req[r].q \in Traffic
    BY Zenon DEF IInv, Typed
  <1>2. e \in RequestType /\ e.q = req[r].q /\ e.at \in {"done", "close"}
    BY <1>1, EndingState, Zenon
  <1>3. To(r, s)
    BY Zenon
  <1> HIDE DEF e
  <1>4. s \in RequestType /\ s.q = e.q /\ s.at = e.at
    <2>1. ASSUME NEW b \in {TRUE, FALSE}
          PROVE  LET u == [e EXCEPT !.audited = b]
                 IN  u \in RequestType /\ u.q = e.q /\ u.at = e.at
      BY <1>2, Zenon DEF RequestType
    <2>2. QED
      BY <2>1, Zenon
  <1> HIDE DEF s
  <1>5. Keeps(req[r], s) /\ s.at # "lost"
    BY <1>1, <1>2, <1>4, Zenon DEF Keeps, Past
  <1>6. QED
    BY <1>3, <1>4, <1>5, Calm, Zenon

LEMMA HandlerKeeps ==
    ASSUME IInv, NEW r \in Ids, Returns(r) \/ Panics(r)
    PROVE  IInv'
  <1>1. req[r].at = "running" /\ UNCHANGED <<process, keys, runs>>
    BY Zenon DEF Returns, Panics, redis, history
  <1>2. \E n \in Int : Answer(r, n) \/ To(r, [Ending(req[r], n) EXCEPT !.audited = FALSE])
    <2>1. CASE Panics(r)
      <3>1. 500 \in Int /\ To(r, [Ending(req[r], 500) EXCEPT !.audited = FALSE])
        BY <2>1 DEF Panics
      <3>2. QED
        BY <3>1, Zenon
    <2>2. CASE Returns(r)
      <3>1. PICK n \in IF Tenant(req[r].q) = None THEN {400} ELSE {200, 500} :
                Answer(r, n) \/ To(r, [Ending(req[r], n) EXCEPT !.audited = FALSE])
        <4> DEFINE S == IF Tenant(req[r].q) = None THEN {400} ELSE {200, 500}
                   admin == req[r].q.route = "admin"
                   A(n) == Answer(r, n)
                   B(n) == To(r, [Ending(req[r], n) EXCEPT !.audited = FALSE])
        <4>1. \E n \in S : IF admin
                            THEN \/ Record(r, n) /\ A(n) /\ UNCHANGED troubles
                                 \/ Trouble /\ UNCHANGED audit /\ B(n)
                            ELSE A(n) /\ UNCHANGED <<audit, troubles>>
          BY <2>2, Zenon DEF Returns
        <4> HIDE DEF S, admin, A, B
        <4>2. \E n \in S : A(n) \/ B(n)
          BY <4>1, Zenon
        <4>3. QED
          BY <4>2, Zenon DEF S, A, B
      <3>2. n \in Int
        OBVIOUS
      <3>3. QED
        BY <3>1, <3>2, Zenon
    <2>3. QED
      BY <2>1, <2>2, Zenon
  <1>3. QED
    BY <1>1, <1>2, Answers, Unaudited, Zenon

----------------------------------------------------------------------------
(* The keys.  A key that is set or renewed ends a lifetime from now, which   *)
(* covers every run of it, whenever it began or ended.                       *)
Raised(k) == keys' = [keys EXCEPT ![k] = now + KeyTTL]

LEMMA StillCovered ==
    ASSUME IInv, NEW k \in Keys, keys' = keys \/ Raised(k), now' = now,
           NEW x \in runs, Past(req'[x.id]), req'[x.id].q = req[x.id].q
    PROVE  Covered(x)'
  <1>1. x \in RunType /\ Covered(x) /\ now \in Nat /\ keys \in [Keys -> Nat]
    BY Zenon DEF IInv, Typed
  <1>2. keys'[x.key] = keys[x.key] \/ keys'[x.key] = now + KeyTTL
    BY <1>1, Zenon DEF Raised, RunType
  <1>3. keys'[x.key] >= x.claim + KeyTTL
    BY <1>1, <1>2, RequestConstants DEF Covered, RunType
  <1>4. x.end # None /\ x.end < x.claim + KeyTTL => keys'[x.key] >= x.end + KeyTTL
    BY <1>1, <1>2, RequestConstants DEF Covered, RunType
  <1>5. QED
    BY <1>1, <1>3, <1>4, Zenon DEF Covered

LEMMA RaisedType ==
    ASSUME IInv, NEW k \in Keys, keys' = keys \/ Raised(k)
    PROVE  keys' \in [Keys -> Nat]
  BY RequestConstants DEF IInv, Typed, Raised

(* A step on one request that at most raises a key, and runs nothing.        *)
LEMMA KeyStep ==
    ASSUME IInv, NEW r \in Ids, NEW s \in RequestType, To(r, s), Keeps(req[r], s), s.at # "lost",
           NEW k \in Keys, keys' = keys \/ Raised(k), UNCHANGED process
    PROVE  /\ now' = now /\ Draining' /\ GraceGiven'
           /\ runs' \subseteq RunType => Typed'
           /\ \A x \in runs : Covered(x)'
           /\ runs' = runs => IInv'
  <1>1. now' = now /\ Draining'
    BY Zenon DEF process, Draining, IInv
  <1>2. req' \in [Ids -> RequestType] /\ (\A x \in Ids : Keeps(req[x], req'[x])) /\ GraceGiven'
    BY OneRequest, Zenon
  <1>3. runs' \subseteq RunType => Typed'
    BY <1>1, <1>2, RaisedType, Zenon DEF Typed, IInv, Keeps
  <1>4. ASSUME NEW x \in runs PROVE Covered(x)'
    <2>1. Past(req'[x.id]) /\ req'[x.id].q = req[x.id].q
      BY <1>2, Zenon DEF IInv, Typed, Covered, Keeps, RunType
    <2>2. QED
      BY <1>1, <2>1, StillCovered, Zenon
  <1>5. runs' = runs => IInv'
    BY <1>1, <1>2, <1>3, <1>4, Zenon DEF IInv, Typed, RunsApart
  <1>6. QED
    BY <1>1, <1>2, <1>3, <1>4, <1>5, Zenon

LEMMA IdemFailsKeeps ==
    ASSUME IInv, NEW r \in Ids, IdemFails(r)
    PROVE  IInv'
  <1> DEFINE k == req[r].q.key
             s == Ending(req[r], 500)
  <1>1. req[r] \in RequestType /\ req[r].at = "idem" /\ req[r].q \in Traffic /\ k # None
    BY Zenon DEF IInv, Typed, IdemFails
  <1>2. k \in Keys
    BY <1>1, Zenon DEF Keys
  <1>3. UNCHANGED process /\ runs' = runs /\ To(r, s)
    BY Zenon DEF IdemFails, history, Answer
  <1>4. keys' = keys \/ Raised(k)
    BY <1>2, Zenon DEF IdemFails, Raised, IInv, Typed
  <1>5. s \in RequestType /\ s.q = req[r].q /\ s.at \in {"done", "close"}
    BY <1>1, EndingState
  <1> HIDE DEF s, k
  <1>6. Keeps(req[r], s) /\ s.at # "lost"
    BY <1>1, <1>5, Zenon DEF Keeps, Past
  <1>7. QED
    BY <1>2, <1>3, <1>4, <1>5, <1>6, KeyStep, Zenon

(* A run that begins when its key is gone begins a lifetime after every other *)
(* run of the key began, and after it ended if it ended within that lifetime. *)
LEMMA IdemKeeps ==
    ASSUME IInv, NEW r \in Ids, Idem(r)
    PROVE  IInv'
  <1> DEFINE k == req[r].q.key
             claim == IF k = None THEN None ELSE now
             u == [req[r] EXCEPT !.claim = claim]
             s == Protect(u, Behind[req[r].q.route], "running")
  <1>1. req[r] \in RequestType /\ req[r].at = "idem" /\ req[r].q \in Traffic /\ now \in Nat
    BY Zenon DEF IInv, Typed, Idem
  <1>2. k # None => k \in Keys
    BY <1>1, Zenon DEF Keys
  <1>3. UNCHANGED process
    BY Zenon DEF Idem
  <1>4. u \in RequestType /\ u.q = req[r].q
    <2>1. claim \in Int \union {None}
      BY <1>1
    <2> HIDE DEF claim
    <2>2. QED
      BY <1>1, <2>1, Zenon DEF RequestType
  <1>5. s \in RequestType /\ s.q = req[r].q /\ s.at \in {"done", "close", "running"}
    <2>1. "running" \in Stages
      BY Zenon DEF Stages
    <2> HIDE DEF u
    <2>2. QED
      BY <1>4, <2>1, ProtectState, Zenon
  <1>6. \/ Answer(r, 409) /\ UNCHANGED <<keys, runs>>
        \/ k = None /\ To(r, s) /\ UNCHANGED <<keys, runs>>
        \/ /\ k # None /\ ~Live(k) /\ To(r, s) /\ Raised(k)
           /\ \/ runs' = runs
              \/ s.at = "running" /\ runs' = runs \union {[id |-> r, key |-> k, claim |-> now, end |-> None]}
    BY Zenon DEF Idem, Raised
  <1> HIDE DEF k, claim, u, s
  <1>7. Keeps(req[r], s) /\ s.at # "lost"
    BY <1>1, <1>5, Zenon DEF Keeps, Past
  <1>8. CASE Answer(r, 409) /\ UNCHANGED <<keys, runs>>
    BY <1>1, <1>3, <1>8, Answers
  <1>9. CASE k = None /\ To(r, s) /\ UNCHANGED <<keys, runs>>
    BY <1>3, <1>5, <1>7, <1>9, Calm, Zenon
  <1>10. CASE k # None /\ To(r, s) /\ Raised(k) /\ runs' = runs
    BY <1>2, <1>3, <1>5, <1>7, <1>10, KeyStep, Zenon
  <1>11. ASSUME k # None, ~Live(k), To(r, s), Raised(k), s.at = "running",
                runs' = runs \union {[id |-> r, key |-> k, claim |-> now, end |-> None]}
         PROVE  IInv'
    <2> DEFINE y == [id |-> r, key |-> k, claim |-> now, end |-> None]
    <2>1. k \in Keys /\ keys[k] \in Nat /\ keys[k] <= now
      BY <1>1, <1>2, <1>11 DEF Live, IInv, Typed
    <2>2. /\ now' = now /\ Draining' /\ GraceGiven'
          /\ runs' \subseteq RunType => Typed'
          /\ \A x \in runs : Covered(x)'
      BY <1>3, <1>5, <1>7, <1>11, <2>1, KeyStep, Zenon
    <2>3. y \in RunType /\ y.key = k /\ y.claim = now /\ y.end = None /\ y.id = r
      BY <1>1, <2>1, Zenon DEF RunType
    <2>4. runs' = runs \union {y}
      BY <1>11, Zenon
    <2> HIDE DEF y
    <2>5. Typed'
      BY <2>2, <2>3, <2>4, Zenon DEF IInv, Typed
    <2>6. ASSUME NEW w, w = y PROVE Covered(w)'
      <3>1. req'[r] = s /\ s.q.key = k
        BY <1>5, <1>11, Zenon DEF To, IInv, Typed, k
      <3>2. keys'[k] = now + KeyTTL
        BY <1>11, <2>1, Zenon DEF Raised, IInv, Typed
      <3>3. Past(req'[w.id]) /\ req'[w.id].q.key = w.key
        BY <1>11, <2>3, <2>6, <3>1, Zenon DEF Past
      <3>4. w.claim <= now' /\ keys'[w.key] >= w.claim + KeyTTL
        BY <1>1, <2>2, <2>3, <2>6, <3>2, RequestConstants
      <3>5. QED
        BY <2>3, <2>6, <3>3, <3>4, Zenon DEF Covered
    <2>7. ASSUME NEW x \in runs, x.key = k
          PROVE  /\ x.claim + KeyTTL <= now
                 /\ x.end # None /\ x.end < x.claim + KeyTTL => x.end + KeyTTL <= now
                 /\ ~ now <= x.claim
      <3>1. x \in RunType /\ Covered(x)
        BY Zenon DEF IInv, Typed
      <3>2. QED
        BY <1>1, <2>1, <2>7, <3>1, RequestConstants DEF Covered, RunType
    <2>8. RunsApart'
      BY <2>3, <2>4, <2>7, Zenon DEF RunsApart, IInv
    <2>9. \A x \in runs' : Covered(x)'
      BY <2>2, <2>4, <2>6, Zenon
    <2>10. QED
      BY <2>2, <2>5, <2>8, <2>9, Zenon DEF IInv
  <1>12. QED
    BY <1>6, <1>8, <1>9, <1>10, <1>11, Zenon

LEMMA CloseKeeps ==
    ASSUME IInv, NEW r \in Ids, Close(r)
    PROVE  IInv'
  <1> DEFINE k == req[r].q.key
             s == [req[r] EXCEPT !.at = "done"]
  <1>1. req[r] \in RequestType /\ req[r].at = "close" /\ req[r].q \in Traffic /\ now \in Nat
    BY Zenon DEF IInv, Typed, Close
  <1>2. UNCHANGED process /\ To(r, s)
    BY Zenon DEF Close
  <1>3. s \in RequestType /\ s.q = req[r].q /\ s.at = "done"
    BY <1>1, Zenon DEF RequestType, Stages
  <1> HIDE DEF s
  <1>4. Keeps(req[r], s) /\ s.at # "lost"
    BY <1>1, <1>3, Zenon DEF Keeps, Past
  <1>5. CASE UNCHANGED <<keys, runs>>
    BY <1>2, <1>3, <1>4, <1>5, Calm, Zenon
  <1>6. ASSUME keys' = Renewed(k), runs' = Ended(r)
        PROVE  IInv'
    <2>1. CASE \A x \in runs : x.id # r
      <3>1. runs' = runs
        BY <1>6, <2>1, Zenon DEF Ended
      <3>2. CASE k \in Keys
        <4>1. keys' = keys \/ Raised(k)
          BY <1>6, <3>2, Zenon DEF Renewed, Raised, IInv, Typed
        <4>2. QED
          BY <1>2, <1>3, <1>4, <3>1, <3>2, <4>1, KeyStep, Zenon
      <3>3. CASE k \notin Keys
        <4>1. keys' = keys
          BY <1>6, <3>3, Zenon DEF Renewed, IInv, Typed
        <4>2. QED
          BY <1>2, <1>3, <1>4, <3>1, <4>1, Calm, Zenon
      <3>4. QED
        BY <3>2, <3>3, Zenon
    <2>2. ASSUME NEW z \in runs, z.id = r PROVE IInv'
      <3>1. k \in Keys
        BY <2>2, Zenon DEF IInv, Typed, Covered, RunType
      <3>2. keys' = keys \/ Raised(k)
        BY <1>6, <3>1, Zenon DEF Renewed, Raised, IInv, Typed
      <3>3. /\ now' = now /\ Draining' /\ GraceGiven'
            /\ runs' \subseteq RunType => Typed'
            /\ \A x \in runs : Covered(x)'
        BY <1>2, <1>3, <1>4, <3>1, <3>2, KeyStep, Zenon
      <3> DEFINE end(x) == IF x.id = r THEN [x EXCEPT !.end = now] ELSE x
      <3>4. ASSUME NEW x \in runs
            PROVE  /\ end(x) \in RunType /\ end(x).id = x.id /\ end(x).key = x.key
                   /\ end(x).claim = x.claim
                   /\ end(x).end = IF x.id = r THEN now ELSE x.end
        BY <1>1, Zenon DEF IInv, Typed, RunType
      <3>5. runs' = {end(x) : x \in runs}
        BY <1>6, Zenon DEF Ended
      <3> HIDE DEF end
      <3>6. Typed'
        BY <3>3, <3>4, <3>5, Zenon
      <3>7. ASSUME NEW x \in runs, NEW w, w = end(x) PROVE Covered(w)'
        <4>1. Covered(x) /\ Covered(x)' /\ x \in RunType /\ keys[x.key] \in Nat
          BY <3>3, Zenon DEF IInv, Typed, RunType
        <4>2. /\ w.id = x.id /\ w.key = x.key /\ w.claim = x.claim
              /\ w.end = IF x.id = r THEN now ELSE x.end
          BY <3>4, <3>7, Zenon
        <4>3. CASE x.id # r
          BY <4>1, <4>2, <4>3, Zenon DEF Covered
        <4>4. CASE x.id = r
          <5>1. x.key = k
            BY <4>1, <4>4, Zenon DEF Covered
          <5>2. now < x.claim + KeyTTL => keys'[k] >= now + KeyTTL
            <6>1. now < x.claim + KeyTTL => Live(k)
              BY <1>1, <4>1, <5>1, RequestConstants DEF Covered, Live, RunType
            <6>2. Live(k) => keys'[k] = now + KeyTTL
              BY <1>6, <3>1, Zenon DEF Renewed, IInv, Typed
            <6>3. QED
              BY <1>1, <6>1, <6>2, RequestConstants
          <5>3. w.end = now /\ now <= now'
            BY <1>1, <3>3, <4>2, <4>4
          <5>4. QED
            BY <4>1, <4>2, <5>1, <5>2, <5>3, Zenon DEF Covered
        <4>5. QED
          BY <4>3, <4>4, Zenon
      <3>8. ASSUME NEW x \in runs, NEW y \in runs, x.id # y.id, x.key = y.key, x.claim <= y.claim
            PROVE  /\ y.claim >= x.claim + KeyTTL
                   /\ end(x).end # None /\ end(x).end < x.claim + KeyTTL => y.claim >= end(x).end + KeyTTL
        <4>1. /\ y.claim >= x.claim + KeyTTL
              /\ x.end # None /\ x.end < x.claim + KeyTTL => y.claim >= x.end + KeyTTL
          BY <3>8, Zenon DEF IInv, RunsApart
        <4>2. x \in RunType /\ y \in RunType /\ y.claim <= now
          BY Zenon DEF IInv, Typed, Covered
        <4>3. QED
          BY <1>1, <3>4, <4>1, <4>2, RequestConstants DEF RunType
      <3>9. RunsApart'
        <4>1. SUFFICES ASSUME NEW x \in runs, NEW y \in runs, end(x).id # end(y).id,
                              end(x).key = end(y).key, end(x).claim <= end(y).claim
                       PROVE  /\ end(y).claim >= end(x).claim + KeyTTL
                              /\ end(x).end # None /\ end(x).end < end(x).claim + KeyTTL
                                    => end(y).claim >= end(x).end + KeyTTL
          BY <3>5 DEF RunsApart
        <4>2. QED
          BY <3>4, <3>8, <4>1, Zenon
      <3>10. \A x \in runs' : Covered(x)'
        BY <3>5, <3>7, Zenon
      <3>11. QED
        BY <3>3, <3>6, <3>9, <3>10, Zenon DEF IInv
    <2>3. QED
      BY <2>1, <2>2, Zenon
  <1>7. QED
    BY <1>5, <1>6, Zenon DEF Close

----------------------------------------------------------------------------
(* The process and time.                                                     *)
LEMMA ExitKeeps ==
    ASSUME IInv, Exit
    PROVE  IInv'
  <1>1. /\ now' = now /\ keys' = keys /\ runs' = runs /\ proc' = "down"
        /\ now \in Nat /\ req \in [Ids -> RequestType] /\ signalled \in Nat
    BY Zenon DEF Exit, redis, history, IInv, Typed, Draining
  <1>2. ASSUME NEW r \in Ids
        PROVE  /\ req'[r] \in RequestType /\ Keeps(req[r], req'[r])
               /\ req'[r].at = "lost" => req'[r].late >= Grace
    <2>1. CASE r \notin Active
      <3>1. req'[r] = req[r]
        BY <2>1, Zenon DEF Exit
      <3>2. QED
        BY <1>1, <3>1, Zenon DEF Keeps, IInv, Typed, GraceGiven
    <2>2. CASE r \in Active
      <3> DEFINE s == [req[r] EXCEPT !.at = "lost", !.late = now - signalled]
      <3>1. req'[r] = s
        BY <2>2, Zenon DEF Exit
      <3>2. now >= signalled + Grace
        BY <2>2, Zenon DEF Exit, Drained
      <3>3. s \in RequestType /\ s.q = req[r].q /\ s.at = "lost" /\ s.late = now - signalled
        <4>1. now - signalled \in Int /\ "lost" \in Stages
          BY <1>1 DEF Stages
        <4>2. ASSUME NEW a \in Stages, NEW n \in Int
              PROVE  LET u == [req[r] EXCEPT !.at = a, !.late = n]
                     IN  u \in RequestType /\ u.q = req[r].q /\ u.at = a /\ u.late = n
          BY <1>1, Zenon DEF RequestType
        <4>3. QED
          BY <4>1, <4>2, Zenon
      <3> HIDE DEF s
      <3>4. req[r].q \in Traffic
        BY <2>2, Zenon DEF Active, Waiting, Inside, IInv, Typed
      <3>5. s.late >= Grace
        BY <1>1, <3>2, <3>3, RequestConstants
      <3>6. QED
        BY <3>1, <3>3, <3>4, <3>5, Zenon DEF Keeps, Past
    <2>3. QED
      BY <2>1, <2>2, Zenon
  <1>3. req' \in [Ids -> RequestType]
    <2>1. req' = [r \in Ids |-> req'[r]]
      BY Zenon DEF Exit
    <2>2. QED
      BY <1>2, <2>1, Zenon
  <1>4. Typed' /\ (\A x \in runs' : Covered(x)') /\ RunsApart'
    BY <1>1, <1>2, <1>3, Quiet
  <1>5. GraceGiven' /\ Draining'
    BY <1>1, <1>2, Zenon DEF GraceGiven, Draining
  <1>6. QED
    BY <1>4, <1>5, Zenon DEF IInv

LEMMA ProcessKeeps ==
    ASSUME IInv, Sigterm \/ Restart \/ Tick \/ UNCHANGED vars
    PROVE  IInv'
  <1>1. runs' = runs /\ keys' = keys /\ req' = req /\ now' \in Nat /\ now <= now'
    BY DEF Sigterm, Restart, Tick, vars, redis, history, IInv, Typed
  <1>2. req' \in [Ids -> RequestType] /\ \A r \in Ids : Keeps(req[r], req'[r])
    BY <1>1, Zenon DEF IInv, Typed, Keeps
  <1>3. Typed' /\ (\A x \in runs' : Covered(x)') /\ RunsApart'
    BY <1>1, <1>2, Quiet, Zenon
  <1>4. GraceGiven'
    BY <1>1, Zenon DEF GraceGiven, IInv
  <1>5. Draining'
    BY Zenon DEF Sigterm, Restart, Tick, vars, Draining, IInv, Typed
  <1>6. QED
    BY <1>3, <1>4, <1>5, Zenon DEF IInv

LEMMA Initially ==
    ASSUME Init
    PROVE  IInv
  <1>2. req \in [Ids -> RequestType] /\ \A r \in Ids : req[r].at = "away"
    BY FreshState, Zenon DEF Init
  <1>3. now = 0 /\ runs = {} /\ proc = "up" /\ keys = [k \in Keys |-> 0]
    BY Zenon DEF Init
  <1>4. Typed
    BY <1>2, <1>3, Zenon DEF Typed
  <1>5. QED
    BY <1>2, <1>3, <1>4, Zenon DEF IInv, RunsApart, Draining, GraceGiven

LEMMA Inductive == IInv /\ [Next]_vars => IInv'
  <1>1. SUFFICES ASSUME IInv, [Next]_vars PROVE IInv'
    BY Zenon
  <1>2. ASSUME NEW r \in Ids,
               (\E q \in Traffic : Arrive(r, q)) \/ Admit(r) \/ Step(r) \/ Fault(r)
        PROVE  IInv'
    <2>1. CASE \E q \in Traffic : Arrive(r, q)
      BY <1>1, <2>1, ArriveKeeps, Zenon
    <2>2. CASE Admit(r)
      BY <1>1, <2>2, AdmitKeeps, Zenon
    <2>3. CASE Allow(r) \/ AllowFails(r)
      BY <1>1, <2>3, AllowKeeps, Zenon
    <2>4. CASE Idem(r)
      BY <1>1, <2>4, IdemKeeps, Zenon
    <2>5. CASE IdemFails(r)
      BY <1>1, <2>5, IdemFailsKeeps, Zenon
    <2>6. CASE Returns(r) \/ Panics(r)
      BY <1>1, <2>6, HandlerKeeps, Zenon
    <2>7. CASE Close(r)
      BY <1>1, <2>7, CloseKeeps, Zenon
    <2>8. CASE Cancelled(r)
      BY <1>1, <2>8, CancelledKeeps, Zenon
    <2>9. QED
      BY <1>2, <2>1, <2>2, <2>3, <2>4, <2>5, <2>6, <2>7, <2>8, Zenon DEF Step, Fault
  <1>3. QED
    BY <1>1, <1>2, ExitKeeps, ProcessKeeps, Zenon DEF Next

(* Whatever Redis, clients and restarts do, two handlers of one idempotency  *)
(* key begin a key's lifetime apart, and the second begins a lifetime after   *)
(* the first was over if that was over within its own.                        *)
THEOREM HandlersRunApart == Spec => []RunsApart
  <1>1. IInv => RunsApart
    BY Zenon DEF IInv
  <1>2. QED
    BY <1>1, Initially, Inductive, PTL DEF Spec

(* No request is cut off by the shutdown before the grace period is over.    *)
THEOREM GraceIsGiven == Spec => []GraceGiven
  <1>1. IInv => GraceGiven
    BY Zenon DEF IInv
  <1>2. QED
    BY <1>1, Initially, Inductive, PTL DEF Spec

----------------------------------------------------------------------------
(***************************************************************************)
(* The semaphore, the limiter and the audit log.  A second invariant, next *)
(* to IInv: each of its parts speaks of one piece of shared state and of   *)
(* the requests that use it.                                               *)
(***************************************************************************)
Outside == {"away", "semaphore", "done", "lost"}

\* The semaphore: as many requests hold a slot as there are, at most.
SlotsHeld ==
    /\ slots \in Nat /\ proc \in {"up", "draining", "down"} /\ now <= MaxTime
    /\ IsFiniteSet(Inside) /\ Cardinality(Inside) <= slots

\* A limiter's reading of the clock is not too old.
Reading(s) == s.at = "limit" => s.t \in Nat /\ s.t <= now /\ now <= s.t + MaxDelay

\* What the route of administrators guarantees of its requests.
Guarded(s) ==
    s.at # "away" /\ s.q.route = "admin" =>
        s.claim = None /\ s.at \notin {"idem", "close"} /\ (s.at = "running" => requireRole(s.q))

EntryType == [score : Nat, id : Ids]
Entries == IsFiniteSet(window) /\ window \subseteq EntryType /\ \A e \in window : e.score <= now

\* A request that passed is behind the limiter for good, and its entry is in
\* the sorted set for as long as it can count in a period that reaches now.
PassType == [id : Ids, at : Nat]
BehindLimiter(s) == s.at \notin {"away", "semaphore", "limit"}
Remembered(p) ==
    now <= p.at + Window - MaxDelay - 1 => \E e \in window : e.id = p.id /\ e.score >= p.at - MaxDelay
PassedOnce ==
    /\ passed \subseteq PassType
    /\ \A p \in passed : /\ p.at <= now /\ p.at + Window <= windowEnds
                         /\ BehindLimiter(req[p.id]) /\ Remembered(p)
    /\ \A p, o \in passed : p.id = o.id => p = o

Codes == {200, 400, 500}
Owed(s) == s.at = "done" /\ s.q.route = "admin" /\ s.audited /\ s.status \in Codes
Logged ==
    /\ audit \subseteq [id : Ids, status : Codes]
    /\ \A x \in audit : LET s == req[x.id]
                        IN  s.at = "done" /\ s.q.route = "admin" /\ requireRole(s.q) /\ s.status = x.status
    /\ \A r \in Ids : Owed(req[r]) => \E x \in audit : x.id = r

Shared ==
    /\ windowEnds \in Nat
    /\ SlotsHeld /\ Entries /\ PassedOnce /\ RateHolds /\ Logged
    /\ \A r \in Ids : Reading(req[r]) /\ Guarded(req[r])

(* One request's step, as far as the others can tell: it is not over before,  *)
(* it takes a fresh reading when it comes to the limiter, never goes back     *)
(* before it, and respects the route of administrators.                       *)
Turn(s, u) ==
    /\ u \in RequestType
    /\ s.at \notin {"done", "lost"} /\ u.at \notin {"away", "lost"}
    /\ s.at = "away" => u.at = "semaphore"
    /\ u.at = "limit" => u.t = now
    /\ BehindLimiter(s) => BehindLimiter(u)
    /\ Guarded(u)

(* An answer to an administrator's request ends it.                           *)
LEMMA EndingTurn ==
    ASSUME NEW s \in RequestType, NEW n \in Int, Guarded(s), s.at \notin {"away", "done", "lost"}
    PROVE  /\ Turn(s, Ending(s, n)) /\ Ending(s, n).status = n /\ Ending(s, n).q = s.q
           /\ Ending(s, n).at \in {"done", "close"} /\ Ending(s, n).audited = s.audited
           /\ s.claim = None => Ending(s, n).at = "done"
  <1> DEFINE e(a, z) == [s EXCEPT !.at = a, !.status = n, !.t = z]
             u == Ending(s, n)
  <1>1. ASSUME NEW a \in Stages, NEW z \in Int
        PROVE  /\ e(a, z).claim = s.claim /\ e(a, z).status = n /\ e(a, z).audited = s.audited
               /\ e(a, z).at = a
    BY Zenon DEF RequestType
  <1>2. 0 \in Int /\ "done" \in Stages /\ "close" \in Stages
    BY DEF Stages
  <1>3. u = IF s.claim = None THEN e("done", 0) ELSE e("close", 0)
    BY Zenon DEF Ending
  <1> HIDE DEF e
  <1>4. u.claim = s.claim /\ u.status = n /\ u.audited = s.audited /\ (s.claim = None => u.at = "done")
    BY <1>1, <1>2, <1>3
  <1>5. u \in RequestType /\ u.q = s.q /\ u.at \in {"done", "close"}
    BY EndingState, Zenon
  <1> HIDE DEF u
  <1>6. Turn(s, u)
    BY <1>4, <1>5, Zenon DEF Turn, Guarded, BehindLimiter
  <1>7. QED
    BY <1>4, <1>5, <1>6, Zenon DEF u

(* Behind the limiter, an administrator's request runs only with the role,    *)
(* and nothing is owed to the audit log yet.                                  *)
LEMMA PassTurn ==
    ASSUME IInv, Shared, NEW r \in Ids, req[r].at = "limit", Pass(r)
    PROVE  \E u : To(r, u) /\ Turn(req[r], u) /\ BehindLimiter(u) /\ ~Owed(u)
  <1> DEFINE s == req[r]
             v == [s EXCEPT !.t = 0]
             at == IF s.q.route = "admin" THEN "running" ELSE "idem"
             checks == Before[s.q.route]
             u == Protect(v, checks, at)
  <1>1. s \in RequestType /\ Guarded(s) /\ s.at = "limit"
    BY Zenon DEF IInv, Typed, Shared
  <1>2. v \in RequestType /\ v.q = s.q /\ v.at = "limit" /\ v.claim = s.claim
    <2>1. ASSUME NEW z \in Int
          PROVE  LET w == [s EXCEPT !.t = z]
                 IN  w \in RequestType /\ w.q = s.q /\ w.at = s.at /\ w.claim = s.claim
      BY <1>1, Zenon DEF RequestType
    <2>2. QED
      BY <1>1, <2>1
  <1>3. at \in {"running", "idem"} /\ at \in Stages /\ (s.q.route = "admin" <=> at = "running")
    BY Zenon DEF Stages
  <1>4. s.q.route = "admin" => "auth" \in checks /\ "role" \in checks
    BY DEF Before
  <1>5. To(r, u)
    BY Zenon DEF Pass
  <1> HIDE DEF at, checks, v
  <1>6. Guarded(v)
    BY <1>1, <1>2, Zenon DEF Guarded
  <1>7. CASE u = Ending(v, 401) \/ u = Ending(v, 403)
    <2> HIDE DEF u
    <2>1. Turn(v, u) /\ u.status \notin Codes /\ u.at \in {"done", "close"}
      BY <1>2, <1>6, <1>7, EndingTurn DEF Codes
    <2>2. Turn(s, u) /\ BehindLimiter(u) /\ ~Owed(u)
      BY <1>1, <1>2, <2>1, Zenon DEF Turn, BehindLimiter, Owed
    <2>3. QED
      BY <1>5, <2>2, Zenon DEF u
  <1>8. CASE u = [v EXCEPT !.at = at] /\ (s.q.route = "admin" => requireRole(v.q))
    <2>1. u \in RequestType /\ u.q = s.q /\ u.at = at /\ u.claim = s.claim
      BY <1>2, <1>3, <1>8, Zenon DEF RequestType
    <2> HIDE DEF u
    <2>2. Turn(s, u) /\ BehindLimiter(u) /\ ~Owed(u)
      BY <1>1, <1>2, <1>3, <1>8, <2>1, Zenon DEF Turn, BehindLimiter, Owed, Guarded
    <2>3. QED
      BY <1>5, <2>2, Zenon DEF u
  <1>9. QED
    BY <1>4, <1>7, <1>8 DEF Protect

----------------------------------------------------------------------------
(* What a step on one request leaves in place, piece by piece.                *)
LEMMA TurnKeeps ==
    ASSUME IInv, Shared, NEW r \in Ids, NEW u, To(r, u), Turn(req[r], u), UNCHANGED process
    PROVE  /\ req'[r] = u /\ \A x \in Ids \ {r} : req'[x] = req[x]
           /\ \A x \in Ids : Reading(req[x])' /\ Guarded(req[x])'
           /\ \A x \in Ids : BehindLimiter(req[x]) => BehindLimiter(req'[x])
           /\ req[r].at # "semaphore" \/ Cardinality(Inside) < slots => SlotsHeld'
  <1>1. req'[r] = u /\ \A x \in Ids \ {r} : req'[x] = req[x]
    BY Zenon DEF To, IInv, Typed
  <1>2. now' = now /\ slots' = slots /\ proc' = proc /\ now \in Nat
    BY Zenon DEF process, IInv, Typed
  <1>3. ASSUME NEW x \in Ids PROVE Reading(req[x])' /\ Guarded(req[x])'
    <2>1. CASE x = r
      <3>1. Guarded(u) /\ (u.at = "limit" => u.t = now)
        BY Zenon DEF Turn
      <3>2. u.at = "limit" => u.t \in Nat /\ u.t <= now /\ now <= u.t + MaxDelay
        BY <1>2, <3>1, RequestConstants
      <3>3. QED
        BY <1>1, <1>2, <2>1, <3>1, <3>2, Zenon DEF Reading, Guarded
    <2>2. CASE x # r
      BY <1>1, <1>2, <2>2, Zenon DEF Reading, Guarded, Shared
    <2>3. QED
      BY <2>1, <2>2, Zenon
  <1>4. ASSUME NEW x \in Ids, BehindLimiter(req[x]) PROVE BehindLimiter(req'[x])
    BY <1>1, <1>4, Zenon DEF Turn
  <1>5. ASSUME req[r].at # "semaphore" \/ Cardinality(Inside) < slots PROVE SlotsHeld'
    <2>1. Inside' \subseteq Inside \union {r}
      BY <1>1, Zenon DEF Inside
    <2>2. IsFiniteSet(Inside) /\ Cardinality(Inside) <= slots /\ slots \in Nat
      BY Zenon DEF Shared, SlotsHeld
    <2>3. /\ IsFiniteSet(Inside \union {r})
          /\ Cardinality(Inside \union {r}) = IF r \in Inside THEN Cardinality(Inside) ELSE Cardinality(Inside) + 1
      BY <2>2, FS_AddElement, Zenon
    <2>4. Cardinality(Inside) \in Nat
      BY <2>2, FS_CardinalityType, Zenon
    <2>5. /\ IsFiniteSet(Inside') /\ Cardinality(Inside') <= Cardinality(Inside \union {r})
          /\ Cardinality(Inside') \in Nat
      BY <2>1, <2>3, FS_Subset, FS_CardinalityType, Zenon
    <2>6. Cardinality(Inside') <= slots
      <3>1. CASE r \in Inside \/ Cardinality(Inside) < slots
        BY <2>2, <2>3, <2>4, <2>5, <3>1
      <3>2. CASE r \notin Inside /\ req[r].at # "semaphore"
        <4>1. req[r].at = "away"
          BY <3>2, Zenon DEF Inside, Turn
        <4>2. Inside' \subseteq Inside
          BY <1>1, <4>1, Zenon DEF Inside, Turn
        <4>3. QED
          BY <2>2, <2>4, <2>5, <4>2, FS_Subset
      <3>3. QED
        BY <1>5, <3>1, <3>2, Zenon
    <2>7. QED
      BY <1>2, <2>5, <2>6, Zenon DEF SlotsHeld, Shared
  <1>6. QED
    BY <1>1, <1>3, <1>4, <1>5, Zenon

(* A request that gets rows is over, so one that is not over has none.        *)
LEMMA LogKept ==
    ASSUME IInv, Shared, NEW r \in Ids, NEW u, To(r, u), Turn(req[r], u), UNCHANGED process,
           audit' = audit, ~Owed(u)
    PROVE  Logged'
  <1>1. req'[r] = u /\ \A x \in Ids \ {r} : req'[x] = req[x]
    BY TurnKeeps, Zenon
  <1>2. ASSUME NEW x \in audit PROVE x.id \in Ids /\ x.id # r
    BY Zenon DEF Shared, Logged, Turn
  <1>3. QED
    BY <1>1, <1>2, Zenon DEF Shared, Logged

LEMMA LogAdded ==
    ASSUME IInv, Shared, NEW r \in Ids, NEW u, To(r, u), Turn(req[r], u), UNCHANGED process,
           NEW n \in Codes, Record(r, n), req[r].q.route = "admin", requireRole(req[r].q),
           u.at = "done", u.q = req[r].q, u.status = n
    PROVE  Logged'
  <1> DEFINE y == [id |-> r, status |-> n]
  <1>1. req'[r] = u /\ \A x \in Ids \ {r} : req'[x] = req[x]
    BY TurnKeeps, Zenon
  <1>2. ASSUME NEW x \in audit PROVE x.id \in Ids /\ x.id # r
    BY Zenon DEF Shared, Logged, Turn
  <1>3. audit' = audit \union {y} /\ y \in [id : Ids, status : Codes] /\ y.id = r /\ y.status = n
    BY Zenon DEF Record
  <1> HIDE DEF y
  <1>4. QED
    BY <1>1, <1>2, <1>3 DEF Shared, Logged

(* While the limiter's state stays, what it promises stays, whatever the      *)
(* requests behind it do.                                                     *)
LEMMA LimiterKept ==
    ASSUME IInv, Shared, UNCHANGED <<window, windowEnds, passed>>, now' \in Nat, now <= now',
           \A x \in Ids : BehindLimiter(req[x]) => BehindLimiter(req'[x])
    PROVE  windowEnds' \in Nat /\ Entries' /\ PassedOnce' /\ RateHolds'
  <1>1. Entries'
    <2>1. ASSUME NEW e \in window PROVE e.score <= now'
      BY DEF Shared, Entries, EntryType, IInv, Typed
    <2>2. QED
      BY <2>1, Zenon DEF Shared, Entries
  <1>2. PassedOnce'
    <2>1. ASSUME NEW p \in passed
          PROVE  p.at <= now' /\ p.at + Window <= windowEnds /\ BehindLimiter(req'[p.id]) /\ Remembered(p)'
      <3>1. p \in PassType /\ p.at <= now /\ p.at + Window <= windowEnds /\ BehindLimiter(req[p.id]) /\ Remembered(p)
        BY Zenon DEF Shared, PassedOnce
      <3>2. p.at <= now' /\ BehindLimiter(req'[p.id])
        BY <3>1 DEF PassType, IInv, Typed
      <3>3. ASSUME now' <= p.at + Window - MaxDelay - 1
            PROVE  now <= p.at + Window - MaxDelay - 1
        BY <3>1, <3>3, RequestConstants DEF PassType, IInv, Typed
      <3>4. Remembered(p)'
        BY <3>1, <3>3, Zenon DEF Remembered
      <3>5. QED
        BY <3>1, <3>2, <3>4, Zenon
    <2>2. QED
      BY <2>1, Zenon DEF Shared, PassedOnce
  <1>3. RateHolds'
    BY Zenon DEF Shared, RateHolds
  <1>4. QED
    BY <1>1, <1>2, <1>3, Zenon DEF Shared

LEMMA QuietTurn ==
    ASSUME IInv, Shared, NEW r \in Ids, NEW u, To(r, u), Turn(req[r], u), UNCHANGED process,
           UNCHANGED <<window, windowEnds, passed, audit>>, ~Owed(u),
           req[r].at # "semaphore" \/ Cardinality(Inside) < slots
    PROVE  Shared'
  <1>1. now' \in Nat /\ now <= now'
    BY DEF process, IInv, Typed
  <1>2. windowEnds' \in Nat /\ Entries' /\ PassedOnce' /\ RateHolds'
    BY <1>1, TurnKeeps, LimiterKept, Zenon
  <1>3. QED
    BY <1>2, TurnKeeps, LogKept, Zenon DEF Shared

----------------------------------------------------------------------------
(* The steps of a request.                                                    *)
LEMMA ArriveShared ==
    ASSUME IInv, Shared, NEW r \in Ids, NEW q \in Traffic, Arrive(r, q)
    PROVE  Shared'
  <1> DEFINE u == [Fresh EXCEPT !.at = "semaphore", !.q = q]
  <1>1. u \in RequestType /\ u.at = "semaphore" /\ u.claim = None
    <2>1. ASSUME NEW v \in RequestType, NEW a \in Stages
          PROVE  LET w == [v EXCEPT !.at = a, !.q = q]
                 IN  w \in RequestType /\ w.at = a /\ w.claim = v.claim
      BY Zenon DEF RequestType
    <2>2. "semaphore" \in Stages /\ Fresh.claim = None
      BY Zenon DEF Stages, Fresh
    <2>3. QED
      BY <2>1, <2>2, FreshState, Zenon
  <1>2. /\ To(r, u) /\ req[r].at = "away"
        /\ UNCHANGED process /\ UNCHANGED <<window, windowEnds, passed, audit>>
    BY Zenon DEF Arrive, redis, history
  <1> HIDE DEF u
  <1>3. Turn(req[r], u) /\ ~Owed(u)
    BY <1>1, <1>2, Zenon DEF Turn, BehindLimiter, Guarded, Owed
  <1>4. req[r].at # "semaphore"
    BY <1>2, Zenon
  <1>5. QED
    BY <1>2, <1>3, <1>4, QuietTurn, Zenon

(* The answers of the middlewares are none of the handlers' codes.            *)
LEMMA AnswerShared ==
    ASSUME IInv, Shared, NEW r \in Ids, NEW n \in Int, Answer(r, n),
           n \notin Codes \/ req[r].q.route # "admin",
           req[r].at \notin {"away", "done", "lost"}, UNCHANGED process,
           UNCHANGED <<window, windowEnds, passed, audit>>,
           req[r].at # "semaphore" \/ Cardinality(Inside) < slots
    PROVE  Shared'
  <1> DEFINE u == Ending(req[r], n)
  <1>1. req[r] \in RequestType /\ Guarded(req[r])
    BY Zenon DEF IInv, Typed, Shared
  <1>2. Turn(req[r], u) /\ u.status = n /\ u.q = req[r].q
    BY <1>1, EndingTurn, Zenon
  <1>3. To(r, u)
    BY Zenon DEF Answer
  <1> HIDE DEF u
  <1>4. ~Owed(u)
    BY <1>2, Zenon DEF Owed
  <1>5. QED
    BY <1>2, <1>3, <1>4, QuietTurn, Zenon

LEMMA AdmitShared ==
    ASSUME IInv, Shared, NEW r \in Ids, Admit(r)
    PROVE  Shared'
  <1>1. /\ req[r].at = "semaphore" /\ Cardinality(Inside) < slots
        /\ UNCHANGED process /\ UNCHANGED <<window, windowEnds, passed, audit>>
    BY Zenon DEF Admit, redis, history
  <1>2. CASE Answer(r, 413) \/ Answer(r, 403)
    <2>1. 413 \in Int /\ 403 \in Int /\ 413 \notin Codes /\ 403 \notin Codes
      BY DEF Codes
    <2>2. req[r].at \notin {"away", "done", "lost"}
      BY <1>1, Zenon
    <2>3. QED
      BY <1>1, <1>2, <2>1, <2>2, AnswerShared, Zenon
  <1>3. CASE To(r, [req[r] EXCEPT !.at = "limit", !.t = now])
    <2> DEFINE u == [req[r] EXCEPT !.at = "limit", !.t = now]
    <2>1. req[r] \in RequestType /\ Guarded(req[r]) /\ now \in Int
      BY DEF IInv, Typed, Shared
    <2>2. u \in RequestType /\ u.at = "limit" /\ u.t = now /\ u.q = req[r].q /\ u.claim = req[r].claim
      <3>1. ASSUME NEW a \in Stages
            PROVE  LET w == [req[r] EXCEPT !.at = a, !.t = now]
                   IN  w \in RequestType /\ w.at = a /\ w.t = now /\ w.q = req[r].q /\ w.claim = req[r].claim
        BY <2>1, Zenon DEF RequestType
      <3>2. "limit" \in Stages
        BY Zenon DEF Stages
      <3>3. QED
        BY <3>1, <3>2, Zenon
    <2>3. To(r, u)
      BY <1>3, Zenon
    <2> HIDE DEF u
    <2>4. Turn(req[r], u) /\ ~Owed(u)
      BY <1>1, <2>1, <2>2, Zenon DEF Turn, BehindLimiter, Guarded, Owed
    <2>5. QED
      BY <1>1, <2>3, <2>4, QuietTurn, Zenon
  <1>4. QED
    BY <1>2, <1>3, Zenon DEF Admit

LEMMA CancelledShared ==
    ASSUME IInv, Shared, NEW r \in Ids, Cancelled(r)
    PROVE  Shared'
  <1> DEFINE u == [req[r] EXCEPT !.at = "done", !.status = 408]
  <1>1. /\ req[r].at = "semaphore" /\ To(r, u)
        /\ UNCHANGED process /\ UNCHANGED <<window, windowEnds, passed, audit>>
    BY Zenon DEF Cancelled, redis, history
  <1>2. req[r] \in RequestType /\ Guarded(req[r]) /\ req[r].at = "semaphore"
    BY <1>1, Zenon DEF IInv, Typed, Shared
  <1>3. u \in RequestType /\ u.at = "done" /\ u.status = 408 /\ u.q = req[r].q /\ u.claim = req[r].claim
    <2> DEFINE w(a, n) == [req[r] EXCEPT !.at = a, !.status = n]
    <2>1. ASSUME NEW a \in Stages, NEW n \in Int
          PROVE  /\ w(a, n) \in RequestType /\ w(a, n).at = a /\ w(a, n).status = n
                 /\ w(a, n).q = req[r].q /\ w(a, n).claim = req[r].claim
      BY <1>2, Zenon DEF RequestType
    <2>2. "done" \in Stages /\ 408 \in Int
      BY DEF Stages
    <2>3. u = w("done", 408)
      OBVIOUS
    <2> HIDE DEF u, w
    <2>4. QED
      BY <2>1, <2>2, <2>3
  <1> HIDE DEF u
  <1>4. Turn(req[r], u)
    BY <1>2, <1>3, Zenon DEF Turn, BehindLimiter, Guarded
  <1>5. ~Owed(u)
    BY <1>3 DEF Owed, Codes
  <1>6. windowEnds' \in Nat /\ Entries' /\ PassedOnce' /\ RateHolds'
    <2>1. now' \in Nat /\ now <= now'
      BY <1>1 DEF process, IInv, Typed
    <2>2. QED
      BY <1>1, <1>4, <2>1, TurnKeeps, LimiterKept, Zenon
  <1>7. SlotsHeld'
    <2>1. Inside' \subseteq Inside
      <3>1. req'[r] = u /\ \A x \in Ids \ {r} : req'[x] = req[x]
        BY <1>1, <1>4, TurnKeeps, Zenon
      <3>2. QED
        BY <1>3, <3>1, Zenon DEF Inside
    <2>2. IsFiniteSet(Inside) /\ Cardinality(Inside) <= slots /\ slots \in Nat
      BY Zenon DEF Shared, SlotsHeld
    <2>3. IsFiniteSet(Inside') /\ Cardinality(Inside') <= slots
      BY <2>1, <2>2, FS_Subset, FS_CardinalityType
    <2>4. QED
      BY <1>1, <2>3, Zenon DEF process, Shared, SlotsHeld
  <1>8. QED
    BY <1>1, <1>4, <1>5, <1>6, <1>7, TurnKeeps, LogKept, Zenon DEF Shared

LEMMA AllowFailsShared ==
    ASSUME IInv, Shared, NEW r \in Ids, AllowFails(r)
    PROVE  Shared'
  <1>1. /\ req[r].at = "limit" /\ Pass(r)
        /\ UNCHANGED process /\ UNCHANGED <<window, windowEnds, passed, audit>>
    BY Zenon DEF AllowFails, redis, history
  <1>2. PICK u : To(r, u) /\ Turn(req[r], u) /\ ~Owed(u)
    BY <1>1, PassTurn, Zenon
  <1>3. req[r].at # "semaphore"
    BY <1>1, Zenon
  <1>4. QED
    BY <1>1, <1>2, <1>3, QuietTurn, Zenon

(* Only the other routes take keys.                                           *)
LEMMA PlainTurn ==
    ASSUME NEW s, NEW u \in RequestType, s.q.route # "admin", u.q = s.q,
           s.at \in {"idem", "running", "close"}, u.at \in {"done", "close", "running"}
    PROVE  Turn(s, u) /\ ~Owed(u) /\ s.at # "semaphore"
  BY Zenon DEF Turn, Owed, Guarded, BehindLimiter

LEMMA KeyShared ==
    ASSUME IInv, Shared, NEW r \in Ids, Idem(r) \/ IdemFails(r) \/ Close(r)
    PROVE  Shared'
  <1> DEFINE k == req[r].q.key
             claim == IF k = None THEN None ELSE now
             v == [req[r] EXCEPT !.claim = claim]
             s == Protect(v, Behind[req[r].q.route], "running")
             d == [req[r] EXCEPT !.at = "done"]
  <1>1. /\ UNCHANGED process /\ UNCHANGED <<window, windowEnds, passed, audit>>
        /\ req[r].at \in {"idem", "close"}
    BY Zenon DEF Idem, IdemFails, Close, redis, history
  <1>2. req[r] \in RequestType /\ req[r].q.route # "admin" /\ now \in Nat
    BY <1>1, Zenon DEF IInv, Typed, Shared, Guarded
  <1>3. \/ Answer(r, 409) \/ Answer(r, 500) \/ To(r, s) \/ To(r, d)
    BY Zenon DEF Idem, IdemFails, Close
  <1>4. CASE Answer(r, 409) \/ Answer(r, 500)
    <2>1. req[r].at \notin {"away", "done", "lost", "semaphore"} /\ 409 \in Int /\ 500 \in Int
      BY <1>1
    <2>2. QED
      BY <1>1, <1>2, <1>4, <2>1, AnswerShared, Zenon
  <1>5. ASSUME NEW u \in RequestType, To(r, u), u.q = req[r].q, u.at \in {"done", "close", "running"}
        PROVE  Shared'
    <2>1. Turn(req[r], u) /\ ~Owed(u) /\ req[r].at # "semaphore"
      BY <1>1, <1>2, <1>5, PlainTurn, Zenon
    <2>2. QED
      BY <1>1, <1>5, <2>1, QuietTurn, Zenon
  <1>6. s \in RequestType /\ s.q = req[r].q /\ s.at \in {"done", "close", "running"}
    <2>1. claim \in Int \union {None}
      BY <1>2
    <2> HIDE DEF claim
    <2>2. v \in RequestType /\ v.q = req[r].q
      BY <1>2, <2>1, Zenon DEF RequestType
    <2>3. "running" \in Stages
      BY Zenon DEF Stages
    <2> HIDE DEF v
    <2>4. QED
      BY <2>2, <2>3, ProtectState, Zenon
  <1>7. d \in RequestType /\ d.q = req[r].q /\ d.at = "done"
    BY <1>2, Zenon DEF RequestType, Stages
  <1> HIDE DEF s, d
  <1>8. QED
    BY <1>3, <1>4, <1>5, <1>6, <1>7, Zenon

(* A handler's answer to an administrator is logged with its code, or marked  *)
(* as lost to the log.                                                        *)
LEMMA UnauditedShared ==
    ASSUME IInv, Shared, NEW r \in Ids, NEW n \in Int, req[r].at = "running",
           To(r, [Ending(req[r], n) EXCEPT !.audited = FALSE]), UNCHANGED process,
           UNCHANGED <<window, windowEnds, passed, audit>>
    PROVE  Shared'
  <1> DEFINE e == Ending(req[r], n)
             u == [e EXCEPT !.audited = FALSE]
  <1>1. req[r] \in RequestType /\ Guarded(req[r])
    BY Zenon DEF IInv, Typed, Shared
  <1>2. Turn(req[r], e) /\ e \in RequestType
    BY <1>1, EndingTurn, EndingState, Zenon
  <1>3. To(r, u)
    BY Zenon
  <1> HIDE DEF e
  <1>4. /\ u \in RequestType /\ u.at = e.at /\ u.q = e.q /\ u.claim = e.claim /\ u.t = e.t
        /\ u.audited = FALSE
    <2>1. ASSUME NEW b \in {TRUE, FALSE}
          PROVE  LET w == [e EXCEPT !.audited = b]
                 IN  /\ w \in RequestType /\ w.at = e.at /\ w.q = e.q /\ w.claim = e.claim /\ w.t = e.t
                     /\ w.audited = b
      BY <1>2, Zenon DEF RequestType
    <2>2. QED
      BY <2>1, Zenon
  <1> HIDE DEF u
  <1>5. Turn(req[r], u) /\ ~Owed(u) /\ req[r].at # "semaphore"
    BY <1>2, <1>4, Zenon DEF Turn, Guarded, BehindLimiter, Owed
  <1>6. QED
    BY <1>3, <1>5, QuietTurn, Zenon

LEMMA HandlerShared ==
    ASSUME IInv, Shared, NEW r \in Ids, Returns(r) \/ Panics(r)
    PROVE  Shared'
  <1>1. /\ req[r].at = "running" /\ UNCHANGED process /\ UNCHANGED <<window, windowEnds, passed>>
        /\ req[r] \in RequestType /\ Guarded(req[r])
    BY Zenon DEF Returns, Panics, redis, history, IInv, Typed, Shared
  <1>2. CASE Panics(r)
    BY <1>1, <1>2, UnauditedShared DEF Panics
  <1>3. CASE Returns(r)
    <2> DEFINE S == IF Tenant(req[r].q) = None THEN {400} ELSE {200, 500}
               admin == req[r].q.route = "admin"
               A(n) == Answer(r, n)
               B(n) == To(r, [Ending(req[r], n) EXCEPT !.audited = FALSE])
    <2>1. \E n \in S : IF admin
                        THEN \/ Record(r, n) /\ A(n) /\ UNCHANGED troubles
                             \/ Trouble /\ UNCHANGED audit /\ B(n)
                        ELSE A(n) /\ UNCHANGED <<audit, troubles>>
      BY <1>3, Zenon DEF Returns
    <2>2. S \subseteq Codes /\ Codes \subseteq Int
      BY DEF Codes
    <2> HIDE DEF S, admin, A, B
    <2>3. PICK n \in S : \/ admin /\ Record(r, n) /\ A(n)
                         \/ audit' = audit /\ B(n)
                         \/ ~admin /\ A(n) /\ audit' = audit
      BY <2>1, Zenon
    <2>4. n \in Codes /\ n \in Int
      BY <2>2, Zenon
    <2>5. CASE audit' = audit /\ B(n)
      BY <1>1, <2>4, <2>5, UnauditedShared, Zenon DEF B
    <2>6. CASE ~admin /\ A(n) /\ audit' = audit
      <3>1. req[r].at \notin {"away", "done", "lost", "semaphore"}
        BY <1>1, Zenon
      <3>2. QED
        BY <1>1, <2>4, <2>6, <3>1, AnswerShared, Zenon DEF admin, A
    <2>7. CASE admin /\ Record(r, n) /\ A(n)
      <3> DEFINE u == Ending(req[r], n)
      <3>1. To(r, u)
        BY <2>7, Zenon DEF A, Answer
      <3>2. req[r].claim = None /\ requireRole(req[r].q) /\ req[r].q.route = "admin"
        BY <1>1, <2>7, Zenon DEF Guarded, admin
      <3>3. Turn(req[r], u) /\ u.at = "done" /\ u.q = req[r].q /\ u.status = n
        BY <1>1, <2>4, <3>2, EndingTurn, Zenon
      <3> HIDE DEF u
      <3>4. Logged'
        BY <1>1, <2>4, <2>7, <3>1, <3>2, <3>3, LogAdded, Zenon
      <3>5. windowEnds' \in Nat /\ Entries' /\ PassedOnce' /\ RateHolds'
        <4>1. now' \in Nat /\ now <= now'
          BY <1>1 DEF process, IInv, Typed
        <4>2. QED
          BY <1>1, <3>1, <3>3, <4>1, TurnKeeps, LimiterKept, Zenon
      <3>6. req[r].at # "semaphore"
        BY <1>1, Zenon
      <3>7. QED
        BY <1>1, <3>1, <3>3, <3>4, <3>5, <3>6, TurnKeeps, Zenon DEF Shared
    <2>8. QED
      BY <2>3, <2>5, <2>6, <2>7, Zenon
  <1>4. QED
    BY <1>2, <1>3, Zenon

(* The limiter.  What passed within a period that reaches now has its entry   *)
(* in the sorted set when the next request is counted: a reading of the clock *)
(* is not later than now, so nothing that young is dropped.                   *)
LEMMA AllowShared ==
    ASSUME IInv, Shared, NEW r \in Ids, Allow(r)
    PROVE  Shared'
  <1> DEFINE t == req[r].t
             old == IF now < windowEnds THEN {e \in window : e.score > t - Window} ELSE {}
             new == [score |-> t, id |-> r]
             live == old \union {new}
             mine == [id |-> r, at |-> now]
  <1>1. /\ req[r].at = "limit" /\ UNCHANGED process /\ UNCHANGED audit
        /\ window' = live /\ windowEnds' = now + Window
        /\ \/ Allowed(live) /\ Pass(r) /\ passed' = passed \union {mine}
           \/ Answer(r, 429) /\ passed' = passed
    BY Zenon DEF Allow
  <1>2. /\ now \in Nat /\ now' = now /\ t \in Nat /\ t <= now /\ now <= t + MaxDelay
        /\ windowEnds \in Nat /\ req[r] \in RequestType /\ Guarded(req[r])
    BY <1>1, Zenon DEF process, IInv, Typed, Shared, Reading
  <1>3. new \in EntryType /\ new.score = t /\ new.id = r
    BY <1>2, Zenon DEF EntryType
  <1>4. mine \in PassType /\ mine.id = r /\ mine.at = now
    BY <1>2, Zenon DEF PassType
  <1>5. old \subseteq window /\ (\A e \in window : now < windowEnds /\ e.score > t - Window => e \in old)
    BY Zenon
  <1> HIDE DEF old, new, mine, t
  <1>6. Entries'
    <2>1. IsFiniteSet(live)
      BY <1>5, FS_Subset, FS_AddElement, Zenon DEF Shared, Entries
    <2>2. live \subseteq EntryType /\ \A e \in live : e.score <= now
      BY <1>2, <1>3, <1>5, Zenon DEF Shared, Entries
    <2>3. QED
      BY <1>1, <1>2, <2>1, <2>2, Zenon DEF Entries
  <1> HIDE DEF live
  <1>7. PICK u : To(r, u) /\ Turn(req[r], u) /\ BehindLimiter(u) /\ ~Owed(u)
    <2>1. CASE Pass(r)
      BY <1>1, <2>1, PassTurn, Zenon
    <2>2. CASE Answer(r, 429)
      <3> DEFINE v == Ending(req[r], 429)
      <3>1. Turn(req[r], v) /\ v.status = 429 /\ v.at \in {"done", "close"}
        BY <1>1, <1>2, EndingTurn
      <3>2. To(r, v)
        BY <2>2, Zenon DEF Answer
      <3> HIDE DEF v
      <3>3. BehindLimiter(v) /\ ~Owed(v)
        BY <3>1 DEF BehindLimiter, Owed, Codes
      <3>4. QED
        BY <3>1, <3>2, <3>3, Zenon
    <2>3. QED
      BY <1>1, <2>1, <2>2, Zenon
  <1>8. /\ req'[r] = u /\ \A x \in Ids : BehindLimiter(req[x]) => BehindLimiter(req'[x])
        /\ \A x \in Ids : Reading(req[x])' /\ Guarded(req[x])'
    BY <1>1, <1>7, TurnKeeps, Zenon
  <1>9. SlotsHeld'
    <2>1. req[r].at # "semaphore"
      BY <1>1, Zenon
    <2>2. QED
      BY <1>1, <1>7, <2>1, TurnKeeps, Zenon
  <1>10. Logged'
    BY <1>1, <1>7, LogKept, Zenon
  <1>11. ASSUME NEW p \in passed
         PROVE  /\ p.id # r /\ p \in PassType /\ p.at <= now' /\ p.at + Window <= windowEnds'
                /\ BehindLimiter(req'[p.id]) /\ Remembered(p)'
    <2>1. p \in PassType /\ p.at <= now /\ p.at + Window <= windowEnds /\ BehindLimiter(req[p.id]) /\ Remembered(p)
      BY Zenon DEF Shared, PassedOnce
    <2>2. p.id # r /\ p.id \in Ids
      BY <1>1, <2>1, Zenon DEF BehindLimiter, PassType
    <2>3. p.at <= now' /\ p.at + Window <= windowEnds'
      BY <1>1, <1>2, <2>1, RequestConstants DEF PassType
    <2>4. ASSUME now <= p.at + Window - MaxDelay - 1
          PROVE  \E e \in live : e.id = p.id /\ e.score >= p.at - MaxDelay
      <3>1. PICK e \in window : e.id = p.id /\ e.score >= p.at - MaxDelay
        BY <2>1, <2>4, Zenon DEF Remembered
      <3>2. e.score \in Nat
        BY Zenon DEF Shared, Entries, EntryType
      <3>3. now < windowEnds /\ e.score > t - Window
        BY <1>2, <2>1, <2>4, <3>1, <3>2, RequestConstants DEF PassType
      <3>4. QED
        BY <1>5, <3>1, <3>3, Zenon DEF live
    <2>5. Remembered(p)'
      BY <1>1, <1>2, <2>4, Zenon DEF Remembered
    <2>6. QED
      BY <1>8, <2>1, <2>2, <2>3, <2>5, Zenon
  <1>12. ASSUME NEW p, p = mine
         PROVE  /\ p \in PassType /\ p.id = r /\ p.at <= now' /\ p.at + Window <= windowEnds'
                /\ BehindLimiter(req'[p.id]) /\ Remembered(p)'
    <2>1. p \in PassType /\ p.id = r /\ p.at = now
      BY <1>4, <1>12, Zenon
    <2>2. p.at <= now' /\ p.at + Window <= windowEnds'
      BY <1>1, <1>2, <2>1, RequestConstants
    <2>3. new \in window' /\ new.id = p.id /\ new.score >= p.at - MaxDelay
      <3>1. t >= now - MaxDelay
        BY <1>2, RequestConstants
      <3>2. QED
        BY <1>1, <1>3, <2>1, <3>1, Zenon DEF live
    <2>4. Remembered(p)'
      BY <2>3, Zenon DEF Remembered
    <2>5. QED
      BY <1>7, <1>8, <2>1, <2>2, <2>4, Zenon
  <1>13. PassedOnce'
    BY <1>1, <1>11, <1>12, Zenon DEF PassedOnce, Shared
  <1>14. RateHolds'
    <2>1. CASE passed' = passed
      BY <2>1, Zenon DEF RateHolds, Shared
    <2>2. ASSUME Allowed(live), passed' = passed \union {mine}, NEW from \in 0..MaxTime
          PROVE  Cardinality({p \in passed' : p.at \in from..(from + Window - MaxDelay - 1)}) <= Max
      <3> DEFINE period == from..(from + Window - MaxDelay - 1)
                 S == {p \in passed' : p.at \in period}
      <3>1. CASE now \notin period
        <4>1. S = {p \in passed : p.at \in period}
          BY <1>4, <2>2, <3>1, Zenon
        <4>2. QED
          BY <4>1, Zenon DEF RateHolds, Shared
      <3>2. CASE now \in period
        <4>1. ASSUME NEW p \in S PROVE \E e \in live : e.id = p.id
          <5>1. p \in PassType /\ Remembered(p)' /\ p.at \in period
            BY <1>13, Zenon DEF PassedOnce
          <5>2. now <= p.at + Window - MaxDelay - 1
            BY <1>2, <3>2, <5>1, RequestConstants DEF PassType
          <5>3. QED
            BY <1>1, <1>2, <5>1, <5>2, Zenon DEF Remembered
        <4>2. S \subseteq passed' /\ IsFiniteSet(live)
          BY <1>1, <1>6, Zenon DEF Entries
        <4> DEFINE f == [p \in S |-> CHOOSE e \in live : e.id = p.id]
        <4> HIDE DEF S, period
        <4>3. ASSUME NEW p \in S PROVE f[p] \in live /\ f[p].id = p.id
          BY <4>1, Zenon
        <4>4. f \in Injection(S, live)
          <5>1. f \in [S -> live]
            BY <4>3, Zenon
          <5>2. ASSUME NEW p \in S, NEW o \in S, f[p] = f[o] PROVE p = o
            <6>1. p.id = o.id
              BY <4>3, <5>2, Zenon
            <6>2. QED
              BY <1>13, <4>2, <6>1, Zenon DEF PassedOnce
          <5> HIDE DEF f
          <5>3. QED
            BY <5>1, <5>2, Zenon DEF Injection, IsInjective
        <4>5. Cardinality(S) <= Cardinality(live) /\ IsFiniteSet(S)
          BY <4>2, <4>4, FS_Injection, Zenon
        <4>6. Cardinality(S) \in Nat /\ Cardinality(live) \in Nat
          BY <4>2, <4>5, FS_CardinalityType, Zenon
        <4>7. Cardinality(S) <= Max
          BY <2>2, <4>5, <4>6, RequestConstants DEF Allowed
        <4>8. QED
          BY <4>7, Zenon DEF S, period
      <3>3. QED
        BY <3>1, <3>2, Zenon
    <2>3. QED
      BY <1>1, <2>1, <2>2, Zenon DEF RateHolds
  <1>15. windowEnds' \in Nat
    BY <1>1, <1>2, RequestConstants
  <1>16. QED
    BY <1>6, <1>8, <1>9, <1>10, <1>13, <1>14, <1>15, Zenon DEF Shared

----------------------------------------------------------------------------
(* The process and time.                                                      *)
LEMMA FewerInside ==
    ASSUME Shared, Inside' \subseteq Inside, slots' = slots, now' <= MaxTime,
           proc' \in {"up", "draining", "down"}
    PROVE  SlotsHeld'
  <1>1. IsFiniteSet(Inside) /\ Cardinality(Inside) <= slots /\ slots \in Nat
    BY Zenon DEF Shared, SlotsHeld
  <1>2. IsFiniteSet(Inside') /\ Cardinality(Inside') <= slots
    BY <1>1, FS_Subset, FS_CardinalityType
  <1>3. QED
    BY <1>1, <1>2, Zenon DEF SlotsHeld

LEMMA ExitShared ==
    ASSUME IInv, Shared, Exit
    PROVE  Shared'
  <1>1. /\ now' = now /\ slots' = slots /\ proc' = "down" /\ now \in Nat
        /\ UNCHANGED <<window, windowEnds, passed, audit>> /\ req \in [Ids -> RequestType]
    BY Zenon DEF Exit, redis, history, IInv, Typed
  <1>2. ASSUME NEW r \in Ids
        PROVE  \/ req[r].at \in {"away", "done", "lost"} /\ req'[r] = req[r]
               \/ /\ req[r].at \notin {"away", "done", "lost"}
                  /\ req'[r].at = "lost" /\ req'[r].q = req[r].q /\ req'[r].claim = req[r].claim
    <2>1. CASE r \notin Active
      BY <2>1, Zenon DEF Exit, Active, Waiting, Inside
    <2>2. CASE r \in Active
      <3>1. req'[r] = [req[r] EXCEPT !.at = "lost", !.late = now - signalled]
        BY <2>2, Zenon DEF Exit
      <3>2. req[r].at \notin {"away", "done", "lost"}
        BY <2>2, Zenon DEF Active, Waiting, Inside
      <3>3. QED
        BY <1>1, <3>1, <3>2, Zenon DEF RequestType
    <2>3. QED
      BY <2>1, <2>2, Zenon
  <1>3. ASSUME NEW r \in Ids
        PROVE  /\ Reading(req[r])' /\ Guarded(req[r])'
               /\ BehindLimiter(req[r]) => BehindLimiter(req'[r])
               /\ Owed(req'[r]) => req'[r] = req[r]
    <2>1. CASE req'[r] = req[r]
      BY <1>1, <2>1, Zenon DEF Reading, Guarded, Shared
    <2>2. CASE req'[r] # req[r]
      <3>1. /\ req[r].at # "away" /\ req'[r].at = "lost" /\ req'[r].q = req[r].q
            /\ req'[r].claim = req[r].claim /\ Guarded(req[r])
        BY <1>2, <2>2, Zenon DEF Shared
      <3>2. QED
        BY <3>1, Zenon DEF Reading, Guarded, BehindLimiter, Owed
    <2>3. QED
      BY <2>1, <2>2, Zenon
  <1>4. SlotsHeld'
    <2>1. Inside' \subseteq Inside
      BY <1>2, Zenon DEF Inside
    <2>2. now' <= MaxTime /\ proc' \in {"up", "draining", "down"}
      BY <1>1, Zenon DEF Shared, SlotsHeld
    <2>3. QED
      BY <1>1, <2>1, <2>2, FewerInside, Zenon
  <1>5. Logged'
    <2>1. \A x \in audit : x.id \in Ids /\ req'[x.id] = req[x.id]
      BY <1>2, Zenon DEF Shared, Logged
    <2>2. QED
      BY <1>1, <1>3, <2>1, Zenon DEF Shared, Logged
  <1>6. windowEnds' \in Nat /\ Entries' /\ PassedOnce' /\ RateHolds'
    BY <1>1, <1>3, LimiterKept
  <1>7. QED
    BY <1>3, <1>4, <1>5, <1>6, Zenon DEF Shared

LEMMA ProcessShared ==
    ASSUME IInv, Shared, Sigterm \/ Restart \/ Tick \/ UNCHANGED vars
    PROVE  Shared'
  <1>1. /\ slots' = slots /\ now' \in Nat /\ now <= now' /\ req' = req
        /\ UNCHANGED <<window, windowEnds, passed, audit>>
    BY DEF Sigterm, Restart, Tick, vars, redis, history, IInv, Typed
  <1>2. now' <= MaxTime
    BY RequestConstants DEF Sigterm, Restart, Tick, vars, IInv, Typed, Shared, SlotsHeld
  <1>3. proc' \in {"up", "draining", "down"}
    BY Zenon DEF Sigterm, Restart, Tick, vars, Shared, SlotsHeld
  <1>4. ASSUME NEW r \in Ids PROVE Reading(req[r])' /\ Guarded(req[r])'
    <2>1. Reading(req[r]) /\ Guarded(req[r])
      BY Zenon DEF Shared
    <2>2. ASSUME req[r].at = "limit"
          PROVE  req[r].t \in Nat /\ req[r].t <= now' /\ now' <= req[r].t + MaxDelay
      <3>1. now' = now \/ (now' = now + 1 /\ now < req[r].t + MaxDelay)
        BY <2>2, Zenon DEF Sigterm, Restart, Tick, vars
      <3>2. QED
        BY <2>1, <2>2, <3>1, RequestConstants DEF Reading, IInv, Typed
    <2>3. QED
      BY <1>1, <2>1, <2>2, Zenon DEF Reading, Guarded
  <1>5. Inside' = Inside
    BY <1>1, Zenon DEF Inside
  <1>6. Logged'
    BY <1>1, Zenon DEF Shared, Logged
  <1>7. windowEnds' \in Nat /\ Entries' /\ PassedOnce' /\ RateHolds'
    BY <1>1, LimiterKept, Zenon
  <1>8. QED
    BY <1>1, <1>2, <1>3, <1>4, <1>5, <1>6, <1>7, FewerInside, Zenon DEF Shared

LEMMA InitiallyShared ==
    ASSUME Init
    PROVE  Shared
  <1>1. \A r \in Ids : req[r] = Fresh
    BY Zenon DEF Init
  <1>2. /\ now = 0 /\ slots \in Nat /\ proc = "up" /\ window = {} /\ windowEnds = 0 /\ audit = {}
        /\ passed = {}
    BY RequestConstants, Zenon DEF Init
  <1>3. \A r \in Ids : req[r].at = "away"
    BY <1>1, FreshState, Zenon
  <1>4. SlotsHeld
    <2>1. Inside = {}
      BY <1>3, Zenon DEF Inside
    <2>2. QED
      BY <1>2, <2>1, FS_EmptySet, RequestConstants DEF SlotsHeld
  <1>5. Entries /\ PassedOnce
    BY <1>2, FS_EmptySet, Zenon DEF Entries, PassedOnce
  <1>6. RateHolds
    <2>1. ASSUME NEW from \in 0..MaxTime
          PROVE  Cardinality({p \in passed : p.at \in from..(from + Window - MaxDelay - 1)}) <= Max
      <3>1. {p \in passed : p.at \in from..(from + Window - MaxDelay - 1)} = {}
        BY <1>2, Zenon
      <3>2. QED
        BY <3>1, FS_EmptySet, RequestConstants
    <2>2. QED
      BY <2>1, Zenon DEF RateHolds
  <1>7. Logged
    BY <1>2, <1>3, Zenon DEF Logged, Owed
  <1>8. \A r \in Ids : Reading(req[r]) /\ Guarded(req[r])
    BY <1>3, Zenon DEF Reading, Guarded
  <1>9. QED
    BY <1>2, <1>4, <1>5, <1>6, <1>7, <1>8, Zenon DEF Shared

LEMMA InductiveShared == IInv /\ Shared /\ [Next]_vars => Shared'
  <1>1. SUFFICES ASSUME IInv, Shared, [Next]_vars PROVE Shared'
    BY Zenon
  <1>2. ASSUME NEW r \in Ids,
               (\E q \in Traffic : Arrive(r, q)) \/ Admit(r) \/ Step(r) \/ Fault(r)
        PROVE  Shared'
    <2>1. CASE \E q \in Traffic : Arrive(r, q)
      BY <1>1, <2>1, ArriveShared, Zenon
    <2>2. CASE Admit(r)
      BY <1>1, <2>2, AdmitShared, Zenon
    <2>3. CASE Allow(r)
      BY <1>1, <2>3, AllowShared, Zenon
    <2>4. CASE AllowFails(r)
      BY <1>1, <2>4, AllowFailsShared, Zenon
    <2>5. CASE Idem(r) \/ IdemFails(r) \/ Close(r)
      BY <1>1, <2>5, KeyShared, Zenon
    <2>6. CASE Returns(r) \/ Panics(r)
      BY <1>1, <2>6, HandlerShared, Zenon
    <2>7. CASE Cancelled(r)
      BY <1>1, <2>7, CancelledShared, Zenon
    <2>8. QED
      BY <1>2, <2>1, <2>2, <2>3, <2>4, <2>5, <2>6, <2>7, Zenon DEF Step, Fault
  <1>3. QED
    BY <1>1, <1>2, ExitShared, ProcessShared, Zenon DEF Next

(* Types, and the semaphore: never more requests behind it than slots, with   *)
(* any number of requests waiting, cancelled, panicking or cut off.           *)
THEOREM SlotsSuffice == Spec => []TypeOK
  <1>1. IInv /\ Shared => TypeOK
    <2> SUFFICES ASSUME IInv, Shared PROVE TypeOK
      BY Zenon
    <2>2. now \in 0..MaxTime
      BY RequestConstants DEF IInv, Typed, Shared, SlotsHeld
    <2>3. QED
      BY <2>2, Zenon DEF TypeOK, Shared, SlotsHeld, Entries, Logged, Codes
  <1>2. QED
    BY <1>1, Initially, Inductive, InitiallyShared, InductiveShared, PTL DEF Spec

(* For any number of requests and any Max, Window and delay, the limiter lets *)
(* at most Max requests through in a period of its window less the delay.     *)
THEOREM LimiterHolds == Spec => []RateHolds
  <1>1. Shared => RateHolds
    BY Zenon DEF Shared
  <1>2. QED
    BY <1>1, Initially, Inductive, InitiallyShared, InductiveShared, PTL DEF Spec

(* Every administrator's request whose handler answered has its row in the    *)
(* audit log, with its status, unless a panic or a failed insert lost it; a   *)
(* request that was turned away has none.                                     *)
THEOREM AuditIsComplete == Spec => []AuditTrail
  <1>1. Shared => AuditTrail
    <2> SUFFICES ASSUME Shared, NEW r \in Ids
                   PROVE  LET rows == {x \in audit : x.id = r}
                          IN  /\ req[r].at = "done" /\ req[r].q.route = "admin" /\ req[r].audited
                                    => (rows # {}) = (req[r].status \in {200, 400, 500})
                              /\ \A x \in rows : /\ req[r].q.route = "admin" /\ requireRole(req[r].q)
                                                 /\ x.status = req[r].status
      BY Zenon DEF AuditTrail
    <2> DEFINE rows == {x \in audit : x.id = r}
    <2>2. ASSUME NEW x \in rows
          PROVE  /\ req[r].q.route = "admin" /\ requireRole(req[r].q)
                 /\ x.status = req[r].status /\ x.status \in Codes
      BY Zenon DEF Shared, Logged
    <2>3. Owed(req[r]) => rows # {}
      BY Zenon DEF Shared, Logged
    <2>4. ASSUME req[r].at = "done", req[r].q.route = "admin", req[r].audited
          PROVE  (rows # {}) = (req[r].status \in {200, 400, 500})
      BY <2>2, <2>3, <2>4 DEF Owed, Codes
    <2>5. QED
      BY <2>2, <2>4
  <1>2. QED
    BY <1>1, Initially, Inductive, InitiallyShared, InductiveShared, PTL DEF Spec

=============================================================================
