----------------------------- MODULE Addresses -----------------------------
(***************************************************************************)
(* One user's address book (internal/user): requests that create, change   *)
(* and delete addresses on concurrent connections, of which at most one is *)
(* the default.  Create and Update run in a READ COMMITTED transaction:    *)
(* req[h].w holds the rows a transaction wrote and has not committed, which *)
(* are locked against the other connections.                               *)
(***************************************************************************)
EXTENDS Integers, FiniteSets

CONSTANTS
    AddrHandlers,   \* connections serving address requests
    Addrs,          \* ids a row may be given
    Addr0,          \* the book at the start: [Addrs -> Row]
    MaxFaults       \* bound on statements that fail

VARIABLES
    addr,           \* committed rows: is_default, or "none"
    req,            \* per connection, the request it serves
    faults

adrVars == <<addr, req, faults>>

Row  == {"none", "plain", "default"}
Idle == [at |-> "idle", a |-> CHOOSE a \in Addrs : TRUE, new |-> FALSE, def |-> FALSE,
         unset |-> {}, w |-> [a \in Addrs |-> "same"]]

Init == addr = Addr0 /\ req = [h \in AddrHandlers |-> Idle] /\ faults = 0

----------------------------------------------------------------------------
\* What PostgreSQL does with the rows of a transaction in flight.

Locked(h, a) == \E g \in AddrHandlers \ {h} : req[g].w[a] # "same"

\* A row as connection h sees it.
Seen(h, a) == IF req[h].w[a] = "same" THEN addr[a] ELSE req[h].w[a]

Go(h, r)  == req' = [req EXCEPT ![h] = r]
End(h)    == Go(h, Idle)
Holding(h, a, v) == [req[h].w EXCEPT ![a] = v]

\* The unique index on (user_id) WHERE is_default: a new default waits for the
\* transactions that are changing another default, and is refused by one that stays.
Contested(h) ==
    \E b \in Addrs \ {req[h].a}, g \in AddrHandlers \ {h} :
        req[g].w[b] # "same" /\ "default" \in {addr[b], req[g].w[b]}
Refused(h) == \E b \in Addrs \ {req[h].a} : Seen(h, b) = "default"

\* Connection h waits for the transaction of g.
WaitsFor(h, g) ==
    \/ req[h].at \in {"write", "delete"} /\ req[g].w[req[h].a] # "same"
    \/ \E b \in req[h].unset : req[g].w[b] # "same"
    \/ /\ req[h].at = "index"
       /\ \E b \in Addrs \ {req[h].a} : req[g].w[b] # "same" /\ "default" \in {addr[b], req[g].w[b]}
InCycle(h) ==
    \E S \in SUBSET AddrHandlers :
        /\ h \in S
        /\ \A x \in S : /\ \E y \in S \ {x} : WaitsFor(x, y)
                        /\ \E y \in S \ {x} : WaitsFor(y, x)

----------------------------------------------------------------------------
\* internal/db/gen/addresses.sql.go

GetAddressByID(a) == addr[a] # "none"

\* The defaults the statement finds when it starts.
UnsetDefaultAddresses(except) == {a \in Addrs \ except : addr[a] = "default"}

\* A default found is cleared once its lock is free, if it is still a default.
UnsetRow(h, a) ==
    /\ ~Locked(h, a)
    /\ Go(h, [req[h] EXCEPT !.unset = @ \ {a},
                            !.w = IF addr[a] = "default" THEN Holding(h, a, "plain") ELSE @])

CreateAddress(h) == Holding(h, req[h].a, IF req[h].def THEN "default" ELSE "plain")
UpdateAddress(h) == CreateAddress(h)
DeleteAddress(a) == addr' = [addr EXCEPT ![a] = "none"]

----------------------------------------------------------------------------
\* internal/user/service.go and handlers.go

\* A valid POST /users/me/addresses; an id no row or request has.
Create(h, a, def) ==
    /\ req[h].at = "idle"
    /\ addr[a] = "none" /\ \A g \in AddrHandlers : req[g].at # "idle" => req[g].a # a
    /\ Go(h, [Idle EXCEPT !.at = IF def THEN "unset" ELSE "write", !.a = a, !.new = TRUE, !.def = def])
    /\ UNCHANGED <<addr, faults>>

\* PATCH /users/me/addresses/{id}; answers 404 when the id is not the user's.
Update(h, a, def) ==
    /\ req[h].at = "idle"
    /\ IF GetAddressByID(a)
       THEN Go(h, [Idle EXCEPT !.at = IF def THEN "unset" ELSE "write", !.a = a, !.def = def])
       ELSE UNCHANGED req
    /\ UNCHANGED <<addr, faults>>

\* Mutant: the old default is cleared outside the transaction.
Unset_Outside(h) ==
    /\ req[h].at = "unset"
    /\ \A a \in UnsetDefaultAddresses({req[h].a}) : ~Locked(h, a)
    /\ addr' = [a \in Addrs |-> IF a \in UnsetDefaultAddresses({req[h].a}) THEN "plain" ELSE addr[a]]
    /\ Go(h, [req[h] EXCEPT !.at = "write"])
    /\ UNCHANGED faults

Unset(h) ==
    /\ req[h].at = "unset"
    /\ Go(h, [req[h] EXCEPT !.at = "unsetting",
                            !.unset = UnsetDefaultAddresses(IF req[h].new THEN {} ELSE {req[h].a})])
    /\ UNCHANGED <<addr, faults>>

Unsetting(h) ==
    /\ req[h].at = "unsetting"
    /\ IF req[h].unset = {} THEN Go(h, [req[h] EXCEPT !.at = "write"])
       ELSE \E a \in req[h].unset : UnsetRow(h, a)
    /\ UNCHANGED <<addr, faults>>

\* The row itself; an update of a row deleted meanwhile fails with ErrNoRows.
Write(h) ==
    /\ req[h].at = "write" /\ ~Locked(h, req[h].a)
    /\ IF req[h].new \/ GetAddressByID(req[h].a)
       THEN Go(h, [req[h] EXCEPT !.at = IF req[h].def THEN "index" ELSE "commit",
                                 !.w = IF req[h].new THEN CreateAddress(h) ELSE UpdateAddress(h)])
       ELSE End(h)
    /\ UNCHANGED <<addr, faults>>

Index(h) ==
    /\ req[h].at = "index" /\ ~Contested(h)
    /\ IF Refused(h) THEN End(h) ELSE Go(h, [req[h] EXCEPT !.at = "commit"])
    /\ UNCHANGED <<addr, faults>>

Commit(h) ==
    /\ req[h].at = "commit"
    /\ addr' = [a \in Addrs |-> Seen(h, a)]
    /\ End(h)
    /\ UNCHANGED faults

\* DELETE /users/me/addresses/{id}: a read, then a statement of its own.
Delete(h, a) ==
    /\ req[h].at = "idle"
    /\ IF GetAddressByID(a) THEN Go(h, [Idle EXCEPT !.at = "delete", !.a = a]) ELSE UNCHANGED req
    /\ UNCHANGED <<addr, faults>>

DeleteRow(h) ==
    /\ req[h].at = "delete" /\ ~Locked(h, req[h].a)
    /\ DeleteAddress(req[h].a)
    /\ End(h)
    /\ UNCHANGED faults

\* Mutant: without the rollback the rows stay locked.
Fail_NoRollback(h) ==
    /\ faults < MaxFaults /\ faults' = faults + 1
    /\ req[h].at # "idle"
    /\ Go(h, [req[h] EXCEPT !.at = "idle"]) /\ UNCHANGED addr

\* A statement, or the wait for it, fails or the request is cancelled: the
\* deferred Rollback drops what the transaction wrote.
Fail(h) ==
    /\ faults < MaxFaults /\ faults' = faults + 1
    /\ req[h].at # "idle"
    /\ End(h) /\ UNCHANGED addr

\* PostgreSQL ends a cycle of waits by failing one of its statements.
DeadlockVictim(h) == InCycle(h) /\ End(h) /\ UNCHANGED <<addr, faults>>

Start(h) == \E a \in Addrs : Delete(h, a) \/ \E def \in BOOLEAN : Create(h, a, def) \/ Update(h, a, def)
Run(h)   == Unset(h) \/ Unsetting(h) \/ Write(h) \/ Index(h) \/ Commit(h) \/ DeleteRow(h)
            \/ DeadlockVictim(h)
Step(h)  == Run(h) \/ Fail(h)

----------------------------------------------------------------------------
Defaults == {a \in Addrs : addr[a] = "default"}

\* Only a deletion of the default, or a change of that very address to an
\* ordinary one, may leave the user without a default; nothing makes two.
DefaultMoves ==
    /\ Cardinality(Defaults') <= 1
    /\ Defaults # {} /\ Defaults' = {} =>
          \E h \in AddrHandlers : /\ req[h].a \in Defaults /\ ~req[h].def
                                  /\ req[h].at \in {"delete", "commit"} /\ req'[h].at = "idle"

\* Every request is answered, although requests wait for each other's rows and
\* for the index, and three that move the default can close a cycle of waits:
\* what PostgreSQL fails is rolled back, which frees the others.
RequestsEnd == \A h \in AddrHandlers : req[h].at # "idle" ~> req[h].at = "idle"
=============================================================================
