------------------------------- MODULE Lease -------------------------------
(***************************************************************************)
(* What a lock with an owner and a time to live promises (internal/lock):  *)
(* one owner at a time, nobody but the owner ends its ownership before the *)
(* time to live does, and a client whose lease has expired can tell only   *)
(* by the clock: it stays inside its critical section.                     *)
(***************************************************************************)
CONSTANTS Keys, Clients, None

VARIABLES
    owner,      \* the client whose token each key holds, or None
    inside,     \* the key whose critical section each client is in, or None
    overdue     \* clients that are inside although their lease expired

leaseVars == <<owner, inside, overdue>>

Init ==
    /\ owner = [k \in Keys |-> None]
    /\ inside = [c \in Clients |-> None]
    /\ overdue = {}

Enter(c, k) ==
    /\ inside[c] = None
    /\ owner[k] = None
    /\ owner' = [owner EXCEPT ![k] = c]
    /\ inside' = [inside EXCEPT ![c] = k]
    /\ UNCHANGED overdue

\* The owner gives the key back; an overdue client takes nothing from anybody.
Leave(c, k) ==
    /\ inside[c] = k
    /\ inside' = [inside EXCEPT ![c] = None]
    /\ overdue' = overdue \ {c}
    /\ owner' = IF c \in overdue THEN owner ELSE [owner EXCEPT ![k] = None]

\* The process ends, or cannot reach the lock: the key stays until it expires.
Abandon(c, k) ==
    /\ inside[c] = k
    /\ inside' = [inside EXCEPT ![c] = None]
    /\ overdue' = overdue \ {c}
    /\ UNCHANGED owner

\* The key is taken, but the client never learns that it has it.
Strand(c, k) ==
    /\ inside[c] = None /\ owner[k] = None
    /\ owner' = [owner EXCEPT ![k] = c]
    /\ UNCHANGED <<inside, overdue>>

Expire(k) ==
    /\ owner[k] # None
    /\ owner' = [owner EXCEPT ![k] = None]
    /\ overdue' = overdue \union {c \in {owner[k]} : inside[c] = k}
    /\ UNCHANGED inside

Next ==
    \E k \in Keys :
        \/ Expire(k)
        \/ \E c \in Clients : Enter(c, k) \/ Leave(c, k) \/ Abandon(c, k) \/ Strand(c, k)

Spec == Init /\ [][Next]_leaseVars

============================================================================
