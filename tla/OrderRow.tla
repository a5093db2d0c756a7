----------------------------- MODULE OrderRow -----------------------------
(***************************************************************************)
(* What the rest of the system may rely on about the status of an order,   *)
(* whoever writes it: checkout, payment notifications, the user, an        *)
(* administrator or a courier.  OrderPayment and Shipping implement it;    *)
(* Shipping takes it as the behaviour of everything else around it.        *)
(***************************************************************************)
EXTENDS OrderStatus

CONSTANT Orders

VARIABLES
    orders,     \* the status of each order, "none" before checkout
    settles     \* how often each order's payment was settled

vars == <<orders, settles>>

Init ==
    /\ orders = [o \in Orders |-> "none"]
    /\ settles = [o \in Orders |-> 0]

Place(o) ==
    /\ orders[o] = "none"
    /\ orders' = [orders EXCEPT ![o] = "PENDING_PAYMENT"]
    /\ UNCHANGED settles

\* A settlement takes the order to PAID from wherever it is.
Settle(o) ==
    /\ orders[o] # "none"
    /\ orders' = [orders EXCEPT ![o] = "PAID"]
    /\ settles' = [settles EXCEPT ![o] = @ + 1]

\* A cancellation that was decided on an earlier status.
Cancel(o) ==
    /\ orders[o] # "none"
    /\ orders' = [orders EXCEPT ![o] = "CANCELED"]
    /\ UNCHANGED settles

Stages == {<<"PAID", "PACKED">>, <<"PACKED", "SHIPPED">>, <<"SHIPPED", "OUT_FOR_DELIVERY">>,
           <<"OUT_FOR_DELIVERY", "DELIVERED">>}

\* Fulfilment goes one stage at a time and starts from PAID.
Advance(o) ==
    \E stage \in Stages :
        /\ orders[o] = stage[1]
        /\ orders' = [orders EXCEPT ![o] = stage[2]]
        /\ UNCHANGED settles

Next == \E o \in Orders : Place(o) \/ Settle(o) \/ Cancel(o) \/ Advance(o)

Spec == Init /\ [][Next]_vars

===========================================================================
