----------------------------- MODULE Shipping -----------------------------
(***************************************************************************)
(* Shipments: creation by an administrator, the courier's notifications,   *)
(* the shipment state machine and its synchronisation with the order       *)
(* (internal/shipping).  Nothing here runs in a transaction: every         *)
(* statement is a step, and a request may end after any of them.           *)
(*                                                                         *)
(* What payments, users and administrators do to the order meanwhile is    *)
(* taken from OrderRow, which OrderPayment implements.                     *)
(***************************************************************************)
EXTENDS OrderStatus, Sequences, FiniteSets

CONSTANTS
    Orders,
    Bodies,         \* distinct notification bodies of the courier
    BodyOrder,      \* BodyOrder[b]: the order the body is about
    BodyStatus,     \* BodyStatus[b]: its externalStatus
    Requests,       \* requests in progress at the same time
    MaxSettles      \* bound: settlements per order by the environment

ASSUME ShippingAssumption ==
    /\ BodyOrder \in [Bodies -> Orders]
    /\ MaxSettles \in Nat

VARIABLES
    orders,         \* orders.status
    settles,        \* history: settlements per order
    shipments,      \* shipments rows per order: status and statuses of their shipment_events
    req,            \* the requests: where they are, order, status to record, shipment row
    replay,         \* bodies whose replay key is in Redis
    announced       \* notified and emitted: <<order, status>>

shippingVars == <<shipments, req, replay, announced>>
vars == <<orders, settles, shippingVars>>

Row == INSTANCE OrderRow WITH Orders <- Orders, orders <- orders, settles <- settles

---------------------------------------------------------------------------
\* The statuses the code writes; the column's type also has IN_TRANSIT and RETURNED.
ShipmentStatuses == {"PENDING", "PICKED", "SHIPPED", "OUT_FOR_DELIVERY", "DELIVERED"}

MapExternalToStatus(word) ==
    CASE word \in {"picked", "pickup"} -> "PICKED"
      [] word \in {"shipped", "in_transit", "in-transit"} -> "SHIPPED"
      [] word \in {"out_for_delivery", "out-for-delivery"} -> "OUT_FOR_DELIVERY"
      [] word = "delivered" -> "DELIVERED"
      [] OTHER -> "PENDING"

allowedShipmentTransition(current, next) ==
    \/ current = next
    \/ current = "PENDING" /\ next = "SHIPPED"
    \/ current = "SHIPPED" /\ next \in {"OUT_FOR_DELIVERY", "DELIVERED"}
    \/ current = "OUT_FOR_DELIVERY" /\ next = "DELIVERED"

\* The shipment statuses that have an order status, a mail and a topic; the
\* order status has the same name.
shipmentToOrderStatus == {"SHIPPED", "OUT_FOR_DELIVERY", "DELIVERED"}

Places == {"idle", "lookup", "insert", "pack",
           "find", "event", "status", "read", "sync", "announce"}
Idle == [at |-> "idle", order |-> "none", status |-> "PENDING", ship |-> 0]

Init ==
    /\ Row!Init
    /\ shipments = [o \in Orders |-> <<>>]
    /\ req = [r \in Requests |-> Idle]
    /\ replay = {}
    /\ announced = {}

Goto(r, place) == req' = [req EXCEPT ![r].at = place]
Finish(r) == req' = [req EXCEPT ![r] = Idle]

---------------------------------------------------------------------------
(* Service.Create.                                                         *)

\* GetOrderByID: only a paid or packed order is eligible.
CreateCheck(r, o) ==
    /\ req[r].at = "idle"
    /\ orders[o] \in {"PAID", "PACKED"}
    /\ req' = [req EXCEPT ![r] = [Idle EXCEPT !.at = "lookup", !.order = o]]
    /\ UNCHANGED <<orders, settles, shipments, replay, announced>>

\* GetShipmentByOrder: an existing shipment ends the request.
CreateLookup(r) ==
    /\ req[r].at = "lookup"
    /\ IF shipments[req[r].order] = <<>> THEN Goto(r, "insert") ELSE Finish(r)
    /\ UNCHANGED <<orders, settles, shipments, replay, announced>>

\* CreateShipment.
CreateInsert(r) ==
    /\ req[r].at = "insert"
    /\ shipments' = [shipments EXCEPT ![req[r].order] =
                         Append(@, [status |-> "PENDING", events |-> {}])]
    /\ Goto(r, "pack")
    /\ UNCHANGED <<orders, settles, replay, announced>>

\* UpdateOrderStatusIfAllowed; no row updated is no error.
SetOrderIfAllowed(o, target) ==
    orders' = IF UpdateAllowed(orders[o], target) THEN [orders EXCEPT ![o] = target] ELSE orders

CreatePack(r) ==
    /\ req[r].at = "pack"
    /\ SetOrderIfAllowed(req[r].order, "PACKED")
    /\ Finish(r)
    /\ UNCHANGED <<settles, shipments, replay, announced>>

---------------------------------------------------------------------------
(* Webhook.Handle and Service.AppendEvent.                                 *)

\* The body takes its replay key; an unrecognised status ends the request.
Receive(r, b) ==
    /\ req[r].at = "idle"
    /\ b \notin replay
    /\ replay' = replay \cup {b}
    /\ LET status == MapExternalToStatus(BodyStatus[b]) IN
       IF status = "PENDING" THEN UNCHANGED req
       ELSE req' = [req EXCEPT ![r] = [at |-> "find", order |-> BodyOrder[b],
                                       status |-> status, ship |-> 0]]
    /\ UNCHANGED <<orders, settles, shipments, announced>>

\* The replay key's TTL ends.
ReplayExpires(b) ==
    /\ b \in replay
    /\ replay' = replay \ {b}
    /\ UNCHANGED <<orders, settles, shipments, req, announced>>

\* Mutant: the shipment is updated without a tracking event.
FindShipment_NoEvent(r) ==
    /\ req[r].at = "find"
    /\ LET o == req[r].order IN
       \/ shipments[o] = <<>> /\ Finish(r)
       \/ \E i \in 1..Len(shipments[o]) :
             IF allowedShipmentTransition(shipments[o][i].status, req[r].status)
             THEN req' = [req EXCEPT ![r].at = "status", ![r].ship = i]
             ELSE Finish(r)
    /\ UNCHANGED <<orders, settles, shipments, replay, announced>>

\* GetShipmentByOrder (LIMIT 1, no ORDER BY: any row), and the check of the
\* transition against the status read.
FindShipment(r) ==
    /\ req[r].at = "find"
    /\ LET o == req[r].order IN
       \/ shipments[o] = <<>> /\ Finish(r)
       \/ \E i \in 1..Len(shipments[o]) :
             IF allowedShipmentTransition(shipments[o][i].status, req[r].status)
             THEN req' = [req EXCEPT ![r].at = "event", ![r].ship = i]
             ELSE Finish(r)
    /\ UNCHANGED <<orders, settles, shipments, replay, announced>>

\* A statement that updates the request's shipment row.
WriteShipment(r, row) == shipments' = [shipments EXCEPT ![req[r].order][req[r].ship] = row]
ShipmentRow(r) == shipments[req[r].order][req[r].ship]

InsertShipmentEvent(r) ==
    /\ req[r].at = "event"
    /\ WriteShipment(r, [ShipmentRow(r) EXCEPT !.events = @ \cup {req[r].status}])
    /\ Goto(r, "status")
    /\ UNCHANGED <<orders, settles, replay, announced>>

UpdateShipmentStatus(r) ==
    /\ req[r].at = "status"
    /\ WriteShipment(r, [ShipmentRow(r) EXCEPT !.status = req[r].status])
    /\ Goto(r, IF req[r].status \in shipmentToOrderStatus THEN "read" ELSE "announce")
    /\ UNCHANGED <<orders, settles, replay, announced>>

\* syncOrderStatus: GetOrderStatus and the comparison of the ranks, ...
ReadOrderStatus(r) ==
    /\ req[r].at = "read"
    /\ Goto(r, IF orderStatusRank(orders[req[r].order]) >= orderStatusRank(req[r].status)
               THEN "announce" ELSE "sync")
    /\ UNCHANGED <<orders, settles, shipments, replay, announced>>

\* ... then the conditional update.
SyncOrderStatus(r) ==
    /\ req[r].at = "sync"
    /\ SetOrderIfAllowed(req[r].order, req[r].status)
    /\ Goto(r, "announce")
    /\ UNCHANGED <<settles, shipments, replay, announced>>

\* notify and emit.
Announce(r) ==
    /\ req[r].at = "announce"
    /\ announced' = IF req[r].status \in shipmentToOrderStatus
                    THEN announced \cup {<<req[r].order, req[r].status>>} ELSE announced
    /\ Finish(r)
    /\ UNCHANGED <<orders, settles, shipments, replay>>

\* A statement fails, the request is cancelled or the process dies.
Abort(r) ==
    /\ req[r].at # "idle"
    /\ Finish(r)
    /\ UNCHANGED <<orders, settles, shipments, replay, announced>>

\* The rest of the system.
OrderMoves(o) ==
    /\ Row!Place(o) \/ (settles[o] < MaxSettles /\ Row!Settle(o)) \/ Row!Cancel(o) \/ Row!Advance(o)
    /\ UNCHANGED shippingVars

RequestStep(r) ==
    \/ CreateLookup(r) \/ CreateInsert(r) \/ CreatePack(r)
    \/ FindShipment(r) \/ InsertShipmentEvent(r) \/ UpdateShipmentStatus(r)
    \/ ReadOrderStatus(r) \/ SyncOrderStatus(r) \/ Announce(r)

Next ==
    \/ \E r \in Requests : \/ \E o \in Orders : CreateCheck(r, o)
                           \/ \E b \in Bodies : Receive(r, b)
                           \/ RequestStep(r)
                           \/ Abort(r)
    \/ \E b \in Bodies : ReplayExpires(b)
    \/ \E o \in Orders : OrderMoves(o)

Spec == Init /\ [][Next]_vars

---------------------------------------------------------------------------
(* Properties.                                                             *)

Shipment == [status : ShipmentStatuses, events : SUBSET ShipmentStatuses]

Request == [at : Places, order : Orders \cup {"none"}, status : ShipmentStatuses, ship : Nat]

TypeOK ==
    /\ orders \in [Orders -> OrderStatuses \cup {"none"}]
    /\ settles \in [Orders -> Nat]
    /\ shipments \in [Orders -> Seq(Shipment)]
    /\ req \in [Requests -> Request]
    /\ replay \subseteq Bodies
    /\ announced \subseteq Orders \X shipmentToOrderStatus

\* A shipment is only ever registered for an order whose payment was settled,
\* even if the order is cancelled between the check and the insertion.
ShippedOnlyIfSettled == \A o \in Orders : shipments[o] # <<>> => settles[o] > 0

\* The tracking history is never behind the shipment: whatever fails or
\* interleaves, a shipment's status has its shipment_events row.
StatusHasEvent ==
    \A o \in Orders : \A i \in 1..Len(shipments[o]) :
        shipments[o][i].status \in shipments[o][i].events \cup {"PENDING"}

\* Customers and subscribers are told only of what is recorded.
AnnouncedIsRecorded ==
    \A a \in announced : \E i \in 1..Len(shipments[a[1]]) : a[2] \in shipments[a[1]][i].events

\* A courier's or administrator's request moves an order only from one stage of
\* its fulfilment to the next: an order cancelled after its status was read
\* stays cancelled, one that was paid anew starts again.
ImplementsOrderRow == Row!Spec

===========================================================================
