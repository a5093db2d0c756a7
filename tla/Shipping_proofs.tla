-------------------------- MODULE Shipping_proofs --------------------------
(***************************************************************************)
(* The invariants of Shipping, and that it implements OrderRow, for any    *)
(* number of orders, requests and courier notifications.                   *)
(***************************************************************************)
EXTENDS Shipping, SequenceTheorems, TLAPS

(* The inductive invariant.                                                *)

\* What a request still knows of the rows it read before: the status it read
\* may be stale, the settlement, the row and its event are not.
RequestOK(r) ==
    LET o == req[r].order IN
    /\ req[r].at # "idle" => o \in Orders
    /\ req[r].at \in {"lookup", "insert", "pack"} => settles[o] > 0
    /\ req[r].at \in {"event", "status", "read", "sync", "announce"} =>
           req[r].ship \in 1..Len(shipments[o])
    /\ req[r].at \in {"status", "read", "sync", "announce"} =>
           req[r].status \in shipments[o][req[r].ship].events
    /\ req[r].at \in {"read", "sync"} => req[r].status \in shipmentToOrderStatus

RequestsOK == \A r \in Requests : RequestOK(r)

PaidOrders == \A o \in Orders : orders[o] \in Fulfilment => settles[o] > 0

IInv ==
    /\ TypeOK
    /\ RequestsOK
    /\ PaidOrders
    /\ ShippedOnlyIfSettled
    /\ StatusHasEvent
    /\ AnnouncedIsRecorded

\* Rows, events and settlements are never taken away.
Grows ==
    /\ \A o \in Orders : settles[o] > 0 => settles'[o] > 0
    /\ \A o \in Orders : \A i \in 1..Len(shipments[o]) :
           /\ i \in 1..Len(shipments'[o])
           /\ shipments[o][i].events \subseteq shipments'[o][i].events

---------------------------------------------------------------------------
LEMMA IdleType == Idle \in Request /\ Idle.at = "idle"
  BY Zenon DEF Idle, Request, Places, ShipmentStatuses

LEMMA GotoEffect ==
    ASSUME req \in [Requests -> Request], NEW r \in Requests, NEW place \in Places, Goto(r, place)
    PROVE  /\ req' \in [Requests -> Request]
           /\ req'[r].at = place /\ req'[r].order = req[r].order
           /\ req'[r].status = req[r].status /\ req'[r].ship = req[r].ship
           /\ \A q \in Requests : q # r => req'[q] = req[q]
  BY Zenon DEF Goto, Request

LEMMA FinishEffect ==
    ASSUME req \in [Requests -> Request], NEW r \in Requests, Finish(r)
    PROVE  /\ req' \in [Requests -> Request] /\ req'[r].at = "idle"
           /\ \A q \in Requests : q # r => req'[q] = req[q]
  BY IdleType, Zenon DEF Finish

\* An update of one shipment row.
LEMMA WriteShipmentEffect ==
    ASSUME shipments \in [Orders -> Seq(Shipment)], NEW r \in Requests, req[r].order \in Orders,
           req[r].ship \in 1..Len(shipments[req[r].order]), NEW row \in Shipment,
           WriteShipment(r, row)
    PROVE  /\ shipments' \in [Orders -> Seq(Shipment)]
           /\ \A p \in Orders : Len(shipments'[p]) = Len(shipments[p])
           /\ \A p \in Orders : \A j \in 1..Len(shipments[p]) :
                  shipments'[p][j] = IF p = req[r].order /\ j = req[r].ship THEN row
                                     ELSE shipments[p][j]
<1> DEFINE o == req[r].order
           i == req[r].ship
           new == [shipments[o] EXCEPT ![i] = row]
<1>1. shipments[o] \in Seq(Shipment)
  BY Zenon
<1>2. /\ new \in Seq(Shipment) /\ Len(new) = Len(shipments[o])
      /\ \A j \in 1..Len(shipments[o]) : new[j] = IF j = i THEN row ELSE shipments[o][j]
  BY <1>1, ExceptSeq
<1>3. shipments' = [shipments EXCEPT ![o] = new]
  BY Zenon DEF WriteShipment
<1> HIDE DEF new
<1> QED BY <1>2, <1>3, Zenon

LEMMA InitIInv == Init => IInv
  BY IdleType DEF Init, Row!Init, IInv, TypeOK, RequestsOK, RequestOK, PaidOrders, Fulfilment,
         ShippedOnlyIfSettled, StatusHasEvent, AnnouncedIsRecorded, Idle

\* A request that does not move keeps what it knows while the rows grow.
LEMMA OthersKeep ==
    ASSUME IInv, Grows, NEW r \in Requests, req'[r] = req[r]
    PROVE  RequestOK(r)'
  BY Zenon DEF IInv, RequestsOK, RequestOK, Grows

\* A step that leaves the rows alone: only the request itself is in question.
LEMMA ControlStep ==
    ASSUME IInv, UNCHANGED <<orders, settles, shipments, announced>>, replay' \subseteq Bodies,
           req' \in [Requests -> Request],
           \A q \in Requests : req'[q] = req[q] \/ RequestOK(q)'
    PROVE  IInv'
<1>1. Grows
  BY Zenon DEF Grows
<1>2. RequestsOK'
  BY <1>1, OthersKeep, Zenon DEF RequestsOK
<1>3. TypeOK'
  BY Zenon DEF IInv, TypeOK
<1>4. PaidOrders' /\ ShippedOnlyIfSettled' /\ StatusHasEvent' /\ AnnouncedIsRecorded'
  BY Zenon DEF IInv, PaidOrders, ShippedOnlyIfSettled, StatusHasEvent, AnnouncedIsRecorded
<1> QED BY <1>2, <1>3, <1>4, Zenon DEF IInv

LEMMA FinishOnly ==
    ASSUME IInv, NEW r \in Requests, Finish(r), UNCHANGED <<orders, settles, shipments, replay, announced>>
    PROVE  IInv'
<1>1. /\ req' \in [Requests -> Request] /\ req'[r].at = "idle"
      /\ \A q \in Requests : q # r => req'[q] = req[q]
  BY FinishEffect, Zenon DEF IInv, TypeOK
<1>2. RequestOK(r)'
  BY <1>1, Zenon DEF RequestOK
<1>3. replay' \subseteq Bodies
  BY Zenon DEF IInv, TypeOK
<1> QED BY <1>1, <1>2, <1>3, ControlStep, Zenon

---------------------------------------------------------------------------
(* One lemma per group of actions.                                         *)

LEMMA CreateCheckStep ==
    ASSUME IInv, NEW r \in Requests, NEW o \in Orders, CreateCheck(r, o)
    PROVE  IInv'
<1> DEFINE new == [Idle EXCEPT !.at = "lookup", !.order = o]
<1>1. new \in Request /\ new.at = "lookup" /\ new.order = o
  BY Zenon DEF Idle, Request, Places, ShipmentStatuses
<1>2. req' = [req EXCEPT ![r] = new] /\ UNCHANGED <<orders, settles, shipments, replay, announced>>
  BY Zenon DEF CreateCheck
<1> HIDE DEF new
<1>3. /\ req' \in [Requests -> Request] /\ req'[r] = new
      /\ \A q \in Requests : q # r => req'[q] = req[q]
  BY <1>1, <1>2, Zenon DEF IInv, TypeOK
<1>4. settles[o] > 0
  BY Zenon DEF CreateCheck, IInv, PaidOrders, Fulfilment
<1>5. RequestOK(r)'
  BY <1>1, <1>2, <1>3, <1>4, Zenon DEF RequestOK
<1>6. replay' \subseteq Bodies
  BY <1>2, Zenon DEF IInv, TypeOK
<1> QED BY <1>2, <1>3, <1>5, <1>6, ControlStep, Zenon

LEMMA ReceiveStep ==
    ASSUME IInv, NEW r \in Requests, NEW b \in Bodies, Receive(r, b)
    PROVE  IInv'
<1> DEFINE status == MapExternalToStatus(BodyStatus[b])
           new == [at |-> "find", order |-> BodyOrder[b], status |-> status, ship |-> 0]
<1>1. new \in Request /\ new.at = "find" /\ new.order \in Orders
  BY ShippingAssumption, Zenon DEF Request, Places, ShipmentStatuses, MapExternalToStatus
<1>2. /\ req' = req \/ req' = [req EXCEPT ![r] = new]
      /\ UNCHANGED <<orders, settles, shipments, announced>> /\ replay' \subseteq Bodies
  BY Zenon DEF Receive, IInv, TypeOK
<1> HIDE DEF new
<1>3. CASE req' = req
  <2>1. req' \in [Requests -> Request]
    BY <1>3, Zenon DEF IInv, TypeOK
  <2> QED BY <1>2, <1>3, <2>1, ControlStep, Zenon
<1>4. CASE req' = [req EXCEPT ![r] = new]
  <2>1. /\ req' \in [Requests -> Request] /\ req'[r] = new
        /\ \A q \in Requests : q # r => req'[q] = req[q]
    BY <1>1, <1>4, Zenon DEF IInv, TypeOK
  <2>2. RequestOK(r)'
    BY <1>1, <2>1, Zenon DEF RequestOK
  <2> QED BY <1>2, <2>1, <2>2, ControlStep, Zenon
<1> QED BY <1>2, <1>3, <1>4, Zenon

LEMMA ReplayExpiresStep ==
    ASSUME IInv, NEW b \in Bodies, ReplayExpires(b)
    PROVE  IInv'
<1>1. /\ UNCHANGED <<orders, settles, shipments, announced, req>> /\ replay' \subseteq Bodies
      /\ req' \in [Requests -> Request]
  BY Zenon DEF ReplayExpires, IInv, TypeOK
<1> QED BY <1>1, ControlStep, Zenon

LEMMA LookupStep ==
    ASSUME IInv, NEW r \in Requests, CreateLookup(r) \/ ReadOrderStatus(r)
    PROVE  IInv'
<1>0. /\ req \in [Requests -> Request] /\ RequestOK(r)
      /\ UNCHANGED <<orders, settles, shipments, replay, announced>> /\ replay' \subseteq Bodies
  BY Zenon DEF CreateLookup, ReadOrderStatus, IInv, TypeOK, RequestsOK
<1>1. CASE Finish(r)
  BY <1>0, <1>1, FinishOnly, Zenon
<1>2. CASE CreateLookup(r) /\ Goto(r, "insert")
  <2>1. "insert" \in Places
    BY Zenon DEF Places
  <2>2. /\ req' \in [Requests -> Request]
        /\ req'[r].at = "insert" /\ req'[r].order = req[r].order
        /\ \A q \in Requests : q # r => req'[q] = req[q]
    BY <1>0, <1>2, <2>1, GotoEffect, Zenon
  <2>3. RequestOK(r)'
    BY <1>0, <1>2, <2>2, Zenon DEF RequestOK, CreateLookup
  <2> QED BY <1>0, <2>2, <2>3, ControlStep, Zenon
<1>3. ASSUME ReadOrderStatus(r), NEW place \in {"announce", "sync"}, Goto(r, place)
      PROVE  IInv'
  <2>1. place \in Places
    BY Zenon DEF Places
  <2>2. /\ req' \in [Requests -> Request]
        /\ req'[r].at = place /\ req'[r].order = req[r].order
        /\ req'[r].status = req[r].status /\ req'[r].ship = req[r].ship
        /\ \A q \in Requests : q # r => req'[q] = req[q]
    BY <1>0, <1>3, <2>1, GotoEffect, Zenon
  <2>3. RequestOK(r)'
    BY <1>0, <1>3, <2>2, Zenon DEF RequestOK, ReadOrderStatus
  <2> QED BY <1>0, <2>2, <2>3, ControlStep, Zenon
<1> QED BY <1>1, <1>2, <1>3, Zenon DEF CreateLookup, ReadOrderStatus

LEMMA FindStep ==
    ASSUME IInv, NEW r \in Requests, FindShipment(r)
    PROVE  IInv'
<1> DEFINE o == req[r].order
<1>0. /\ req \in [Requests -> Request] /\ RequestOK(r) /\ req[r].at = "find" /\ o \in Orders
      /\ shipments \in [Orders -> Seq(Shipment)]
      /\ UNCHANGED <<orders, settles, shipments, replay, announced>> /\ replay' \subseteq Bodies
  BY Zenon DEF FindShipment, IInv, TypeOK, RequestsOK, RequestOK
<1>1. CASE Finish(r)
  BY <1>0, <1>1, FinishOnly, Zenon
<1>2. ASSUME NEW i \in 1..Len(shipments[o]), req' = [req EXCEPT ![r].at = "event", ![r].ship = i]
      PROVE  IInv'
  <2>1. i \in Nat
    BY <1>0
  <2>2. /\ req' \in [Requests -> Request]
        /\ req'[r].at = "event" /\ req'[r].order = o /\ req'[r].ship = i
        /\ \A q \in Requests : q # r => req'[q] = req[q]
    BY <1>0, <1>2, <2>1, Zenon DEF Request, Places
  <2>3. RequestOK(r)'
    BY <1>0, <2>2, Zenon DEF RequestOK
  <2> QED BY <1>0, <2>2, <2>3, ControlStep, Zenon
<1> QED BY <1>1, <1>2, Zenon DEF FindShipment

LEMMA InsertStep ==
    ASSUME IInv, NEW r \in Requests, CreateInsert(r)
    PROVE  IInv'
<1> DEFINE o == req[r].order
           row == [status |-> "PENDING", events |-> {}]
           new == Append(shipments[o], row)
<1>0. /\ req \in [Requests -> Request] /\ RequestOK(r) /\ req[r].at = "insert" /\ o \in Orders
      /\ settles[o] > 0 /\ shipments \in [Orders -> Seq(Shipment)]
      /\ UNCHANGED <<orders, settles, replay, announced>>
  BY Zenon DEF CreateInsert, IInv, TypeOK, RequestsOK, RequestOK
<1>1. row \in Shipment /\ row.status = "PENDING" /\ "pack" \in Places
  BY Zenon DEF Shipment, ShipmentStatuses, Places
<1> HIDE DEF row
<1>2. /\ req' \in [Requests -> Request]
      /\ req'[r].at = "pack" /\ req'[r].order = o
      /\ \A q \in Requests : q # r => req'[q] = req[q]
  BY <1>0, <1>1, GotoEffect, Zenon DEF CreateInsert
<1>3. /\ new \in Seq(Shipment) /\ Len(new) = Len(shipments[o]) + 1
      /\ \A i \in 1..Len(shipments[o]) : new[i] = shipments[o][i]
      /\ new[Len(shipments[o]) + 1] = row
  BY <1>0, <1>1, AppendProperties
<1>4. shipments' = [shipments EXCEPT ![o] = new]
  BY Zenon DEF CreateInsert, row
<1> HIDE DEF new
<1>5. \A p \in Orders : p # o => shipments'[p] = shipments[p]
  BY <1>0, <1>4, Zenon
<1>6. shipments' \in [Orders -> Seq(Shipment)] /\ shipments'[o] = new
  BY <1>0, <1>3, <1>4, Zenon
<1>7. Len(shipments[o]) \in Nat
  BY <1>0
<1>8. Grows
  <2>1. \A i \in 1..Len(shipments[o]) :
           i \in 1..Len(shipments'[o]) /\ shipments'[o][i] = shipments[o][i]
    BY <1>3, <1>6, <1>7
  <2> QED BY <1>0, <1>5, <2>1, Zenon DEF Grows
<1>9. RequestsOK'
  <2>1. RequestOK(r)'
    BY <1>0, <1>2, Zenon DEF RequestOK
  <2> QED BY <1>2, <1>8, <2>1, OthersKeep, Zenon DEF RequestsOK
<1>10. TypeOK'
  BY <1>0, <1>2, <1>6, Zenon DEF IInv, TypeOK
<1>11. PaidOrders' /\ ShippedOnlyIfSettled'
  BY <1>0, <1>5, <1>6, Zenon DEF IInv, PaidOrders, ShippedOnlyIfSettled
<1>12. StatusHasEvent'
  <2> SUFFICES ASSUME NEW p \in Orders, NEW i \in 1..Len(shipments'[p])
               PROVE  shipments'[p][i].status \in shipments'[p][i].events \cup {"PENDING"}
    BY Zenon DEF StatusHasEvent
  <2>1. CASE p # o
    BY <1>5, <2>1, Zenon DEF IInv, StatusHasEvent
  <2>2. CASE p = o /\ i \in 1..Len(shipments[o])
    BY <1>3, <1>6, <2>2, Zenon DEF IInv, StatusHasEvent
  <2>3. CASE p = o /\ i = Len(shipments[o]) + 1
    BY <1>1, <1>3, <1>6, <2>3, Zenon
  <2> QED BY <1>3, <1>6, <1>7, <2>1, <2>2, <2>3
<1>13. AnnouncedIsRecorded'
  BY <1>0, <1>8, Zenon DEF IInv, AnnouncedIsRecorded, Grows, TypeOK
<1> QED BY <1>9, <1>10, <1>11, <1>12, <1>13, Zenon DEF IInv

\* Both writes of AppendEvent leave the row's status among its events.
LEMMA WriteStep ==
    ASSUME IInv, NEW r \in Requests, InsertShipmentEvent(r) \/ UpdateShipmentStatus(r)
    PROVE  IInv'
<1> DEFINE o == req[r].order
           i == req[r].ship
           old == shipments[o][i]
<1>0. /\ req \in [Requests -> Request] /\ RequestOK(r) /\ o \in Orders
      /\ req[r].status \in ShipmentStatuses /\ i \in 1..Len(shipments[o])
      /\ shipments \in [Orders -> Seq(Shipment)]
      /\ UNCHANGED <<orders, settles, replay, announced>>
  BY Zenon DEF InsertShipmentEvent, UpdateShipmentStatus, IInv, TypeOK, RequestsOK, RequestOK, Request
<1>1. old \in Shipment
  BY <1>0
<1>2. old.status \in old.events \cup {"PENDING"}
  BY <1>0, Zenon DEF IInv, StatusHasEvent
<1>3. \A p \in Orders : Len(shipments[p]) \in Nat
  BY <1>0
<1>4. PICK row \in Shipment :
        /\ WriteShipment(r, row)
        /\ old.events \subseteq row.events
        /\ row.status \in row.events \cup {"PENDING"}
        /\ req[r].status \in row.events
  <2>1. CASE InsertShipmentEvent(r)
    <3> DEFINE row == [old EXCEPT !.events = @ \cup {req[r].status}]
    <3>1. /\ row \in Shipment /\ row.events = old.events \cup {req[r].status}
          /\ row.status = old.status
      BY <1>0, <1>1, Zenon DEF Shipment
    <3>2. WriteShipment(r, row)
      BY <2>1, Zenon DEF InsertShipmentEvent, ShipmentRow
    <3> QED BY <1>2, <3>1, <3>2, Zenon
  <2>2. CASE UpdateShipmentStatus(r)
    <3> DEFINE row == [old EXCEPT !.status = req[r].status]
    <3>1. row \in Shipment /\ row.events = old.events /\ row.status = req[r].status
      BY <1>0, <1>1, Zenon DEF Shipment
    <3>2. WriteShipment(r, row)
      BY <2>2, Zenon DEF UpdateShipmentStatus, ShipmentRow
    <3>3. req[r].status \in old.events
      BY <1>0, <2>2, Zenon DEF RequestOK, UpdateShipmentStatus
    <3> QED BY <3>1, <3>2, <3>3, Zenon
  <2> QED BY <2>1, <2>2, Zenon
<1>5. /\ shipments' \in [Orders -> Seq(Shipment)]
      /\ \A p \in Orders : Len(shipments'[p]) = Len(shipments[p])
      /\ \A p \in Orders : \A j \in 1..Len(shipments[p]) :
             shipments'[p][j] = IF p = o /\ j = i THEN row ELSE shipments[p][j]
  BY <1>0, <1>4, WriteShipmentEffect
<1>6. PICK place \in {"status", "read", "announce"} :
        /\ Goto(r, place)
        /\ place = "read" => req[r].status \in shipmentToOrderStatus
  BY Zenon DEF InsertShipmentEvent, UpdateShipmentStatus
<1>7. /\ req' \in [Requests -> Request]
      /\ req'[r].at = place /\ req'[r].order = o
      /\ req'[r].status = req[r].status /\ req'[r].ship = i
      /\ \A q \in Requests : q # r => req'[q] = req[q]
  <2>1. place \in Places
    BY Zenon DEF Places
  <2> QED BY <1>0, <1>6, <2>1, GotoEffect, Zenon
<1>8. Grows
  BY <1>0, <1>4, <1>5, Zenon DEF Grows
<1>9. RequestsOK'
  <2>1. shipments'[o][i] = row /\ i \in 1..Len(shipments'[o])
    BY <1>0, <1>5, Zenon
  <2>2. RequestOK(r)'
    BY <1>0, <1>4, <1>6, <1>7, <2>1, Zenon DEF RequestOK
  <2> QED BY <1>7, <1>8, <2>2, OthersKeep, Zenon DEF RequestsOK
<1>10. TypeOK'
  BY <1>0, <1>5, <1>7, Zenon DEF IInv, TypeOK
<1>11. PaidOrders' /\ ShippedOnlyIfSettled'
  <2>1. \A p \in Orders : shipments'[p] # <<>> => shipments[p] # <<>>
    BY <1>0, <1>5
  <2> QED BY <1>0, <2>1, Zenon DEF IInv, PaidOrders, ShippedOnlyIfSettled
<1>12. StatusHasEvent'
  BY <1>4, <1>5 DEF IInv, StatusHasEvent
<1>13. AnnouncedIsRecorded'
  BY <1>0, <1>8, Zenon DEF IInv, AnnouncedIsRecorded, Grows, TypeOK
<1> QED BY <1>9, <1>10, <1>11, <1>12, <1>13, Zenon DEF IInv

\* UpdateOrderStatusIfAllowed with a target of shipping is one stage or nothing.
LEMMA SetOrderEffect ==
    ASSUME orders \in [Orders -> OrderStatuses \cup {"none"}], NEW o \in Orders,
           NEW target \in {"PACKED"} \cup shipmentToOrderStatus, SetOrderIfAllowed(o, target),
           UNCHANGED settles
    PROVE  /\ Row!Advance(o) \/ UNCHANGED <<orders, settles>>
           /\ orders' \in [Orders -> OrderStatuses \cup {"none"}]
           /\ \A p \in Orders : orders'[p] \in Fulfilment => orders[p] \in Fulfilment
<1>1. CASE ~UpdateAllowed(orders[o], target)
  BY <1>1, Zenon DEF SetOrderIfAllowed
<1>2. CASE UpdateAllowed(orders[o], target)
  <2>1. orders' = [orders EXCEPT ![o] = target]
    BY <1>2, Zenon DEF SetOrderIfAllowed
  <2>2. /\ <<orders[o], target>> \in Row!Stages
        /\ orders[o] \in Fulfilment /\ target \in OrderStatuses
    BY <1>2, Zenon DEF UpdateAllowed, Row!Stages, shipmentToOrderStatus, Fulfilment, OrderStatuses
  <2>3. PICK stage \in Row!Stages : stage = <<orders[o], target>>
    BY <2>2, Zenon
  <2>4. orders[o] = stage[1] /\ target = stage[2]
    BY <2>3, Zenon
  <2>5. Row!Advance(o)
    BY <2>1, <2>4, Zenon DEF Row!Advance
  <2> QED BY <2>1, <2>2, <2>5, Zenon
<1> QED BY <1>1, <1>2, Zenon

LEMMA OrderStep ==
    ASSUME IInv, NEW r \in Requests, CreatePack(r) \/ SyncOrderStatus(r)
    PROVE  IInv' /\ [Row!Next]_(Row!vars)
<1>0. /\ req \in [Requests -> Request] /\ RequestOK(r) /\ req[r].order \in Orders
      /\ orders \in [Orders -> OrderStatuses \cup {"none"}]
      /\ UNCHANGED <<settles, shipments, replay, announced>>
  BY Zenon DEF CreatePack, SyncOrderStatus, IInv, TypeOK, RequestsOK, RequestOK
<1>1. PICK target \in {"PACKED"} \cup shipmentToOrderStatus :
        SetOrderIfAllowed(req[r].order, target)
  BY <1>0, Zenon DEF CreatePack, SyncOrderStatus, RequestOK
<1>2. /\ Row!Advance(req[r].order) \/ UNCHANGED <<orders, settles>>
      /\ orders' \in [Orders -> OrderStatuses \cup {"none"}]
      /\ \A p \in Orders : orders'[p] \in Fulfilment => orders[p] \in Fulfilment
  BY <1>0, <1>1, SetOrderEffect, Zenon
<1>3. /\ req' \in [Requests -> Request]
      /\ \A q \in Requests : q # r => req'[q] = req[q]
      /\ RequestOK(r)'
  <2>1. CASE CreatePack(r)
    <3>1. Finish(r)
      BY <2>1, Zenon DEF CreatePack
    <3>2. /\ req' \in [Requests -> Request] /\ req'[r].at = "idle"
          /\ \A q \in Requests : q # r => req'[q] = req[q]
      BY <1>0, <3>1, FinishEffect, Zenon
    <3> QED BY <3>2, Zenon DEF RequestOK
  <2>2. CASE SyncOrderStatus(r)
    <3>1. "announce" \in Places /\ Goto(r, "announce")
      BY <2>2, Zenon DEF SyncOrderStatus, Places
    <3>2. /\ req' \in [Requests -> Request]
          /\ req'[r].at = "announce" /\ req'[r].order = req[r].order
          /\ req'[r].status = req[r].status /\ req'[r].ship = req[r].ship
          /\ \A q \in Requests : q # r => req'[q] = req[q]
      BY <1>0, <3>1, GotoEffect, Zenon
    <3> QED BY <1>0, <2>2, <3>2, Zenon DEF RequestOK, SyncOrderStatus
  <2> QED BY <2>1, <2>2, Zenon
<1>4. Grows
  BY <1>0, Zenon DEF Grows
<1>5. RequestsOK'
  BY <1>3, <1>4, OthersKeep, Zenon DEF RequestsOK
<1>6. TypeOK'
  BY <1>0, <1>2, <1>3, Zenon DEF IInv, TypeOK
<1>7. PaidOrders' /\ ShippedOnlyIfSettled' /\ StatusHasEvent' /\ AnnouncedIsRecorded'
  BY <1>0, <1>2, Zenon DEF IInv, PaidOrders, ShippedOnlyIfSettled, StatusHasEvent, AnnouncedIsRecorded
<1>8. [Row!Next]_(Row!vars)
  BY <1>0, <1>2, Zenon DEF Row!Next, Row!vars
<1> QED BY <1>5, <1>6, <1>7, <1>8, Zenon DEF IInv

LEMMA AnnounceStep ==
    ASSUME IInv, NEW r \in Requests, Announce(r)
    PROVE  IInv'
<1> DEFINE o == req[r].order
<1>0. /\ req \in [Requests -> Request] /\ RequestOK(r) /\ o \in Orders /\ Finish(r)
      /\ req[r].ship \in 1..Len(shipments[o])
      /\ req[r].status \in shipments[o][req[r].ship].events
      /\ announced \subseteq Orders \X shipmentToOrderStatus
      /\ UNCHANGED <<orders, settles, shipments, replay>>
  BY Zenon DEF Announce, IInv, TypeOK, RequestsOK, RequestOK
<1>1. /\ req' \in [Requests -> Request] /\ req'[r].at = "idle"
      /\ \A q \in Requests : q # r => req'[q] = req[q]
  BY <1>0, FinishEffect, Zenon
<1>2. Grows
  BY <1>0, Zenon DEF Grows
<1>3. RequestsOK'
  <2>1. RequestOK(r)'
    BY <1>1, Zenon DEF RequestOK
  <2> QED BY <1>1, <1>2, <2>1, OthersKeep, Zenon DEF RequestsOK
<1>4. /\ announced' \subseteq Orders \X shipmentToOrderStatus
      /\ \A a \in announced' : a \in announced \/ a = <<o, req[r].status>>
  BY <1>0 DEF Announce
<1>5. TypeOK'
  BY <1>0, <1>1, <1>4, Zenon DEF IInv, TypeOK
<1>6. AnnouncedIsRecorded'
  <2> SUFFICES ASSUME NEW a \in announced'
               PROVE  \E i \in 1..Len(shipments[a[1]]) : a[2] \in shipments[a[1]][i].events
    BY <1>0, Zenon DEF AnnouncedIsRecorded
  <2>1. CASE a \in announced
    BY <2>1, Zenon DEF IInv, AnnouncedIsRecorded
  <2>2. CASE a = <<o, req[r].status>>
    BY <1>0, <2>2, Zenon
  <2> QED BY <1>4, <2>1, <2>2, Zenon
<1>7. PaidOrders' /\ ShippedOnlyIfSettled' /\ StatusHasEvent'
  BY <1>0, Zenon DEF IInv, PaidOrders, ShippedOnlyIfSettled, StatusHasEvent
<1> QED BY <1>3, <1>5, <1>6, <1>7, Zenon DEF IInv

LEMMA EnvironmentStep ==
    ASSUME IInv, NEW o \in Orders, OrderMoves(o)
    PROVE  IInv' /\ Row!Next
<1>0. /\ orders \in [Orders -> OrderStatuses \cup {"none"}] /\ settles \in [Orders -> Nat]
      /\ UNCHANGED <<shipments, req, replay, announced>>
  BY Zenon DEF OrderMoves, IInv, TypeOK, shippingVars
<1>1. Row!Place(o) \/ Row!Settle(o) \/ Row!Cancel(o) \/ Row!Advance(o)
  BY Zenon DEF OrderMoves
<1>2. /\ settles' \in [Orders -> Nat] /\ orders' \in [Orders -> OrderStatuses \cup {"none"}]
      /\ \A p \in Orders : settles[p] > 0 => settles'[p] > 0
      /\ \A p \in Orders : orders'[p] \in Fulfilment => orders[p] \in Fulfilment \/ settles'[p] > 0
  <2>1. CASE Row!Place(o) \/ Row!Cancel(o)
    BY <1>0, <2>1, Zenon DEF Row!Place, Row!Cancel, OrderStatuses, Fulfilment
  <2>2. CASE Row!Settle(o)
    BY <1>0, <2>2 DEF Row!Settle, OrderStatuses, Fulfilment
  <2>3. CASE Row!Advance(o)
    <3>1. PICK stage \in Row!Stages :
             orders[o] = stage[1] /\ orders' = [orders EXCEPT ![o] = stage[2]] /\ UNCHANGED settles
      BY <2>3, Zenon DEF Row!Advance
    <3>2. stage[1] \in Fulfilment /\ stage[2] \in OrderStatuses
      BY DEF Row!Stages, Fulfilment, OrderStatuses
    <3> QED BY <1>0, <3>1, <3>2, Zenon
  <2> QED BY <1>1, <2>1, <2>2, <2>3, Zenon
<1>3. Grows
  BY <1>0, <1>2, Zenon DEF Grows
<1>4. RequestsOK'
  BY <1>0, <1>3, OthersKeep, Zenon DEF RequestsOK
<1>5. TypeOK'
  BY <1>0, <1>2, Zenon DEF IInv, TypeOK
<1>6. PaidOrders' /\ ShippedOnlyIfSettled' /\ StatusHasEvent' /\ AnnouncedIsRecorded'
  BY <1>0, <1>2, Zenon DEF IInv, PaidOrders, ShippedOnlyIfSettled, StatusHasEvent, AnnouncedIsRecorded
<1> QED BY <1>1, <1>4, <1>5, <1>6, Zenon DEF IInv, Row!Next

---------------------------------------------------------------------------
LEMMA StepIInv == IInv /\ [Next]_vars => IInv' /\ [Row!Next]_(Row!vars)
<1> SUFFICES ASSUME IInv, [Next]_vars PROVE IInv' /\ [Row!Next]_(Row!vars)
  BY Zenon
<1>1. CASE UNCHANGED vars
  <2>1. UNCHANGED <<orders, settles, shipments, announced, req, replay>>
    BY <1>1, Zenon DEF vars, shippingVars
  <2>2. replay' \subseteq Bodies /\ req' \in [Requests -> Request]
    BY <2>1, Zenon DEF IInv, TypeOK
  <2> QED BY <2>1, <2>2, ControlStep, Zenon DEF Row!vars
<1>2. ASSUME NEW r \in Requests, NEW o \in Orders, CreateCheck(r, o)
      PROVE  IInv' /\ UNCHANGED <<orders, settles>>
  BY <1>2, CreateCheckStep, Zenon DEF CreateCheck
<1>3. ASSUME NEW r \in Requests, NEW b \in Bodies, Receive(r, b)
      PROVE  IInv' /\ UNCHANGED <<orders, settles>>
  BY <1>3, ReceiveStep, Zenon DEF Receive
<1>4. ASSUME NEW b \in Bodies, ReplayExpires(b) PROVE IInv' /\ UNCHANGED <<orders, settles>>
  BY <1>4, ReplayExpiresStep, Zenon DEF ReplayExpires
<1>5. ASSUME NEW r \in Requests,
             \/ CreateLookup(r) \/ CreateInsert(r) \/ FindShipment(r) \/ InsertShipmentEvent(r)
             \/ UpdateShipmentStatus(r) \/ ReadOrderStatus(r) \/ Announce(r) \/ Abort(r)
      PROVE  IInv' /\ UNCHANGED <<orders, settles>>
  <2>1. UNCHANGED <<orders, settles>>
    BY <1>5, Zenon DEF CreateLookup, CreateInsert, FindShipment, InsertShipmentEvent,
                UpdateShipmentStatus, ReadOrderStatus, Announce, Abort
  <2>2. Abort(r) => IInv'
    BY FinishOnly, Zenon DEF Abort
  <2> QED BY <1>5, <2>1, <2>2, LookupStep, InsertStep, FindStep, WriteStep, AnnounceStep, Zenon
<1>6. ASSUME NEW r \in Requests, CreatePack(r) \/ SyncOrderStatus(r)
      PROVE  IInv' /\ [Row!Next]_(Row!vars)
  BY <1>6, OrderStep, Zenon
<1>7. ASSUME NEW o \in Orders, OrderMoves(o) PROVE IInv' /\ Row!Next
  BY <1>7, EnvironmentStep, Zenon
<1> QED BY <1>1, <1>2, <1>3, <1>4, <1>5, <1>6, <1>7, Zenon DEF Next, RequestStep, Row!vars

LEMMA IInvAlways == Spec => []IInv
<1>1. IInv /\ [Next]_vars => IInv'
  BY StepIInv, Zenon
<1> QED BY InitIInv, <1>1, PTL DEF Spec

\* The tables and requests always have their types.
THEOREM TypeCorrect == Spec => []TypeOK
<1>1. IInv => TypeOK
  BY Zenon DEF IInv
<1> QED BY IInvAlways, <1>1, PTL

\* No shipment is ever registered for an order that was not paid.
THEOREM ShipmentsPaid == Spec => []ShippedOnlyIfSettled
<1>1. IInv => ShippedOnlyIfSettled
  BY Zenon DEF IInv
<1> QED BY IInvAlways, <1>1, PTL

\* The tracking history covers every shipment's status, and every
\* announcement, although nothing runs in a transaction.
THEOREM HistoryComplete == Spec => [](StatusHasEvent /\ AnnouncedIsRecorded)
<1>1. IInv => StatusHasEvent /\ AnnouncedIsRecorded
  BY Zenon DEF IInv
<1> QED BY IInvAlways, <1>1, PTL

\* Shipping implements the order's life cycle: whatever it read before, it only
\* takes an order from one stage of fulfilment to the next.
THEOREM ShippingImplementsRow == Spec => ImplementsOrderRow
<1>1. Init => Row!Init
  BY Zenon DEF Init
<1>2. IInv /\ [Next]_vars => [Row!Next]_(Row!vars)
  BY StepIInv, Zenon
<1> QED BY IInvAlways, <1>1, <1>2, PTL DEF Spec, ImplementsOrderRow, Row!Spec

============================================================================
