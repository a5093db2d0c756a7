------------------------ MODULE OrderPayment_proofs ------------------------
(***************************************************************************)
(* The payment invariants of OrderPayment for any number of orders,        *)
(* handlers and notifications, any stock and any pool size.                *)
(***************************************************************************)
EXTENDS OrderPayment, FiniteSetTheorems, SequenceTheorems, WellFoundedInduction, TLAPS

(* The inductive invariant.                                                *)

Waiting == {"none", "PENDING_PAYMENT"}
Settling == {"stock", "voucher", "insert", "increase"}

\* What a handler knows at each place of Handle.  The status it read may be
\* stale by the time it is used; that the order was settled is not.
HandlerOK(h) ==
    /\ Active(h) => tx[h].note \in Notes
    /\ InTransaction(h) => tx[h].pay \in 1..Len(payments[OrderOf(h)])
    /\ Active(h) /\ tx[h].seen = "PAID" => settles[OrderOf(h)] > 0
    /\ tx[h].at \in {"read", "update", "order", "cancel"} => tx[h].wrote = "none"
    /\ tx[h].at \in Settling => tx[h].wrote = "PAID"
    /\ tx[h].at \in Settling \cup {"order"} => shouldSettle(h)
    /\ tx[h].at = "cancel" => ~shouldSettle(h)
    /\ tx[h].at = "commit" => (shouldSettle(h) <=> tx[h].wrote = "PAID")
    /\ tx[h].at = "emit" /\ NewStatus(tx[h].note) = "PAID" => settles[OrderOf(h)] > 0
    /\ tx[h].at = "emit" /\ tx[h].wrote = "CANCELED" => orders[OrderOf(h)] \notin Waiting
    /\ tx[h].at \in {"voucher", "insert", "increase"} => OrderOf(h) \in VoucherOrders
    /\ tx[h].at = "insert" => OrderOf(h) \notin usages
    /\ tx[h].at = "increase" => OrderOf(h) \in usages

HandlersOK == \A h \in Handlers : HandlerOK(h)

\* The row lock: two open transactions never both hold the same order.
OneWriter ==
    \A h, g \in Handlers :
        /\ InTransaction(h) /\ tx[h].wrote # "none"
        /\ InTransaction(g) /\ tx[g].wrote # "none"
        /\ h # g
        => OrderOf(h) # OrderOf(g)

\* Usage rows whose increment is still to come.
Uncounted == {o \in Orders : \E h \in Handlers : tx[h].at = "increase" /\ OrderOf(h) = o}
Counted == usages \ Uncounted
CountOK == usedCount <= Cardinality(Counted)

IInv ==
    /\ TypeOK
    /\ HandlersOK
    /\ OneWriter
    /\ FulfilledOnlyIfSettled
    /\ PaidMeansSettled
    /\ AnnouncedIsCommitted
    /\ CountOK

---------------------------------------------------------------------------
(* Facts about the operators.                                              *)

\* Every status word of every provider is normalised to a payment status, and
\* never to REFUNDED.
LEMMA NewStatusType == \A n \in Notes : NewStatus(n) \in {"PENDING", "PAID", "FAILED", "EXPIRED"}
  BY Zenon DEF NewStatus, normaliseWebhookStatus

\* No administrator and no WHERE clause leads back to a waiting order, and
\* what is packed or further was paid.
LEMMA PatchTarget ==
    ASSUME NEW from, NEW to, isAllowedAdminTarget(to), UpdateAllowed(from, to)
    PROVE  /\ to \in OrderStatuses /\ to \notin Waiting
           /\ to \in Fulfilment => from \in Fulfilment
  BY Zenon DEF isAllowedAdminTarget, UpdateAllowed, OrderStatuses, Waiting, Fulfilment

\* GREATEST keeps the stock a natural number.
LEMMA TakeType == \A a, b \in Nat : Take(a, b) \in Nat
  BY DEF Take

LEMMA AfterItemType ==
    ASSUME NEW o \in Orders, NEW k \in Nat
    PROVE  /\ AfterItem(o, k) \in {"stock", "voucher", "commit"}
           /\ AfterItem(o, k) = "voucher" => o \in VoucherOrders
  BY Zenon DEF AfterItem

\* One payment row changes to row.
RowChange(o, i, row) == payments' = [payments EXCEPT ![o] = [payments[o] EXCEPT ![i] = row]]

LEMMA RowChangeEffect ==
    ASSUME payments \in [Orders -> Seq(Payment)], NEW o \in Orders, NEW i \in 1..Len(payments[o]),
           NEW row \in Payment, RowChange(o, i, row)
    PROVE  /\ payments' \in [Orders -> Seq(Payment)]
           /\ \A p \in Orders : Len(payments'[p]) = Len(payments[p])
           /\ \A p \in Orders : \A j \in 1..Len(payments[p]) :
                  payments'[p][j] = IF p = o /\ j = i THEN row ELSE payments[p][j]
<1>1. payments[o] \in Seq(Payment)
  BY Zenon
<1> DEFINE new == [payments[o] EXCEPT ![i] = row]
<1>2. /\ new \in Seq(Payment) /\ Len(new) = Len(payments[o])
      /\ \A j \in 1..Len(payments[o]) : new[j] = IF j = i THEN row ELSE payments[o][j]
  BY <1>1, ExceptSeq
<1>3. payments' = [payments EXCEPT ![o] = new]
  BY Zenon DEF RowChange
<1> HIDE DEF new
<1> QED BY <1>2, <1>3, Zenon

\* usages and its counted part are finite.
LEMMA UsagesFinite ==
    ASSUME usages \subseteq VoucherOrders
    PROVE  IsFiniteSet(usages) /\ IsFiniteSet(Counted)
<1>1. IsFiniteSet(Orders) /\ usages \in SUBSET Orders
  BY OrderPaymentAssumption, Zenon
<1>2. IsFiniteSet(usages)
  BY <1>1, FS_Subset, Zenon
<1>3. Counted \in SUBSET usages
  BY Zenon DEF Counted
<1> QED BY <1>2, <1>3, FS_Subset, Zenon

LEMMA IdleType == Idle \in Transaction
  BY Zenon DEF Idle, Transaction, Places, PaymentStatuses

---------------------------------------------------------------------------
LEMMA InitIInv == Init => IInv
<1> SUFFICES ASSUME Init PROVE IInv
  BY Zenon
<1> USE OrderPaymentAssumption DEF Init
<1>1. TypeOK
  BY IdleType DEF TypeOK
<1>2. HandlersOK /\ OneWriter
  BY Zenon DEF HandlersOK, HandlerOK, OneWriter, Active, InTransaction, Idle, Settling
<1>3. FulfilledOnlyIfSettled /\ PaidMeansSettled /\ AnnouncedIsCommitted
  BY DEF FulfilledOnlyIfSettled, Fulfilment, PaidMeansSettled, AnnouncedIsCommitted
<1>4. CountOK
  <2>1. Counted = {}
    BY Zenon DEF Counted
  <2> QED BY <2>1, FS_EmptySet DEF CountOK
<1> QED BY <1>1, <1>2, <1>3, <1>4, Zenon DEF IInv

---------------------------------------------------------------------------
(* Framing: what a step that leaves a handler alone may do around it.      *)

\* A handler's knowledge survives what the others do: settlements are never
\* undone, payment rows never removed and an order never waits again.
LEMMA OthersKeep ==
    ASSUME TypeOK, payments' \in [Orders -> Seq(Payment)], settles' \in [Orders -> Nat],
           NEW g \in Handlers, HandlerOK(g), tx'[g] = tx[g],
           \A o \in Orders : settles[o] > 0 => settles'[o] > 0,
           \A o \in Orders : Len(payments'[o]) >= Len(payments[o]),
           \A o \in Orders : orders[o] \notin Waiting => orders'[o] \notin Waiting,
           usages \subseteq usages',
           tx[g].at = "insert" => OrderOf(g) \notin usages'
    PROVE  HandlerOK(g)'
<1>0. CASE ~Active(g)
  BY <1>0, Zenon DEF HandlerOK, Active, InTransaction, Settling
<1>1. CASE Active(g)
  <2>1. OrderOf(g) \in Orders
    BY <1>1, OrderPaymentAssumption, Zenon DEF HandlerOK, OrderOf
  <2>2. OrderOf(g)' = OrderOf(g) /\ (shouldSettle(g)' <=> shouldSettle(g))
    BY Zenon DEF OrderOf, shouldSettle, NewStatus
  <2>3. Len(payments[OrderOf(g)]) \in Nat /\ Len(payments'[OrderOf(g)]) \in Nat
    BY <2>1 DEF TypeOK
  <2> QED BY <1>1, <2>1, <2>2, <2>3 DEF HandlerOK, Active, InTransaction, NewStatus
<1> QED BY <1>0, <1>1, Zenon

\* A step of checkout, of an intent, of a cancellation or of an administrator.
LEMMA ShopStep ==
    ASSUME IInv, TypeOK',
           UNCHANGED <<tx, usages, usedCount, announced, settles>>,
           \A o \in Orders : Len(payments'[o]) >= Len(payments[o]),
           \A o \in Orders : \A i \in 1..Len(payments'[o]) :
               payments'[o][i].status = "PAID" =>
                   i \in 1..Len(payments[o]) /\ payments[o][i].status = "PAID",
           \A o \in Orders : orders[o] \notin Waiting => orders'[o] \notin Waiting,
           \A o \in Orders : orders'[o] \in Fulfilment => orders[o] \in Fulfilment
    PROVE  IInv'
<1>1. HandlersOK'
  <2> SUFFICES ASSUME NEW g \in Handlers PROVE HandlerOK(g)'
    BY Zenon DEF HandlersOK
  <2>1. HandlerOK(g) /\ tx'[g] = tx[g] /\ TypeOK
    BY Zenon DEF IInv, HandlersOK
  <2>2. payments' \in [Orders -> Seq(Payment)] /\ settles' \in [Orders -> Nat]
    BY Zenon DEF TypeOK
  <2>3. tx[g].at = "insert" => OrderOf(g) \notin usages'
    BY <2>1, Zenon DEF HandlerOK
  <2> QED BY <2>1, <2>2, <2>3, OthersKeep, Zenon
<1>2. OneWriter'
  BY Zenon DEF IInv, OneWriter, InTransaction, OrderOf
<1>3. FulfilledOnlyIfSettled' /\ PaidMeansSettled' /\ AnnouncedIsCommitted'
  BY Zenon DEF IInv, FulfilledOnlyIfSettled, PaidMeansSettled, AnnouncedIsCommitted, Waiting
<1>4. CountOK'
  <2>1. Counted' = Counted
    BY Zenon DEF Counted, Uncounted, OrderOf
  <2> QED BY <2>1, Zenon DEF IInv, CountOK
<1> QED BY <1>1, <1>2, <1>3, <1>4, Zenon DEF IInv

\* Dropping pending increments only adds to the counted usages.
LEMMA CountedGrows ==
    ASSUME TypeOK, CountOK, usages' = usages, usedCount' = usedCount, Uncounted' \subseteq Uncounted
    PROVE  CountOK'
<1>1. IsFiniteSet(usages)
  BY UsagesFinite, Zenon DEF TypeOK
<1>2. Counted' \in SUBSET usages /\ Counted \in SUBSET Counted'
  BY Zenon DEF Counted
<1>3. IsFiniteSet(Counted')
  BY <1>1, <1>2, FS_Subset, Zenon
<1>4. IsFiniteSet(Counted) /\ Cardinality(Counted) <= Cardinality(Counted')
  BY <1>2, <1>3, FS_Subset, Zenon
<1>5. Cardinality(Counted) \in Nat /\ Cardinality(Counted') \in Nat
  BY <1>3, <1>4, FS_CardinalityType, Zenon
<1> QED BY <1>4, <1>5 DEF CountOK, TypeOK

\* A step of handler h that changes nothing but its own record: an order row is
\* newly written only if no other transaction holds it.
LEMMA QuietStep ==
    ASSUME IInv, TypeOK', NEW h \in Handlers,
           UNCHANGED <<orders, payments, usages, usedCount, announced, settles>>,
           \A g \in Handlers : g # h => tx'[g] = tx[g],
           HandlerOK(h)',
           tx'[h].at # "increase",
           InTransaction(h)' /\ tx'[h].wrote # "none" =>
               /\ tx'[h].note = tx[h].note
               /\ (InTransaction(h) /\ tx[h].wrote # "none") \/ ~OrderLocked(OrderOf(h))
    PROVE  IInv'
<1>1. HandlersOK'
  <2> SUFFICES ASSUME NEW g \in Handlers, g # h PROVE HandlerOK(g)'
    BY Zenon DEF HandlersOK
  <2>1. HandlerOK(g) /\ tx'[g] = tx[g] /\ TypeOK
    BY Zenon DEF IInv, HandlersOK
  <2>2. payments' \in [Orders -> Seq(Payment)] /\ settles' \in [Orders -> Nat]
    BY Zenon DEF TypeOK
  <2>3. tx[g].at = "insert" => OrderOf(g) \notin usages'
    BY <2>1, Zenon DEF HandlerOK
  <2>4. \A o \in Orders : Len(payments'[o]) >= Len(payments[o])
    BY <2>1 DEF TypeOK
  <2> QED BY <2>1, <2>2, <2>3, <2>4, OthersKeep, Zenon
<1>2. OneWriter'
  BY DEF IInv, OneWriter, InTransaction, OrderOf, OrderLocked
<1>3. FulfilledOnlyIfSettled' /\ PaidMeansSettled' /\ AnnouncedIsCommitted'
  BY Zenon DEF IInv, FulfilledOnlyIfSettled, PaidMeansSettled, AnnouncedIsCommitted
<1>4. Uncounted' \subseteq Uncounted
  BY Zenon DEF Uncounted, OrderOf
<1>5. CountOK'
  BY <1>4, CountedGrows, Zenon DEF IInv
<1> QED BY <1>1, <1>2, <1>3, <1>5, Zenon DEF IInv

---------------------------------------------------------------------------
(* The steps.                                                              *)

LEMMA CreateStep == ASSUME IInv, NEW o \in Orders, Create(o) PROVE IInv'
<1> USE DEF Create, webhookVars, voucherVars
<1>0. \A p \in Orders : Len(payments[p]) \in Nat
  BY DEF IInv, TypeOK
<1>1. TypeOK'
  BY Zenon DEF IInv, TypeOK, OrderStatuses
<1>2. /\ \A p \in Orders : p # o => orders'[p] = orders[p]
      /\ orders[o] = "none" /\ orders'[o] = "PENDING_PAYMENT"
  BY Zenon DEF IInv, TypeOK
<1> QED BY <1>0, <1>1, <1>2, ShopStep DEF Waiting, Fulfilment

LEMMA IntentStep ==
    ASSUME IInv, NEW o \in Orders,
           CreateIntentRead(o) \/ CreateIntentCheck(o) \/ CreateIntentInsert(o) \/ IntentExpires(o)
    PROVE  IInv'
<1> USE DEF webhookVars, voucherVars, shopVars
<1>0. \A p \in Orders : Len(payments[p]) \in Nat
  BY DEF IInv, TypeOK
<1>1. CASE CreateIntentRead(o) \/ CreateIntentCheck(o)
  <2>1. TypeOK'
    <3>1. CASE CreateIntentRead(o)
      BY <3>1, Zenon DEF CreateIntentRead, IInv, TypeOK
    <3>2. CASE CreateIntentCheck(o)
      BY <3>2 DEF CreateIntentCheck, IInv, TypeOK
    <3> QED BY <1>1, <3>1, <3>2, Zenon
  <2> QED BY <1>0, <1>1, <2>1, ShopStep DEF CreateIntentRead, CreateIntentCheck
<1>2. CASE CreateIntentInsert(o)
  <2>0. [status |-> "PENDING", live |-> TRUE] \in Payment
    BY Zenon DEF Payment, PaymentStatuses
  <2>1. TypeOK'
    BY <1>2, <2>0 DEF CreateIntentInsert, IInv, TypeOK
  <2>2. \A p \in Orders : Len(payments'[p]) >= Len(payments[p])
    BY <1>2, <2>0 DEF CreateIntentInsert, IInv, TypeOK
  <2>3. ASSUME NEW p \in Orders, NEW i \in 1..Len(payments'[p]), payments'[p][i].status = "PAID"
        PROVE  i \in 1..Len(payments[p]) /\ payments[p][i].status = "PAID"
    <3>1. payments[p] \in Seq(Payment)
      BY Zenon DEF IInv, TypeOK
    <3>2. CASE p # o
      BY <1>2, <2>3, <3>2, Zenon DEF CreateIntentInsert, IInv, TypeOK
    <3>3. CASE p = o
      <4>1. payments'[p] = Append(payments[p], [status |-> "PENDING", live |-> TRUE])
        BY <1>2, <3>3, Zenon DEF CreateIntentInsert, IInv, TypeOK
      <4>2. i = Len(payments[p]) + 1 => payments'[p][i].status = "PENDING"
        BY <4>1, <3>1
      <4> QED BY <2>3, <4>1, <4>2, <3>1
    <3> QED BY <3>2, <3>3, Zenon
  <2> QED BY <1>2, <2>1, <2>2, <2>3, ShopStep, Zenon DEF CreateIntentInsert
<1>3. CASE IntentExpires(o)
  <2>1. PICK i \in 1..Len(payments[o]) : payments' = [payments EXCEPT ![o][i].live = FALSE]
    BY <1>3, Zenon DEF IntentExpires
  <2>2. payments[o] \in Seq(Payment) /\ payments[o][i] \in Payment
    BY DEF IInv, TypeOK
  <2>3. [payments[o][i] EXCEPT !.live = FALSE] \in Payment
    BY <2>2, Zenon DEF Payment
  <2>4. /\ payments' = [payments EXCEPT ![o] = [payments[o] EXCEPT ![i] = [payments[o][i] EXCEPT !.live = FALSE]]]
        /\ [payments[o][i] EXCEPT !.live = FALSE].status = payments[o][i].status
    BY <2>1, <2>2, Zenon DEF IInv, TypeOK, Payment
  <2>5. RowChange(o, i, [payments[o][i] EXCEPT !.live = FALSE])
    BY <2>4, Zenon DEF RowChange
  <2>6. /\ payments' \in [Orders -> Seq(Payment)]
        /\ \A p \in Orders : Len(payments'[p]) = Len(payments[p])
        /\ \A p \in Orders : \A j \in 1..Len(payments[p]) :
               payments'[p][j].status = payments[p][j].status
    <3>1. payments \in [Orders -> Seq(Payment)]
      BY Zenon DEF IInv, TypeOK
    <3> QED BY <2>3, <2>4, <2>5, <3>1, RowChangeEffect
  <2>7. TypeOK'
    BY <1>3, <2>6, Zenon DEF IntentExpires, IInv, TypeOK
  <2> QED BY <1>0, <1>3, <2>6, <2>7, ShopStep DEF IntentExpires
<1> QED BY <1>1, <1>2, <1>3, Zenon

LEMMA StatusStep ==
    ASSUME IInv, NEW o \in Orders,
           CancelRead(o) \/ CancelWrite(o) \/ \E target \in OrderStatuses : PatchStatus(o, target)
    PROVE  IInv'
<1> USE DEF webhookVars, voucherVars, shopVars
<1>0. \A p \in Orders : Len(payments[p]) \in Nat
  BY DEF IInv, TypeOK
<1>1. CASE CancelRead(o)
  <2>1. TypeOK'
    BY <1>1, Zenon DEF CancelRead, IInv, TypeOK
  <2> QED BY <1>0, <1>1, <2>1, ShopStep DEF CancelRead
<1>2. CASE CancelWrite(o)
  <2>1. TypeOK'
    BY <1>2, Zenon DEF CancelWrite, IInv, TypeOK, OrderStatuses
  <2>2. \A p \in Orders : p # o => orders'[p] = orders[p]
    BY <1>2, Zenon DEF CancelWrite, IInv, TypeOK
  <2>3. orders'[o] = "CANCELED"
    BY <1>2, Zenon DEF CancelWrite, IInv, TypeOK
  <2> QED BY <1>0, <1>2, <2>1, <2>2, <2>3, ShopStep DEF CancelWrite, Waiting, Fulfilment
<1>3. ASSUME NEW target \in OrderStatuses, PatchStatus(o, target) PROVE IInv'
  <2>1. TypeOK'
    BY <1>3, Zenon DEF PatchStatus, IInv, TypeOK
  <2>2. \A p \in Orders : p # o => orders'[p] = orders[p]
    BY <1>3, Zenon DEF PatchStatus, IInv, TypeOK
  <2>3. /\ orders'[o] = target /\ target \notin Waiting
        /\ target \in Fulfilment => orders[o] \in Fulfilment
    BY <1>3, PatchTarget, Zenon DEF PatchStatus, IInv, TypeOK
  <2> QED BY <1>0, <1>3, <2>1, <2>2, <2>3, ShopStep DEF PatchStatus
<1> QED BY <1>1, <1>2, <1>3, Zenon

LEMMA ReplayExpiresStep == ASSUME IInv, NEW n \in Notes, ReplayExpires(n) PROVE IInv'
<1> USE DEF ReplayExpires, voucherVars, shopVars
<1>0. \A p \in Orders : Len(payments[p]) \in Nat
  BY DEF IInv, TypeOK
<1>1. TypeOK'
  BY Zenon DEF IInv, TypeOK
<1> QED BY <1>0, <1>1, ShopStep

\* The handler's order is an order.
LEMMA OrderOfType ==
    ASSUME IInv, NEW h \in Handlers, Active(h)
    PROVE  tx[h].note \in Notes /\ OrderOf(h) \in Orders
  BY OrderPaymentAssumption, Zenon DEF IInv, HandlersOK, HandlerOK, OrderOf

LEMMA ReceiveStep == ASSUME IInv, NEW h \in Handlers, NEW n \in Notes, Receive(h, n) PROVE IInv'
<1> USE DEF Receive, voucherVars, shopVars
<1> DEFINE new == [Idle EXCEPT !.at = "read", !.note = n]
<1>0. /\ new \in Transaction /\ new.at = "read" /\ new.note = n
      /\ new.seen = "PENDING" /\ new.wrote = "none"
  BY Zenon DEF Idle, Transaction, Places, PaymentStatuses
<1>1. tx' = [tx EXCEPT ![h] = new]
  BY Zenon
<1> HIDE DEF new
<1>2. TypeOK'
  BY <1>0, <1>1 DEF IInv, TypeOK
<1>3. tx'[h] = new /\ \A g \in Handlers : g # h => tx'[g] = tx[g]
  BY <1>1, Zenon DEF IInv, TypeOK
<1>4. HandlerOK(h)' /\ tx'[h].at # "increase" /\ tx'[h].wrote = "none"
  BY <1>0, <1>3, Zenon DEF HandlerOK, Active, InTransaction, Settling
<1> QED BY <1>2, <1>3, <1>4, QuietStep, Zenon

LEMMA AbortStep == ASSUME IInv, NEW h \in Handlers, Abort(h) PROVE IInv'
<1> USE DEF Abort, Finish, voucherVars, shopVars
<1>1. TypeOK'
  BY IdleType, Zenon DEF IInv, TypeOK
<1>2. tx'[h] = Idle /\ \A g \in Handlers : g # h => tx'[g] = tx[g]
  BY Zenon DEF IInv, TypeOK
<1>3. HandlerOK(h)' /\ tx'[h].at # "increase" /\ tx'[h].wrote = "none"
  BY <1>2 DEF HandlerOK, Active, InTransaction, Idle, Settling
<1> QED BY <1>1, <1>2, <1>3, QuietStep, Zenon

LEMMA ReadPaymentStep == ASSUME IInv, NEW h \in Handlers, ReadPayment(h) PROVE IInv'
<1> USE DEF voucherVars, shopVars
<1>0. /\ Active(h) /\ tx[h].note \in Notes /\ OrderOf(h) \in Orders
      /\ UNCHANGED <<orders, payments, usages, usedCount, announced, settles>>
  BY OrderOfType, Zenon DEF ReadPayment, Active
<1> DEFINE o == OrderOf(h)
<1>1. CASE Finish(h)
  <2>1. Abort(h)
    BY <1>0, <1>1, Zenon DEF ReadPayment, Abort
  <2> QED BY <2>1, AbortStep, Zenon
<1>2. CASE /\ payments[o] # <<>>
           /\ tx' = [tx EXCEPT ![h].at = "update", ![h].pay = Len(payments[o]),
                               ![h].seen = Latest(o).status]
  <2>0. payments[o] \in Seq(Payment)
    BY <1>0, Zenon DEF IInv, TypeOK
  <2>1. Len(payments[o]) \in Nat \ {0}
    BY <1>2, <2>0, EmptySeq, Zenon
  <2>2. Latest(o) \in Payment
    BY <2>0, <2>1 DEF Latest
  <2>3. Latest(o).status \in PaymentStatuses
    BY <2>2, Zenon DEF Payment
  <2>4. tx \in [Handlers -> Transaction]
    BY Zenon DEF IInv, TypeOK
  <2> DEFINE new == [tx[h] EXCEPT !.at = "update", !.pay = Len(payments[o]), !.seen = Latest(o).status]
  <2>n. /\ new \in Transaction /\ new.at = "update" /\ new.note = tx[h].note
        /\ new.pay = Len(payments[o]) /\ new.seen = Latest(o).status /\ new.wrote = tx[h].wrote
    BY <2>1, <2>3, <2>4, Zenon DEF Transaction, Places
  <2>m. tx' = [tx EXCEPT ![h] = new]
    BY <1>2, <2>4, Zenon
  <2> HIDE DEF new
  <2>5. /\ tx'[h].at = "update" /\ tx'[h].note = tx[h].note /\ tx'[h].pay = Len(payments[o])
        /\ tx'[h].seen = Latest(o).status /\ tx'[h].wrote = tx[h].wrote
        /\ \A g \in Handlers : g # h => tx'[g] = tx[g]
        /\ tx' \in [Handlers -> Transaction]
    BY <2>4, <2>n, <2>m, Zenon
  <2>6. TypeOK'
    BY <2>5, Zenon DEF ReadPayment, IInv, TypeOK
  <2>7. tx[h].wrote = "none"
    BY Zenon DEF IInv, HandlersOK, HandlerOK, ReadPayment
  <2>8. Latest(o).status = "PAID" => settles[o] > 0
    BY <1>0, <2>1 DEF IInv, PaidMeansSettled, Latest
  <2>9. HandlerOK(h)' /\ tx'[h].at # "increase" /\ tx'[h].wrote = "none"
    BY <1>0, <2>1, <2>5, <2>7, <2>8 DEF HandlerOK, Active, InTransaction, Settling, OrderOf
  <2> QED BY <1>0, <2>5, <2>6, <2>9, QuietStep, Zenon
<1> QED BY <1>1, <1>2, Zenon DEF ReadPayment

\* The moves of a handler inside its transaction that change nothing else.
LEMMA MoveStep ==
    ASSUME IInv, NEW h \in Handlers,
           \/ UpdatePayment(h) \/ UpdateOrderPaid(h) \/ DecrementVariantStock(h)
           \/ SettleLookup(h) \/ UpdateOrderCanceled(h)
    PROVE  IInv'
<1> USE DEF voucherVars, shopVars, Goto
<1>0. /\ Active(h) /\ tx[h].note \in Notes /\ OrderOf(h) \in Orders
      /\ UNCHANGED <<orders, payments, usages, usedCount, announced, settles,
                     discounted, asking, intents, canceling, stock, replay, passed>>
      /\ InTransaction(h) /\ HandlerOK(h)
  BY OrderOfType, Zenon DEF UpdatePayment, UpdateOrderPaid, DecrementVariantStock, SettleLookup,
                     UpdateOrderCanceled, Active, InTransaction, IInv, HandlersOK
<1>t. tx \in [Handlers -> Transaction] /\ tx[h] \in Transaction /\ tx[h].item + 1 \in Nat
  BY DEF IInv, TypeOK, Transaction
<1> SUFFICES ASSUME NEW place \in {"order", "cancel", "commit", "stock", "voucher", "insert"},
                    NEW w \in {"none", "PAID", "CANCELED"}, NEW k \in Nat,
                    tx' = [tx EXCEPT ![h].at = place, ![h].wrote = w, ![h].item = k],
                    w = tx[h].wrote \/ ~OrderLocked(OrderOf(h)),
                    place \in {"order", "cancel"} => w = "none",
                    place \in Settling => w = "PAID",
                    place \in Settling \cup {"order"} => shouldSettle(h),
                    place = "cancel" => ~shouldSettle(h),
                    place = "commit" => (shouldSettle(h) <=> w = "PAID"),
                    place \in {"voucher", "insert"} => OrderOf(h) \in VoucherOrders,
                    place = "insert" => OrderOf(h) \notin usages
             PROVE  IInv'
  <2>0. /\ tx[h].at \in Places /\ tx[h].wrote \in {"none", "PAID", "CANCELED"} /\ tx[h].item \in Nat
        /\ tx[h] = [tx[h] EXCEPT !.wrote = tx[h].wrote, !.item = tx[h].item]
    BY <1>t, Zenon DEF Transaction
  <2>1. CASE UpdatePayment(h)
    <3>1. PICK place \in {"order", "cancel", "commit"} :
             /\ tx' = [tx EXCEPT ![h].at = place]
             /\ place = "order" => shouldSettle(h)
             /\ place \in {"cancel", "commit"} => ~shouldSettle(h)
      BY <2>1, Zenon DEF UpdatePayment, shouldSettle
    <3>2. tx' = [tx EXCEPT ![h].at = place, ![h].wrote = tx[h].wrote, ![h].item = tx[h].item]
      BY <1>t, <3>1, Zenon DEF Transaction
    <3>3. tx[h].wrote = "none"
      BY <1>0, <2>1, Zenon DEF HandlerOK, UpdatePayment
    <3> QED BY <2>0, <3>1, <3>2, <3>3, ZenonT(40) DEF Settling
  <2>2. CASE UpdateOrderPaid(h)
    <3>1. /\ AfterItem(OrderOf(h), 0) \in {"stock", "voucher", "commit"}
          /\ AfterItem(OrderOf(h), 0) = "voucher" => OrderOf(h) \in VoucherOrders
      BY <1>0, AfterItemType, Zenon
    <3>2. tx' = [tx EXCEPT ![h].at = AfterItem(OrderOf(h), 0), ![h].wrote = "PAID", ![h].item = tx[h].item]
      BY <1>t, <2>2, Zenon DEF UpdateOrderPaid, Transaction
    <3>3. shouldSettle(h) /\ ~OrderLocked(OrderOf(h))
      BY <1>0, <2>2, Zenon DEF HandlerOK, UpdateOrderPaid
    <3> QED BY <2>0, <3>1, <3>2, <3>3, Zenon DEF Settling
  <2>3. CASE DecrementVariantStock(h)
    <3>1. /\ AfterItem(OrderOf(h), tx[h].item + 1) \in {"stock", "voucher", "commit"}
          /\ AfterItem(OrderOf(h), tx[h].item + 1) = "voucher" => OrderOf(h) \in VoucherOrders
      BY <1>0, <1>t, AfterItemType, Zenon
    <3>2. tx' = [tx EXCEPT ![h].at = AfterItem(OrderOf(h), tx[h].item + 1), ![h].wrote = tx[h].wrote,
                           ![h].item = tx[h].item + 1]
      BY <1>t, <2>3, Zenon DEF DecrementVariantStock, Transaction
    <3>3. shouldSettle(h) /\ tx[h].wrote = "PAID"
      BY <1>0, <2>3, Zenon DEF HandlerOK, DecrementVariantStock, Settling
    <3> QED BY <1>t, <2>0, <3>1, <3>2, <3>3, ZenonT(40) DEF Settling
  <2>4. CASE SettleLookup(h)
    <3>1. PICK place \in {"commit", "insert"} :
             /\ tx' = [tx EXCEPT ![h].at = place]
             /\ place = "insert" => OrderOf(h) \notin usages
      BY <2>4, Zenon DEF SettleLookup
    <3>2. tx' = [tx EXCEPT ![h].at = place, ![h].wrote = tx[h].wrote, ![h].item = tx[h].item]
      BY <1>t, <3>1, Zenon DEF Transaction
    <3>3. shouldSettle(h) /\ tx[h].wrote = "PAID" /\ OrderOf(h) \in VoucherOrders
      BY <1>0, <2>4, Zenon DEF HandlerOK, SettleLookup, Settling
    <3> QED BY <2>0, <3>1, <3>2, <3>3, Zenon DEF Settling
  <2>5. CASE UpdateOrderCanceled(h)
    <3>1. tx' = [tx EXCEPT ![h].at = "commit", ![h].wrote = "CANCELED", ![h].item = tx[h].item]
      BY <1>t, <2>5, Zenon DEF UpdateOrderCanceled, Transaction
    <3>2. ~shouldSettle(h) /\ ~OrderLocked(OrderOf(h))
      BY <1>0, <2>5, Zenon DEF HandlerOK, UpdateOrderCanceled
    <3> QED BY <2>0, <3>1, <3>2, Zenon DEF Settling
  <2> QED BY <2>1, <2>2, <2>3, <2>4, <2>5, Zenon
<1>1. /\ \A g \in Handlers : g # h => tx'[g] = tx[g]
      /\ tx' \in [Handlers -> Transaction]
      /\ tx'[h].at = place /\ tx'[h].note = tx[h].note /\ tx'[h].pay = tx[h].pay
      /\ tx'[h].seen = tx[h].seen /\ tx'[h].wrote = w
  BY <1>t, Zenon DEF Transaction, Places
<1>2. TypeOK'
  BY <1>0, <1>1, Zenon DEF IInv, TypeOK
<1>3. OrderOf(h)' = OrderOf(h) /\ (shouldSettle(h)' <=> shouldSettle(h))
  BY <1>1, Zenon DEF OrderOf, shouldSettle, NewStatus
<1>4. HandlerOK(h)'
  BY <1>0, <1>1, <1>3, Zenon DEF HandlerOK, Active, InTransaction, Settling
<1> QED BY <1>0, <1>1, <1>2, <1>4, QuietStep, Zenon

\* Two handlers past their order update never settle the same order, so the
\* usage that h inserts is nobody else's.
LEMMA InsertVoucherUsageStep ==
    ASSUME IInv, NEW h \in Handlers, InsertVoucherUsage(h) PROVE IInv'
<1> USE DEF shopVars, Goto
<1> DEFINE o == OrderOf(h)
<1>0. /\ tx[h].at = "insert" /\ tx[h].note \in Notes /\ o \in Orders /\ HandlerOK(h)
      /\ tx[h].wrote = "PAID" /\ o \in VoucherOrders /\ o \notin usages /\ shouldSettle(h)
      /\ usages' = usages \cup {o} /\ tx' = [tx EXCEPT ![h].at = "increase"]
      /\ UNCHANGED <<orders, payments, usedCount, announced, settles,
                     discounted, asking, intents, canceling, stock, replay, passed>>
  BY OrderOfType, Zenon DEF InsertVoucherUsage, Active, IInv, HandlersOK, HandlerOK, Settling
<1>1. /\ tx \in [Handlers -> Transaction] /\ tx[h] \in Transaction
      /\ payments \in [Orders -> Seq(Payment)] /\ settles \in [Orders -> Nat]
  BY Zenon DEF IInv, TypeOK
<1>2. /\ \A g \in Handlers : g # h => tx'[g] = tx[g]
      /\ tx' \in [Handlers -> Transaction]
      /\ tx'[h].at = "increase" /\ tx'[h].note = tx[h].note /\ tx'[h].pay = tx[h].pay
      /\ tx'[h].seen = tx[h].seen /\ tx'[h].wrote = tx[h].wrote
  BY <1>0, <1>1, Zenon DEF Transaction, Places
<1>3. TypeOK'
  BY <1>0, <1>2, Zenon DEF IInv, TypeOK
<1>4. OrderOf(h)' = o /\ (shouldSettle(h)' <=> shouldSettle(h))
  BY <1>2, Zenon DEF OrderOf, shouldSettle, NewStatus
<1>5. HandlersOK'
  <2> SUFFICES ASSUME NEW g \in Handlers PROVE HandlerOK(g)'
    BY Zenon DEF HandlersOK
  <2>1. CASE g = h
    BY <1>0, <1>2, <1>4, <2>1, Zenon DEF HandlerOK, Active, InTransaction, Settling
  <2>2. CASE g # h
    <3>1. HandlerOK(g) /\ tx'[g] = tx[g]
      BY <1>2, <2>2, Zenon DEF IInv, HandlersOK
    <3>2. tx[g].at = "insert" => OrderOf(g) # o /\ OrderOf(g) \notin usages
      BY <1>0, <2>2, <3>1, Zenon DEF IInv, OneWriter, HandlerOK, InTransaction, Settling
    <3>3. \A p \in Orders : Len(payments'[p]) >= Len(payments[p])
      BY <1>0, <1>1
    <3> QED BY <1>0, <1>1, <3>1, <3>2, <3>3, OthersKeep, Zenon DEF IInv
  <2> QED BY <2>1, <2>2, Zenon
<1>6. OneWriter'
  BY <1>0, <1>2 DEF IInv, OneWriter, InTransaction, OrderOf
<1>7. FulfilledOnlyIfSettled' /\ PaidMeansSettled' /\ AnnouncedIsCommitted'
  BY <1>0, Zenon DEF IInv, FulfilledOnlyIfSettled, PaidMeansSettled, AnnouncedIsCommitted
<1>8. CountOK'
  <2>1. Uncounted' = Uncounted \cup {o}
    BY <1>0, <1>2, <1>4, Zenon DEF Uncounted, OrderOf
  <2>2. Counted' = Counted
    BY <1>0, <2>1, Zenon DEF Counted
  <2> QED BY <1>0, <2>2, Zenon DEF IInv, CountOK
<1> QED BY <1>3, <1>5, <1>6, <1>7, <1>8, Zenon DEF IInv

\* The increment turns exactly one usage into a counted one.
LEMMA IncreaseStep ==
    ASSUME IInv, NEW h \in Handlers, IncreaseVoucherUsedCount(h) PROVE IInv'
<1> USE DEF shopVars, Goto
<1> DEFINE o == OrderOf(h)
<1>0. /\ tx[h].at = "increase" /\ tx[h].note \in Notes /\ o \in Orders /\ HandlerOK(h)
      /\ tx[h].wrote = "PAID" /\ o \in usages /\ shouldSettle(h)
      /\ usages' = usages /\ tx' = [tx EXCEPT ![h].at = "commit"]
      /\ usedCount' = IF usedCount < UsageLimit THEN usedCount + 1 ELSE usedCount
      /\ UNCHANGED <<orders, payments, announced, settles,
                     discounted, asking, intents, canceling, stock, replay, passed>>
  BY OrderOfType, Zenon DEF IncreaseVoucherUsedCount, Active, IInv, HandlersOK, HandlerOK, Settling
<1>1. /\ tx \in [Handlers -> Transaction] /\ tx[h] \in Transaction
      /\ payments \in [Orders -> Seq(Payment)] /\ settles \in [Orders -> Nat]
      /\ usedCount \in 0..UsageLimit /\ UsageLimit \in Nat
  BY OrderPaymentAssumption, Zenon DEF IInv, TypeOK
<1>2. /\ \A g \in Handlers : g # h => tx'[g] = tx[g]
      /\ tx' \in [Handlers -> Transaction]
      /\ tx'[h].at = "commit" /\ tx'[h].note = tx[h].note /\ tx'[h].pay = tx[h].pay
      /\ tx'[h].seen = tx[h].seen /\ tx'[h].wrote = tx[h].wrote
  BY <1>0, <1>1, Zenon DEF Transaction, Places
<1>3. TypeOK'
  <2>1. usedCount' \in 0..UsageLimit /\ usedCount' <= usedCount + 1
    BY <1>0, <1>1
  <2> QED BY <1>0, <1>2, <2>1, Zenon DEF IInv, TypeOK
<1>4. OrderOf(h)' = o /\ (shouldSettle(h)' <=> shouldSettle(h))
  BY <1>2, Zenon DEF OrderOf, shouldSettle, NewStatus
<1>5. HandlersOK'
  <2> SUFFICES ASSUME NEW g \in Handlers PROVE HandlerOK(g)'
    BY Zenon DEF HandlersOK
  <2>1. CASE g = h
    BY <1>0, <1>2, <1>4, <2>1, Zenon DEF HandlerOK, Active, InTransaction, Settling
  <2>2. CASE g # h
    <3>1. HandlerOK(g) /\ tx'[g] = tx[g] /\ (tx[g].at = "insert" => OrderOf(g) \notin usages')
      BY <1>0, <1>2, <2>2, Zenon DEF IInv, HandlersOK, HandlerOK
    <3>2. \A p \in Orders : Len(payments'[p]) >= Len(payments[p])
      BY <1>0, <1>1
    <3> QED BY <1>0, <1>1, <3>1, <3>2, OthersKeep, Zenon DEF IInv
  <2> QED BY <2>1, <2>2, Zenon
<1>6. OneWriter'
  BY <1>0, <1>2 DEF IInv, OneWriter, InTransaction, OrderOf
<1>7. FulfilledOnlyIfSettled' /\ PaidMeansSettled' /\ AnnouncedIsCommitted'
  BY <1>0, Zenon DEF IInv, FulfilledOnlyIfSettled, PaidMeansSettled, AnnouncedIsCommitted
<1>8. CountOK'
  <2>1. \A g \in Handlers : g # h /\ tx[g].at = "increase" => OrderOf(g) # o
    BY <1>0, Zenon DEF IInv, OneWriter, HandlersOK, HandlerOK, InTransaction, Settling
  <2>2. Uncounted' = Uncounted \ {o} /\ o \in Uncounted
    BY <1>0, <1>2, <2>1 DEF Uncounted, OrderOf
  <2>3. Counted' = Counted \cup {o} /\ o \notin Counted
    BY <1>0, <2>2, Zenon DEF Counted
  <2>4. IsFiniteSet(Counted)
    BY UsagesFinite, Zenon DEF IInv, TypeOK
  <2>5. Cardinality(Counted') = Cardinality(Counted) + 1 /\ Cardinality(Counted) \in Nat
    BY <2>3, <2>4, FS_AddElement, FS_CardinalityType, Zenon
  <2> QED BY <1>0, <1>1, <2>5 DEF IInv, CountOK
<1> QED BY <1>3, <1>5, <1>6, <1>7, <1>8, Zenon DEF IInv

\* The commit publishes the payment's status, the order's and the settlement
\* together: a PAID row comes with a settlement, its own or an earlier one.
LEMMA CommitStep == ASSUME IInv, NEW h \in Handlers, Commit(h) PROVE IInv'
<1> USE DEF voucherVars, shopVars, Goto
<1> DEFINE o == OrderOf(h)
           i == tx[h].pay
           row == [payments[o][i] EXCEPT !.status = NewStatus(tx[h].note)]
<1>0. /\ tx[h].at = "commit" /\ tx[h].note \in Notes /\ o \in Orders /\ HandlerOK(h)
      /\ i \in 1..Len(payments[o]) /\ (shouldSettle(h) <=> tx[h].wrote = "PAID")
      /\ tx[h].seen = "PAID" => settles[o] > 0
      /\ tx' = [tx EXCEPT ![h].at = "emit"]
      /\ UNCHANGED <<usages, usedCount, announced, discounted, asking, intents, canceling, replay, passed>>
  BY OrderOfType, Zenon DEF Commit, Active, InTransaction, IInv, HandlersOK, HandlerOK
<1>1. /\ tx \in [Handlers -> Transaction] /\ tx[h] \in Transaction
      /\ payments \in [Orders -> Seq(Payment)] /\ settles \in [Orders -> Nat]
      /\ orders \in [Orders -> OrderStatuses \cup {"none"}] /\ stock \in [Variants -> Nat]
  BY Zenon DEF IInv, TypeOK
<1>2. /\ \A g \in Handlers : g # h => tx'[g] = tx[g]
      /\ tx' \in [Handlers -> Transaction]
      /\ tx'[h].at = "emit" /\ tx'[h].note = tx[h].note
      /\ tx'[h].seen = tx[h].seen /\ tx'[h].wrote = tx[h].wrote
  BY <1>0, <1>1, Zenon DEF Transaction, Places
<1>3. /\ NewStatus(tx[h].note) \in PaymentStatuses
      /\ tx[h].wrote \in {"none", "PAID", "CANCELED"}
  BY <1>0, <1>1, NewStatusType, Zenon DEF PaymentStatuses, Transaction
<1>4. row \in Payment /\ row.status = NewStatus(tx[h].note)
  <2>1. payments[o][i] \in Payment
    BY <1>0, <1>1
  <2> QED BY <1>3, <2>1, Zenon DEF Payment
<1>5. payments' = [payments EXCEPT ![o] = [payments[o] EXCEPT ![i] = row]]
  BY <1>0, <1>1, Zenon DEF Commit
<1> HIDE DEF row
<1>6. /\ payments' \in [Orders -> Seq(Payment)]
      /\ \A p \in Orders : Len(payments'[p]) = Len(payments[p])
      /\ \A p \in Orders : \A j \in 1..Len(payments[p]) :
             payments'[p][j] = IF p = o /\ j = i THEN row ELSE payments[p][j]
  <2>1. RowChange(o, i, row)
    BY <1>5, Zenon DEF RowChange
  <2> QED BY <1>0, <1>1, <1>4, <2>1, RowChangeEffect
<1>7. /\ settles' \in [Orders -> Nat]
      /\ \A p \in Orders : settles[p] > 0 => settles'[p] > 0
      /\ shouldSettle(h) => settles'[o] > 0
  <2>1. CASE shouldSettle(h)
    <3>1. settles' = [settles EXCEPT ![o] = @ + 1]
      BY <2>1, Zenon DEF Commit
    <3> QED BY <1>0, <1>1, <3>1
  <2>2. CASE ~shouldSettle(h)
    BY <1>1, <2>2, Zenon DEF Commit
  <2> QED BY <2>1, <2>2, Zenon
<1>8. /\ orders' \in [Orders -> OrderStatuses \cup {"none"}]
      /\ \A p \in Orders : p # o => orders'[p] = orders[p]
      /\ orders'[o] = IF tx[h].wrote = "none" THEN orders[o] ELSE tx[h].wrote
  BY <1>0, <1>1, <1>3, Zenon DEF Commit, OrderStatuses
<1>9. TypeOK'
  <2>1. stock' \in [Variants -> Nat]
    <3>1. CASE shouldSettle(h)
      <4>1. stock' = [v \in Variants |-> Take(stock[v], Qty[o][v])]
        BY <3>1, Zenon DEF Commit
      <4>2. \A v \in Variants : stock[v] \in Nat /\ Qty[o][v] \in Nat
        BY <1>0, <1>1, OrderPaymentAssumption, Zenon
      <4> QED BY <4>1, <4>2, TakeType, Zenon
    <3>2. CASE ~shouldSettle(h)
      BY <1>1, <3>2, Zenon DEF Commit
    <3> QED BY <3>1, <3>2, Zenon
  <2> QED BY <1>0, <1>2, <1>6, <1>7, <1>8, <2>1, Zenon DEF IInv, TypeOK
<1>10. \A p \in Orders : orders[p] \notin Waiting => orders'[p] \notin Waiting
  BY <1>3, <1>8, Zenon DEF Waiting
<1>11. NewStatus(tx[h].note) = "PAID" => settles'[o] > 0
  BY <1>0, <1>7, Zenon DEF shouldSettle
<1>12. HandlersOK'
  <2> SUFFICES ASSUME NEW g \in Handlers PROVE HandlerOK(g)'
    BY Zenon DEF HandlersOK
  <2>1. CASE g = h
    <3>1. OrderOf(g)' = o /\ NewStatus(tx'[g].note) = NewStatus(tx[h].note)
      BY <1>2, <2>1, Zenon DEF OrderOf
    <3>2. tx'[g].wrote = "CANCELED" => orders'[o] \notin Waiting
      BY <1>2, <1>8, <2>1, Zenon DEF Waiting
    <3>3. tx'[g].seen = "PAID" => settles'[o] > 0
      BY <1>0, <1>2, <1>7, <2>1, Zenon
    <3> QED BY <1>0, <1>2, <1>11, <2>1, <3>1, <3>2, <3>3, Zenon
            DEF HandlerOK, Active, InTransaction, Settling, NewStatus
  <2>2. CASE g # h
    <3>1. HandlerOK(g) /\ tx'[g] = tx[g] /\ (tx[g].at = "insert" => OrderOf(g) \notin usages')
      BY <1>0, <1>2, <2>2, Zenon DEF IInv, HandlersOK, HandlerOK
    <3>2. \A p \in Orders : Len(payments'[p]) >= Len(payments[p])
      BY <1>1, <1>6
    <3> QED BY <1>0, <1>6, <1>7, <1>10, <3>1, <3>2, OthersKeep, Zenon DEF IInv
  <2> QED BY <2>1, <2>2, Zenon
<1>13. OneWriter'
  BY <1>2 DEF IInv, OneWriter, InTransaction, OrderOf
<1>14. FulfilledOnlyIfSettled'
  <2>1. orders'[o] \in Fulfilment => settles'[o] > 0
    BY <1>0, <1>3, <1>7, <1>8, Zenon DEF IInv, FulfilledOnlyIfSettled, Fulfilment
  <2> QED BY <1>7, <1>8, <2>1, Zenon DEF IInv, FulfilledOnlyIfSettled
<1>15. PaidMeansSettled'
  <2>1. ASSUME NEW p \in Orders, NEW j \in 1..Len(payments'[p]), payments'[p][j].status = "PAID"
        PROVE  settles'[p] > 0
    <3>1. j \in 1..Len(payments[p])
      BY <1>6, Zenon
    <3> QED BY <1>4, <1>6, <1>7, <1>11, <2>1, <3>1, Zenon DEF IInv, PaidMeansSettled
  <2>2. ASSUME NEW p \in Orders, settles'[p] > 0
        PROVE  orders'[p] \notin Waiting
    <3>1. CASE p = o /\ shouldSettle(h)
      BY <1>0, <1>8, <3>1, Zenon DEF Waiting
    <3>2. CASE ~(p = o /\ shouldSettle(h))
      <4>1. settles'[p] = settles[p]
        BY <1>0, <1>1, <3>2, Zenon DEF Commit
      <4> QED BY <1>10, <2>2, <4>1, Zenon DEF IInv, PaidMeansSettled, Waiting
    <3> QED BY <3>1, <3>2, Zenon
  <2> QED BY <2>1, <2>2, Zenon DEF PaidMeansSettled, Waiting
<1>16. AnnouncedIsCommitted'
  BY <1>0, <1>7, <1>10, Zenon DEF IInv, AnnouncedIsCommitted, Waiting
<1>17. CountOK'
  <2>1. Uncounted' \subseteq Uncounted
    BY <1>2, Zenon DEF Uncounted, OrderOf
  <2> QED BY <1>0, <2>1, CountedGrows, Zenon DEF IInv
<1> QED BY <1>9, <1>12, <1>13, <1>14, <1>15, <1>16, <1>17, Zenon DEF IInv

\* What is emitted was committed before.
LEMMA EmitStep == ASSUME IInv, NEW h \in Handlers, Emit(h) PROVE IInv'
<1> USE DEF voucherVars, shopVars, Finish
<1> DEFINE o == OrderOf(h)
           topics == Topics(h) \cup (IF tx[h].wrote = "CANCELED" THEN {"order.canceled"} ELSE {})
<1>0. /\ tx[h].at = "emit" /\ tx[h].note \in Notes /\ o \in Orders /\ HandlerOK(h)
      /\ tx' = [tx EXCEPT ![h] = Idle]
      /\ announced' = announced \cup {<<o, t>> : t \in topics}
      /\ UNCHANGED <<orders, payments, usages, usedCount, settles,
                     discounted, asking, intents, canceling, stock, replay, passed>>
  BY OrderOfType, Zenon DEF Emit, Active, IInv, HandlersOK
<1>1. /\ topics \subseteq {"order.paid", "payment.failed", "payment.expired", "order.canceled"}
      /\ "order.paid" \in topics => NewStatus(tx[h].note) = "PAID"
      /\ "order.canceled" \in topics => tx[h].wrote = "CANCELED"
  BY <1>0, NewStatusType, Zenon DEF Topics
<1> HIDE DEF topics
<1>2. /\ tx \in [Handlers -> Transaction] /\ payments \in [Orders -> Seq(Payment)]
      /\ settles \in [Orders -> Nat]
  BY Zenon DEF IInv, TypeOK
<1>3. tx'[h] = Idle /\ \A g \in Handlers : g # h => tx'[g] = tx[g]
  BY <1>0, <1>2, Zenon
<1>4. TypeOK'
  <2>1. announced' \subseteq Orders \X {"order.paid", "payment.failed", "payment.expired", "order.canceled"}
    <3>1. {<<o, t>> : t \in topics}
             \subseteq Orders \X {"order.paid", "payment.failed", "payment.expired", "order.canceled"}
      <4>1. \A t \in topics :
               <<o, t>> \in Orders \X {"order.paid", "payment.failed", "payment.expired", "order.canceled"}
        BY <1>0, <1>1, Zenon
      <4> QED BY <4>1, Zenon
    <3>2. announced \subseteq Orders \X {"order.paid", "payment.failed", "payment.expired", "order.canceled"}
      BY Zenon DEF IInv, TypeOK
    <3> QED BY <1>0, <3>1, <3>2, Zenon
  <2>2. tx' \in [Handlers -> Transaction]
    BY <1>0, <1>2, IdleType, Zenon
  <2> QED BY <1>0, <2>1, <2>2, Zenon DEF IInv, TypeOK
<1>5. HandlersOK'
  <2> SUFFICES ASSUME NEW g \in Handlers PROVE HandlerOK(g)'
    BY Zenon DEF HandlersOK
  <2>1. CASE g = h
    BY <1>3, <2>1 DEF HandlerOK, Active, InTransaction, Idle, Settling
  <2>2. CASE g # h
    <3>1. HandlerOK(g) /\ tx'[g] = tx[g] /\ (tx[g].at = "insert" => OrderOf(g) \notin usages')
      BY <1>0, <1>3, <2>2, Zenon DEF IInv, HandlersOK, HandlerOK
    <3>2. \A p \in Orders : Len(payments'[p]) >= Len(payments[p])
      <4>1. payments' = payments
        BY <1>0, Zenon
      <4>2. \A p \in Orders : Len(payments[p]) \in Nat
        BY <1>2
      <4> QED BY <4>1, <4>2
    <3> QED BY <1>0, <1>2, <3>1, <3>2, OthersKeep, Zenon DEF IInv
  <2> QED BY <2>1, <2>2, Zenon
<1>6. OneWriter'
  BY <1>3 DEF IInv, OneWriter, InTransaction, OrderOf, Idle
<1>7. FulfilledOnlyIfSettled' /\ PaidMeansSettled'
  BY <1>0, Zenon DEF IInv, FulfilledOnlyIfSettled, PaidMeansSettled
<1>8. AnnouncedIsCommitted'
  <2>1. /\ "order.paid" \in topics => settles[o] > 0
        /\ "order.canceled" \in topics => orders[o] \notin Waiting
    BY <1>0, <1>1, Zenon DEF HandlerOK
  <2>2. \A p \in Orders, t \in {"order.paid", "order.canceled"} :
           <<p, t>> \in announced' => <<p, t>> \in announced \/ (p = o /\ t \in topics)
    BY <1>0, Zenon
  <2> QED BY <1>0, <2>1, <2>2, Zenon DEF IInv, AnnouncedIsCommitted, Waiting
<1>9. CountOK'
  <2>1. Uncounted' \subseteq Uncounted
    BY <1>3 DEF Uncounted, OrderOf, Idle
  <2> QED BY <1>0, <2>1, CountedGrows, Zenon DEF IInv
<1> QED BY <1>4, <1>5, <1>6, <1>7, <1>8, <1>9, Zenon DEF IInv

LEMMA StepIInv == IInv /\ [Next]_vars => IInv'
<1> SUFFICES ASSUME IInv, [Next]_vars PROVE IInv'
  BY Zenon
<1>1. CASE UNCHANGED vars
  <2>1. UNCHANGED <<tx, usages, usedCount, announced, settles, orders, payments, stock, replay,
                    passed, discounted, asking, intents, canceling>>
    BY <1>1, Zenon DEF vars, webhookVars, shopVars, voucherVars
  <2>2. TypeOK' /\ \A p \in Orders : Len(payments[p]) \in Nat
    BY <2>1 DEF IInv, TypeOK
  <2> QED BY <2>1, <2>2, ShopStep
<1>2. ASSUME NEW o \in Orders,
             \/ Create(o) \/ CreateIntentRead(o) \/ CreateIntentCheck(o)
             \/ CreateIntentInsert(o) \/ IntentExpires(o) \/ CancelRead(o) \/ CancelWrite(o)
             \/ \E target \in OrderStatuses : PatchStatus(o, target)
      PROVE  IInv'
  BY <1>2, CreateStep, IntentStep, StatusStep, Zenon
<1>3. ASSUME NEW n \in Notes, ReplayExpires(n) PROVE IInv'
  BY <1>3, ReplayExpiresStep, Zenon
<1>4. ASSUME NEW n \in Notes, NEW h \in Handlers, Receive(h, n) PROVE IInv'
  BY <1>4, ReceiveStep, Zenon
<1>5. ASSUME NEW h \in Handlers, HandlerStep(h) \/ Abort(h) PROVE IInv'
  BY <1>5, ReadPaymentStep, MoveStep, InsertVoucherUsageStep, IncreaseStep, CommitStep, EmitStep,
     AbortStep, Zenon DEF HandlerStep
<1> QED BY <1>1, <1>2, <1>3, <1>4, <1>5, Zenon DEF Next

LEMMA IInvAlways == Spec => []IInv
  BY InitIInv, StepIInv, PTL DEF Spec

---------------------------------------------------------------------------
\* The tables and the handlers' records always have their types; the stock is
\* never negative and used_count never passes the voucher's limit.
THEOREM TypeCorrect == Spec => []TypeOK
<1>1. IInv => TypeOK
  BY Zenon DEF IInv
<1> QED BY IInvAlways, <1>1, PTL

\* No interleaving of notifications, cancellations, retries and administrators
\* fulfils an order whose payment was not settled.
THEOREM NothingShippedUnpaid == Spec => []FulfilledOnlyIfSettled
<1>1. IInv => FulfilledOnlyIfSettled
  BY Zenon DEF IInv
<1> QED BY IInvAlways, <1>1, PTL

\* Skipping the settlement on a status read earlier, without a lock, is safe:
\* PAID is only ever read after a settlement.
THEOREM PaidAlwaysSettled == Spec => []PaidMeansSettled
<1>1. IInv => PaidMeansSettled
  BY Zenon DEF IInv
<1> QED BY IInvAlways, <1>1, PTL

\* Emitting after the commit never announces a payment or a cancellation that
\* was rolled back.
THEOREM AnnouncementsTrue == Spec => []AnnouncedIsCommitted
<1>1. IInv => AnnouncedIsCommitted
  BY Zenon DEF IInv
<1> QED BY IInvAlways, <1>1, PTL

\* The order's row lock makes Settle's unlocked check-then-insert count a
\* voucher at most once per order.
THEOREM VoucherCount == Spec => []VoucherCountedOnce
<1>1. IInv => VoucherCountedOnce
  <2> SUFFICES ASSUME IInv PROVE VoucherCountedOnce
    BY Zenon
  <2>1. IsFiniteSet(usages) /\ IsFiniteSet(Counted) /\ Counted \in SUBSET usages
    BY UsagesFinite, Zenon DEF IInv, TypeOK, Counted
  <2>2. Cardinality(Counted) <= Cardinality(usages)
    BY <2>1, FS_Subset, Zenon
  <2>3. Cardinality(Counted) \in Nat /\ Cardinality(usages) \in Nat
    BY <2>1, FS_CardinalityType, Zenon
  <2> QED BY <2>2, <2>3 DEF IInv, TypeOK, CountOK, VoucherCountedOnce
<1> QED BY IInvAlways, <1>1, PTL

---------------------------------------------------------------------------
(* OrderPayment implements OrderRow.                                       *)

\* Whatever is about to write an order's row found the order before.
Placed ==
    \A o \in Orders :
        payments[o] # <<>> \/ intents[o] > 0 \/ o \in asking \cup canceling => orders[o] # "none"

LEMMA InitPlaced == Init => Placed /\ Row!Init
  BY DEF Init, Placed, Row!Init

LEMMA PlacedStep == IInv /\ Placed /\ [Next]_vars => Placed' /\ [Row!Next]_(Row!vars)
<1> SUFFICES ASSUME IInv, Placed, [Next]_vars PROVE Placed' /\ [Row!Next]_(Row!vars)
  BY Zenon
<1> USE DEF voucherVars, shopVars, webhookVars
<1>0. /\ orders \in [Orders -> OrderStatuses \cup {"none"}] /\ settles \in [Orders -> Nat]
      /\ payments \in [Orders -> Seq(Payment)] /\ intents \in [Orders -> Nat]
      /\ tx \in [Handlers -> Transaction]
  BY Zenon DEF IInv, TypeOK
<1>1. CASE UNCHANGED <<orders, settles, payments, asking, intents, canceling>>
  BY <1>1, Zenon DEF Placed, Row!vars
<1>2. ASSUME NEW o \in Orders, Create(o) PROVE Placed' /\ [Row!Next]_(Row!vars)
  <2>1. Row!Place(o)
    BY <1>2, Zenon DEF Create, Row!Place
  <2>2. Placed'
    BY <1>0, <1>2, Zenon DEF Create, Placed
  <2> QED BY <2>1, <2>2, Zenon DEF Row!Next
<1>3. ASSUME NEW o \in Orders,
             CreateIntentRead(o) \/ CreateIntentCheck(o) \/ CreateIntentInsert(o) \/ CancelRead(o)
      PROVE  Placed' /\ [Row!Next]_(Row!vars)
  <2>1. UNCHANGED <<orders, settles>> /\ orders[o] # "none"
    BY <1>3, Zenon DEF CreateIntentRead, CreateIntentCheck, CreateIntentInsert, CancelRead, Placed
  <2>2. \A p \in Orders : p # o =>
           /\ payments'[p] = payments[p] /\ intents'[p] = intents[p]
           /\ (p \in asking' <=> p \in asking) /\ (p \in canceling' <=> p \in canceling)
    BY <1>0, <1>3, Zenon DEF CreateIntentRead, CreateIntentCheck, CreateIntentInsert, CancelRead
  <2> QED BY <2>1, <2>2, Zenon DEF Placed, Row!vars
<1>4. ASSUME NEW o \in Orders, IntentExpires(o) PROVE Placed' /\ [Row!Next]_(Row!vars)
  <2>1. UNCHANGED <<orders, settles, asking, intents, canceling>>
    BY <1>4, Zenon DEF IntentExpires
  <2>2. PICK i \in 1..Len(payments[o]) :
           payments' = [payments EXCEPT ![o] = [payments[o] EXCEPT ![i] = [payments[o][i] EXCEPT !.live = FALSE]]]
    BY <1>0, <1>4, Zenon DEF IntentExpires
  <2>3. payments[o] # <<>>
    BY <1>0, <2>2
  <2>4. \A p \in Orders : payments'[p] # <<>> => payments[p] # <<>>
    BY <1>0, <2>2, <2>3, Zenon
  <2> QED BY <2>1, <2>4, Zenon DEF Placed, Row!vars
<1>5. ASSUME NEW o \in Orders, CancelWrite(o) PROVE Placed' /\ [Row!Next]_(Row!vars)
  <2>1. Row!Cancel(o)
    BY <1>5, Zenon DEF CancelWrite, Placed, Row!Cancel
  <2>2. Placed'
    BY <1>0, <1>5, Zenon DEF CancelWrite, Placed
  <2> QED BY <2>1, <2>2, Zenon DEF Row!Next
<1>6. ASSUME NEW o \in Orders, NEW target \in OrderStatuses, PatchStatus(o, target)
      PROVE  Placed' /\ [Row!Next]_(Row!vars)
  <2>1. /\ orders' = [orders EXCEPT ![o] = target] /\ orders[o] # "none"
        /\ isAllowedAdminTarget(target) /\ UpdateAllowed(orders[o], target)
        /\ UNCHANGED <<settles, payments, asking, intents, canceling>>
    BY <1>6, Zenon DEF PatchStatus
  <2>2. target = "CANCELED" \/ <<orders[o], target>> \in Row!Stages
    BY <2>1, Zenon DEF isAllowedAdminTarget, UpdateAllowed, Row!Stages
  <2>3. CASE target = "CANCELED"
    <3>1. Row!Cancel(o)
      BY <2>1, <2>3, Zenon DEF Row!Cancel
    <3> QED BY <1>0, <2>1, <2>3, <3>1, Zenon DEF Row!Next, Placed
  <2>4. CASE <<orders[o], target>> \in Row!Stages
    <3>1. Row!Advance(o)
      <4>1. PICK stage \in Row!Stages : stage = <<orders[o], target>>
        BY <2>4, Zenon
      <4>2. orders[o] = stage[1] /\ target = stage[2]
        BY <4>1, Zenon
      <4> QED BY <2>1, <4>2, Zenon DEF Row!Advance
    <3>2. target # "none"
      BY Zenon DEF OrderStatuses
    <3>3. Placed'
      BY <1>0, <2>1, <3>2, Zenon DEF Placed
    <3> QED BY <3>1, <3>3, Zenon DEF Row!Next
  <2> QED BY <2>2, <2>3, <2>4, Zenon
<1>7. ASSUME NEW h \in Handlers, Commit(h) PROVE Placed' /\ [Row!Next]_(Row!vars)
  <2> DEFINE o == OrderOf(h)
  <2>1. /\ o \in Orders /\ tx[h].wrote \in {"none", "PAID", "CANCELED"}
        /\ tx[h].pay \in 1..Len(payments[o]) /\ (shouldSettle(h) <=> tx[h].wrote = "PAID")
    BY <1>0, <1>7, OrderOfType, Zenon
       DEF Commit, IInv, HandlersOK, HandlerOK, Active, InTransaction, Transaction
  <2>2. payments[o] # <<>>
    BY <1>0, <2>1
  <2>3. orders[o] # "none"
    BY <2>1, <2>2, Zenon DEF Placed
  <2> HIDE DEF o
  <2>4. /\ UNCHANGED <<asking, intents, canceling>>
        /\ \A p \in Orders : p # o => payments'[p] = payments[p]
        /\ orders' = IF tx[h].wrote = "none" THEN orders ELSE [orders EXCEPT ![o] = tx[h].wrote]
        /\ settles' = IF shouldSettle(h) THEN [settles EXCEPT ![o] = @ + 1] ELSE settles
    BY <1>0, <1>7, Zenon DEF Commit, o
  <2>5. Placed'
    <3>1. \A p \in Orders : payments'[p] # <<>> => payments[p] # <<>>
      BY <2>2, <2>4, Zenon
    <3>2. \A p \in Orders : orders[p] # "none" => orders'[p] # "none"
      BY <1>0, <2>1, <2>4, Zenon
    <3> QED BY <2>4, <3>1, <3>2, Zenon DEF Placed
  <2>6. [Row!Next]_(Row!vars)
    <3>1. CASE tx[h].wrote = "none"
      BY <2>1, <2>4, <3>1, Zenon DEF Row!vars
    <3>2. CASE tx[h].wrote = "PAID"
      BY <2>1, <2>3, <2>4, <3>2, Zenon DEF Row!Next, Row!Settle
    <3>3. CASE tx[h].wrote = "CANCELED"
      BY <2>1, <2>3, <2>4, <3>3, Zenon DEF Row!Next, Row!Cancel
    <3> QED BY <2>1, <3>1, <3>2, <3>3, Zenon
  <2> QED BY <2>5, <2>6, Zenon
<1>8. ASSUME NEW h \in Handlers,
             \/ \E n \in Notes : Receive(h, n)
             \/ ReadPayment(h) \/ UpdatePayment(h) \/ UpdateOrderPaid(h)
             \/ DecrementVariantStock(h) \/ SettleLookup(h) \/ InsertVoucherUsage(h)
             \/ IncreaseVoucherUsedCount(h) \/ UpdateOrderCanceled(h) \/ Emit(h) \/ Abort(h)
      PROVE  UNCHANGED <<orders, settles, payments, asking, intents, canceling>>
  BY <1>8, Zenon DEF Receive, ReadPayment, UpdatePayment, UpdateOrderPaid,
              DecrementVariantStock, SettleLookup, InsertVoucherUsage, IncreaseVoucherUsedCount,
              UpdateOrderCanceled, Emit, Abort
<1>9. ASSUME NEW n \in Notes, ReplayExpires(n)
      PROVE  UNCHANGED <<orders, settles, payments, asking, intents, canceling>>
  BY <1>9, Zenon DEF ReplayExpires
<1>10. ASSUME UNCHANGED vars PROVE UNCHANGED <<orders, settles, payments, asking, intents, canceling>>
  BY <1>10, Zenon DEF vars
<1> QED BY <1>1, <1>2, <1>3, <1>4, <1>5, <1>6, <1>7, <1>8, <1>9, <1>10, ZenonT(40) DEF Next, HandlerStep

\* Payments, cancellations and administration implement the life cycle that
\* shipping relies on: every write of an order's row is one of its steps.
THEOREM PaymentImplementsRow == Spec => ImplementsOrderRow
<1>1. Spec => []Placed
  <2>1. IInv /\ Placed /\ [Next]_vars => Placed'
    BY PlacedStep, Zenon
  <2> QED BY InitPlaced, <2>1, IInvAlways, PTL DEF Spec
<1>2. IInv /\ Placed /\ [Next]_vars => [Row!Next]_(Row!vars)
  BY PlacedStep, Zenon
<1>3. Init => Row!Init
  BY InitPlaced, Zenon
<1> QED BY <1>1, <1>2, <1>3, IInvAlways, PTL DEF Spec, ImplementsOrderRow, Row!Spec

----------------------------------------------------------------------------
(* The stock.                                                              *)

\* Sums.  SumFunction is a fold: a function on the subsets of the domain that
\* is defined by recursion on them.  What is needed of it is proved from a
\* smallest counterexample among the subsets of a finite set.

\* A non-empty family of subsets of a finite set has a smallest member.
LEMMA SmallestSubset ==
    ASSUME NEW S, IsFiniteSet(S), NEW B, B \subseteq SUBSET S, B # {}
    PROVE  \E U \in B : \A V \in B : V \subseteq U => V = U
<1>1. IsWellFoundedOn(StrictSubsetOrdering(S), SUBSET S)
  BY FS_StrictSubsetOrderingWellFounded, FS_FiniteSubsetsOfFinite, Zenon
<1>2. PICK U \in B : \A V \in B : ~(<<V, U>> \in StrictSubsetOrdering(S))
  BY <1>1, WFMin, Zenon
<1>3. ASSUME NEW V \in B, V \subseteq U, V # U
      PROVE  FALSE
  <2>1. <<V, U>> \in (SUBSET S) \X (SUBSET S)
    OBVIOUS
  <2> QED
    BY <1>2, <1>3, <2>1 DEF StrictSubsetOrdering
<1> QED
  BY <1>3

\* The recursion of the fold.
Folds(f, S, g) ==
    g = [s \in SUBSET S |-> IF s = {} THEN 0
                            ELSE f[CHOOSE x \in s : TRUE] + g[s \ {CHOOSE x \in s : TRUE}]]
First(s) == CHOOSE x \in s : TRUE

LEMMA FirstIn == ASSUME NEW s, s # {} PROVE First(s) \in s
  BY Zenon DEF First

LEMMA FoldsAt ==
    ASSUME NEW f, NEW S, NEW g, Folds(f, S, g)
    PROVE  /\ g[{}] = 0
           /\ \A s \in SUBSET S : s # {} => g[s] = f[First(s)] + g[s \ {First(s)}]
<1>1. \A s \in SUBSET S : g[s] = IF s = {} THEN 0 ELSE f[First(s)] + g[s \ {First(s)}]
  BY Zenon DEF Folds, First
<1> QED
  BY <1>1, SMTT(40)

\* Two folds agree where both are defined.
LEMMA FoldsAgree ==
    ASSUME NEW f, NEW S, IsFiniteSet(S), NEW T \in SUBSET S, NEW g, NEW h, Folds(f, S, g), Folds(f, T, h)
    PROVE  \A U \in SUBSET T : g[U] = h[U]
<1> DEFINE B == {U \in SUBSET T : g[U] # h[U]}
<1>1. SUFFICES ASSUME B # {} PROVE FALSE
  OBVIOUS
<1>2. IsFiniteSet(T)
  BY FS_Subset
<1>3. PICK U \in B : \A V \in B : V \subseteq U => V = U
  <2> HIDE DEF B
  <2>1. B \subseteq SUBSET T
    BY DEF B
  <2> QED
    BY <1>1, <1>2, <2>1, SmallestSubset
<1>4. U # {}
  BY FoldsAt, Zenon
<1>5. /\ g[U] = f[First(U)] + g[U \ {First(U)}]
      /\ h[U] = f[First(U)] + h[U \ {First(U)}]
  BY FoldsAt, <1>4, <1>3
<1>6. U \ {First(U)} \notin B
  BY <1>3, <1>4, FirstIn
<1>7. g[U \ {First(U)}] = h[U \ {First(U)}]
  BY <1>6
<1> QED
  BY <1>3, <1>5, <1>7

\* The fold of a finite set exists.
LEMMA FoldsExist ==
    ASSUME NEW f, NEW S, IsFiniteSet(S)
    PROVE  \E g : Folds(f, S, g)
<1> DEFINE B == {U \in SUBSET S : ~\E g : Folds(f, U, g)}
<1>1. SUFFICES ASSUME B # {} PROVE FALSE
  OBVIOUS
<1>2. PICK U \in B : \A V \in B : V \subseteq U => V = U
  <2> HIDE DEF B
  <2>1. B \subseteq SUBSET S
    BY DEF B
  <2> QED
    BY <1>1, <2>1, SmallestSubset
<1> DEFINE G(V) == CHOOSE g : Folds(f, V, g)
           k == [V \in SUBSET U |-> IF V = {} THEN 0 ELSE f[First(V)] + G(V \ {First(V)})[V \ {First(V)}]]
<1>3. \A V \in SUBSET U : V # U => Folds(f, V, G(V))
  <2> SUFFICES ASSUME NEW V \in SUBSET U, V # U PROVE \E g : Folds(f, V, g)
    BY Zenon
  <2> QED
    BY <1>2
<1>4. ASSUME NEW V \in SUBSET U, V # U
      PROVE  k[V] = G(V)[V]
  <2>1. Folds(f, V, G(V))
    BY <1>3, <1>4
  <2>2. CASE V = {}
    <3>1. G(V)[{}] = 0
      BY <2>1, FoldsAt, Zenon
    <3> QED
      BY <3>1, <2>2
  <2>3. CASE V # {}
    <3> DEFINE W == V \ {First(V)}
    <3>1. W \in SUBSET V /\ W \in SUBSET U /\ W # U
      BY <2>3, FirstIn
    <3>2. Folds(f, W, G(W))
      BY <3>1, <1>3, Zenon
    <3>3. IsFiniteSet(V)
      BY <1>2, FS_Subset
    <3>4. G(V)[W] = G(W)[W]
      <4> HIDE DEF W, G
      <4>1. \A X \in SUBSET W : G(V)[X] = G(W)[X]
        BY <2>1, <3>1, <3>2, <3>3, FoldsAgree
      <4> QED
        BY <4>1
    <3>5. G(V)[V] = f[First(V)] + G(V)[W]
      BY <2>1, <2>3, FoldsAt
    <3>6. k[V] = f[First(V)] + G(W)[W]
      BY <2>3
    <3> QED
      BY <3>4, <3>5, <3>6
  <2> QED
    BY <2>2, <2>3
<1>5. Folds(f, U, k)
  <2> HIDE DEF G
  <2>1. \A V \in SUBSET U : V # {} => k[V \ {First(V)}] = G(V \ {First(V)})[V \ {First(V)}]
    <3> SUFFICES ASSUME NEW V \in SUBSET U, V # {}
                 PROVE  k[V \ {First(V)}] = G(V \ {First(V)})[V \ {First(V)}]
      BY Zenon
    <3>1. V \ {First(V)} \in SUBSET U /\ V \ {First(V)} # U
      BY FirstIn
    <3> HIDE DEF k
    <3> QED
      BY <3>1, <1>4
  <2>2. \A V \in SUBSET U : k[V] = IF V = {} THEN 0 ELSE f[First(V)] + k[V \ {First(V)}]
    <3> SUFFICES ASSUME NEW V \in SUBSET U
                 PROVE  k[V] = IF V = {} THEN 0 ELSE f[First(V)] + k[V \ {First(V)}]
      BY Zenon
    <3>1. k[V] = IF V = {} THEN 0 ELSE f[First(V)] + G(V \ {First(V)})[V \ {First(V)}]
      BY Zenon
    <3> HIDE DEF k
    <3> QED
      BY <2>1, <3>1
  <2>3. k = [V \in SUBSET U |-> k[V]]
    BY Zenon
  <2> HIDE DEF k
  <2>4. k = [V \in SUBSET U |-> IF V = {} THEN 0 ELSE f[First(V)] + k[V \ {First(V)}]]
    BY <2>2, <2>3, Zenon
  <2> QED
    BY <2>4, Zenon DEF Folds, First
<1> QED
  BY <1>2, <1>5

\* So the sum over a finite set is its fold.
LEMMA SumFolds ==
    ASSUME NEW f, NEW S, IsFiniteSet(S)
    PROVE  \E g : Folds(f, S, g) /\ SumFunctionOnSet(f, S) = g[S]
<1> DEFINE g == CHOOSE g : Folds(f, S, g)
<1>1. Folds(f, S, g)
  BY FoldsExist, Zenon
<1>2. SumFunctionOnSet(f, S) = g[S]
  BY Zenon DEF SumFunctionOnSet, FoldFunctionOnSet, MapThenFoldSet, Folds
<1> QED
  BY <1>1, <1>2, Zenon

LEMMA SumEmpty == ASSUME NEW f PROVE SumFunctionOnSet(f, {}) = 0
  BY SumFolds, FoldsAt, FS_EmptySet

\* The sum over a set is one of its values more than the sum over the rest.
LEMMA SumFirst ==
    ASSUME NEW f, NEW S, IsFiniteSet(S), S # {}
    PROVE  SumFunctionOnSet(f, S) = f[First(S)] + SumFunctionOnSet(f, S \ {First(S)})
<1> DEFINE T == S \ {First(S)}
<1>1. T \in SUBSET S /\ IsFiniteSet(T)
  BY FS_Subset
<1>2. PICK g : Folds(f, S, g) /\ SumFunctionOnSet(f, S) = g[S]
  BY SumFolds
<1>3. PICK h : Folds(f, T, h) /\ SumFunctionOnSet(f, T) = h[T]
  BY SumFolds, <1>1
<1>4. g[T] = h[T]
  <2> HIDE DEF T
  <2>1. \A U \in SUBSET T : g[U] = h[U]
    BY <1>1, <1>2, <1>3, FoldsAgree
  <2> QED
    BY <2>1
<1>5. g[S] = f[First(S)] + g[T]
  BY <1>2, FoldsAt
<1> QED
  BY <1>2, <1>3, <1>4, <1>5

Integral(f, S) == \A x \in S : f[x] \in Int

\* A sum of integers is an integer.
LEMMA SumInt ==
    ASSUME NEW f, NEW S, IsFiniteSet(S), Integral(f, S)
    PROVE  SumFunctionOnSet(f, S) \in Int
<1> DEFINE B == {U \in SUBSET S : SumFunctionOnSet(f, U) \notin Int}
<1>1. SUFFICES ASSUME B # {} PROVE FALSE
  OBVIOUS
<1>2. PICK U \in B : \A V \in B : V \subseteq U => V = U
  <2> HIDE DEF B
  <2>1. B \subseteq SUBSET S
    BY DEF B
  <2> QED
    BY <1>1, <2>1, SmallestSubset
<1>3. U # {}
  <2>1. SumFunctionOnSet(f, {}) = 0
    BY SumEmpty, Zenon
  <2>2. SumFunctionOnSet(f, {}) \in Int
    BY <2>1
  <2> QED
    BY <1>2, <2>2, Zenon
<1>4. IsFiniteSet(U) /\ First(U) \in U
  BY <1>2, <1>3, FS_Subset, FirstIn
<1>5. SumFunctionOnSet(f, U \ {First(U)}) \in Int
  BY <1>2, <1>4
<1>6. f[First(U)] \in Int
  BY <1>2, <1>4 DEF Integral
<1>7. SumFunctionOnSet(f, U) = f[First(U)] + SumFunctionOnSet(f, U \ {First(U)})
  BY <1>3, <1>4, SumFirst
<1> QED
  BY <1>2, <1>5, <1>6, <1>7

\* A sum of natural numbers is a natural number.
LEMMA SumNat ==
    ASSUME NEW f, NEW S, IsFiniteSet(S), \A x \in S : f[x] \in Nat
    PROVE  SumFunctionOnSet(f, S) \in Nat
<1> DEFINE B == {U \in SUBSET S : SumFunctionOnSet(f, U) \notin Nat}
<1>1. SUFFICES ASSUME B # {} PROVE FALSE
  OBVIOUS
<1>2. PICK U \in B : \A V \in B : V \subseteq U => V = U
  <2> HIDE DEF B
  <2>1. B \subseteq SUBSET S
    BY DEF B
  <2> QED
    BY <1>1, <2>1, SmallestSubset
<1>3. U # {}
  <2>1. SumFunctionOnSet(f, {}) = 0
    BY SumEmpty, Zenon
  <2>2. SumFunctionOnSet(f, {}) \in Nat
    BY <2>1
  <2> QED
    BY <1>2, <2>2, Zenon
<1>4. IsFiniteSet(U) /\ First(U) \in U
  BY <1>2, <1>3, FS_Subset, FirstIn
<1>5. SumFunctionOnSet(f, U \ {First(U)}) \in Nat
  BY <1>2, <1>4
<1>6. f[First(U)] \in Nat
  BY <1>2, <1>4
<1>7. SumFunctionOnSet(f, U) = f[First(U)] + SumFunctionOnSet(f, U \ {First(U)})
  BY <1>3, <1>4, SumFirst
<1> QED
  BY <1>2, <1>5, <1>6, <1>7

\* It depends on the values only.
LEMMA SumSame ==
    ASSUME NEW f, NEW g, NEW S, IsFiniteSet(S), \A x \in S : f[x] = g[x]
    PROVE  SumFunctionOnSet(f, S) = SumFunctionOnSet(g, S)
<1> DEFINE B == {U \in SUBSET S : SumFunctionOnSet(f, U) # SumFunctionOnSet(g, U)}
<1>1. SUFFICES ASSUME B # {} PROVE FALSE
  OBVIOUS
<1>2. PICK U \in B : \A V \in B : V \subseteq U => V = U
  <2> HIDE DEF B
  <2>1. B \subseteq SUBSET S
    BY DEF B
  <2> QED
    BY <1>1, <2>1, SmallestSubset
<1>3. U # {}
  BY <1>2, SumEmpty
<1>4. IsFiniteSet(U) /\ First(U) \in U
  BY <1>2, <1>3, FS_Subset, FirstIn
<1>5. SumFunctionOnSet(f, U \ {First(U)}) = SumFunctionOnSet(g, U \ {First(U)})
  BY <1>2, <1>4
<1>6. f[First(U)] = g[First(U)]
  BY <1>2, <1>4
<1>7. /\ SumFunctionOnSet(f, U) = f[First(U)] + SumFunctionOnSet(f, U \ {First(U)})
      /\ SumFunctionOnSet(g, U) = g[First(U)] + SumFunctionOnSet(g, U \ {First(U)})
  BY <1>3, <1>4, SumFirst
<1> QED
  BY <1>2, <1>5, <1>6, <1>7

\* Any element may be taken out first.
LEMMA SumOut ==
    ASSUME NEW f, NEW S, IsFiniteSet(S), Integral(f, S), NEW a \in S
    PROVE  SumFunctionOnSet(f, S) = f[a] + SumFunctionOnSet(f, S \ {a})
<1> DEFINE Good(U) == \A x \in U : SumFunctionOnSet(f, U) = f[x] + SumFunctionOnSet(f, U \ {x})
           B == {U \in SUBSET S : ~Good(U)}
<1>1. SUFFICES ASSUME B # {} PROVE FALSE
  OBVIOUS
<1>2. PICK U \in B : \A V \in B : V \subseteq U => V = U
  <2> HIDE DEF B
  <2>1. B \subseteq SUBSET S
    BY DEF B
  <2> QED
    BY <1>1, <2>1, SmallestSubset
<1>3. PICK x \in U : SumFunctionOnSet(f, U) # f[x] + SumFunctionOnSet(f, U \ {x})
  BY <1>2, Zenon
<1>4. IsFiniteSet(U) /\ First(U) \in U /\ U # {} /\ U \subseteq S
  BY <1>2, <1>3, FS_Subset, FirstIn
<1>5. SumFunctionOnSet(f, U) = f[First(U)] + SumFunctionOnSet(f, U \ {First(U)})
  BY <1>4, SumFirst
<1>6. x # First(U)
  BY <1>3, <1>5
<1> DEFINE W == U \ {x, First(U)}
<1>7. (U \ {First(U)}) \ {x} = W /\ (U \ {x}) \ {First(U)} = W
  OBVIOUS
<1>8. /\ U \ {First(U)} \in SUBSET S /\ U \ {First(U)} \subseteq U /\ U \ {First(U)} # U
      /\ U \ {x} \in SUBSET S /\ U \ {x} \subseteq U /\ U \ {x} # U
  BY <1>4
<1>9. Good(U \ {First(U)}) /\ Good(U \ {x})
  <2> HIDE DEF Good
  <2> QED
    BY <1>2, <1>8
<1>10. SumFunctionOnSet(f, U \ {First(U)}) = f[x] + SumFunctionOnSet(f, W)
  BY <1>9, <1>7, <1>6
<1>11. SumFunctionOnSet(f, U \ {x}) = f[First(U)] + SumFunctionOnSet(f, W)
  BY <1>9, <1>7, <1>6, <1>4
<1>12. f[x] \in Int /\ f[First(U)] \in Int /\ SumFunctionOnSet(f, W) \in Int
  <2>1. IsFiniteSet(W) /\ Integral(f, W)
    BY <1>4, FS_Subset DEF Integral
  <2> QED
    BY <2>1, SumInt, <1>4 DEF Integral
<1> QED
  BY <1>3, <1>5, <1>10, <1>11, <1>12

LEMMA MaxOfTwo ==
    ASSUME NEW a \in Int, NEW b \in Int
    PROVE  Max({a, b}) = IF a >= b THEN a ELSE b
<1>1. \E x \in {a, b} : \A y \in {a, b} : x >= y
  OBVIOUS
<1>2. Max({a, b}) \in {a, b} /\ \A y \in {a, b} : Max({a, b}) >= y
  BY <1>1, Zenon DEF Max
<1> QED
  BY <1>2

\* Zeros add up to nothing.
LEMMA SumZero ==
    ASSUME NEW f, NEW S, IsFiniteSet(S), \A x \in S : f[x] = 0
    PROVE  SumFunctionOnSet(f, S) = 0
<1> DEFINE B == {U \in SUBSET S : SumFunctionOnSet(f, U) # 0}
<1>1. SUFFICES ASSUME B # {} PROVE FALSE
  OBVIOUS
<1>2. PICK U \in B : \A V \in B : V \subseteq U => V = U
  <2> HIDE DEF B
  <2>1. B \subseteq SUBSET S
    BY DEF B
  <2> QED
    BY <1>1, <2>1, SmallestSubset
<1>3. U # {}
  BY <1>2, SumEmpty, Zenon
<1>4. IsFiniteSet(U) /\ First(U) \in U
  BY <1>2, <1>3, FS_Subset, FirstIn
<1>5. SumFunctionOnSet(f, U \ {First(U)}) = 0 /\ f[First(U)] = 0
  BY <1>2, <1>4
<1>6. SumFunctionOnSet(f, U) = f[First(U)] + SumFunctionOnSet(f, U \ {First(U)})
  BY <1>3, <1>4, SumFirst
<1> QED
  BY <1>2, <1>5, <1>6

\* How many of v the settlements have taken, or would have.
Sold(v) == [o \in Orders |-> settles[o] * Qty[o][v]]

LEMMA SoldNat ==
    ASSUME TypeOK, NEW v \in Variants
    PROVE  /\ \A o \in Orders : Sold(v)[o] \in Nat
           /\ SumFunction(Sold(v)) = SumFunctionOnSet(Sold(v), Orders)
           /\ SumFunction(Sold(v)) \in Nat
<1>1. \A o \in Orders : settles[o] \in Nat /\ Qty[o][v] \in Nat
  BY OrderPaymentAssumption, Zenon DEF TypeOK
<1>2. \A o \in Orders : Sold(v)[o] \in Nat
  BY <1>1 DEF Sold
<1>3. DOMAIN Sold(v) = Orders
  BY Zenon DEF Sold
<1>4. SumFunction(Sold(v)) = SumFunctionOnSet(Sold(v), Orders)
  BY <1>3, Zenon DEF SumFunction
<1>5. SumFunctionOnSet(Sold(v), Orders) \in Nat
  <2>1. PICK f : f = Sold(v)
    OBVIOUS
  <2>2. SumFunctionOnSet(f, Orders) \in Nat
    BY <2>1, <1>2, SumNat, OrderPaymentAssumption, Zenon
  <2> QED BY <2>1, <2>2, Zenon
<1> QED BY <1>2, <1>4, <1>5, Zenon

\* One value of a sum grows.
LEMMA SumGrows ==
    ASSUME NEW S, IsFiniteSet(S), NEW f, NEW g, Integral(f, S), Integral(g, S), NEW a \in S, NEW d \in Nat,
           g[a] = f[a] + d, \A x \in S : x # a => g[x] = f[x]
    PROVE  SumFunctionOnSet(g, S) = SumFunctionOnSet(f, S) + d
<1>1. /\ SumFunctionOnSet(f, S) = f[a] + SumFunctionOnSet(f, S \ {a})
      /\ SumFunctionOnSet(g, S) = g[a] + SumFunctionOnSet(g, S \ {a})
  <2>1. SumFunctionOnSet(f, S) = f[a] + SumFunctionOnSet(f, S \ {a})
    BY SumOut
  <2>2. SumFunctionOnSet(g, S) = g[a] + SumFunctionOnSet(g, S \ {a})
    BY SumOut
  <2> QED BY <2>1, <2>2, Zenon
<1>2. IsFiniteSet(S \ {a}) /\ \A x \in S \ {a} : g[x] = f[x]
  BY FS_Subset
<1>3. SumFunctionOnSet(g, S \ {a}) = SumFunctionOnSet(f, S \ {a})
  BY <1>2, SumSame, Zenon
<1>4. Integral(f, S \ {a})
  BY Zenon DEF Integral
<1>5. SumFunctionOnSet(f, S \ {a}) \in Int /\ f[a] \in Int
  BY <1>2, <1>4, SumInt, Zenon DEF Integral
<1> QED BY <1>1, <1>3, <1>5

\* GREATEST(0, ...) may be applied at each settlement or once at the end.
LEMMA TakeFrom ==
    ASSUME NEW i \in Nat, NEW s \in Nat, NEW q \in Nat
    PROVE  Take(Max({0, i - s}), q) = Max({0, i - (s + q)})
<1>1. /\ Max({0, i - s}) = IF 0 >= i - s THEN 0 ELSE i - s
      /\ Max({0, i - (s + q)}) = IF 0 >= i - (s + q) THEN 0 ELSE i - (s + q)
  BY MaxOfTwo
<1> QED BY <1>1 DEF Take

LEMMA CommitStock ==
    ASSUME IInv, IInv', StockAccounts, NEW h \in Handlers, Commit(h), shouldSettle(h)
    PROVE  StockAccounts'
<1>1. TypeOK /\ TypeOK' /\ OrderOf(h) \in Orders
  BY OrderOfType, Zenon DEF IInv, Commit, Active
<1>2. PICK o \in Orders : o = OrderOf(h)
  BY <1>1
<1>3. /\ stock' = [v \in Variants |-> Take(stock[v], Qty[o][v])]
      /\ settles' = [settles EXCEPT ![o] = @ + 1]
  BY <1>2, Zenon DEF Commit
<1>4. SUFFICES ASSUME NEW v \in Variants
               PROVE  stock'[v] = Max({0, InitStock[v] - SumFunction(Sold(v)')})
  BY Zenon DEF StockAccounts, Sold
<1>5. PICK f, g : f = Sold(v) /\ g = Sold(v)'
  OBVIOUS
<1>6. /\ \A x \in Orders : f[x] \in Nat
      /\ SumFunction(f) = SumFunctionOnSet(f, Orders) /\ SumFunction(f) \in Nat
  BY <1>1, <1>5, SoldNat
<1>7. DOMAIN g = Orders
  BY <1>5 DEF Sold
<1>8. SumFunction(g) = SumFunctionOnSet(g, Orders)
  BY <1>7, Zenon DEF SumFunction
<1>9. settles \in [Orders -> Nat] /\ Qty[o][v] \in Nat /\ InitStock[v] \in Nat
  BY <1>1, OrderPaymentAssumption, Zenon DEF TypeOK
<1>10. /\ settles'[o] = settles[o] + 1 /\ settles[o] \in Nat
       /\ \A x \in Orders : x # o => settles'[x] = settles[x]
  BY <1>3, <1>9, Zenon
<1>11. \A x \in Orders : f[x] = settles[x] * Qty[x][v] /\ g[x] = settles'[x] * Qty[x][v]
  BY <1>5, Zenon DEF Sold
<1>12. g[o] = f[o] + Qty[o][v] /\ \A x \in Orders : x # o => g[x] = f[x]
  BY <1>9, <1>10, <1>11
<1>13. Integral(f, Orders) /\ Integral(g, Orders) /\ IsFiniteSet(Orders)
  <2>1. \A x \in Orders : settles'[x] \in Nat /\ Qty[x][v] \in Nat
    BY <1>1, OrderPaymentAssumption, Zenon DEF TypeOK
  <2>2. \A x \in Orders : g[x] \in Int /\ f[x] \in Int
    BY <1>6, <1>11, <2>1
  <2> QED BY <2>2, OrderPaymentAssumption, Zenon DEF Integral
<1>14. SumFunction(g) = SumFunction(f) + Qty[o][v]
  <2>1. PICK d \in Nat : d = Qty[o][v]
    BY <1>9, Zenon
  <2>2. SumFunctionOnSet(g, Orders) = SumFunctionOnSet(f, Orders) + d
    BY <1>12, <1>13, <2>1, SumGrows
  <2> QED BY <1>6, <1>8, <2>1, <2>2, Zenon
<1>15. stock[v] = Max({0, InitStock[v] - SumFunction(f)})
  BY <1>5, Zenon DEF StockAccounts, Sold
<1>16. stock'[v] = Take(stock[v], Qty[o][v])
  BY <1>3, Zenon
<1>17. Take(Max({0, InitStock[v] - SumFunction(f)}), Qty[o][v])
         = Max({0, InitStock[v] - (SumFunction(f) + Qty[o][v])})
  BY <1>6, <1>9, TakeFrom, ZenonT(40)
<1> QED BY <1>5, <1>14, <1>15, <1>16, <1>17, Zenon

LEMMA InitStockAccounts == Init => StockAccounts
<1> SUFFICES ASSUME Init, NEW v \in Variants
             PROVE  stock[v] = Max({0, InitStock[v] - SumFunction(Sold(v))})
  BY Zenon DEF StockAccounts, Sold
<1>1. TypeOK
  BY InitIInv, Zenon DEF IInv
<1>2. PICK f : f = Sold(v)
  OBVIOUS
<1>3. SumFunction(f) = SumFunctionOnSet(f, Orders) /\ \A x \in Orders : f[x] \in Nat
  BY <1>1, <1>2, SoldNat, Zenon
<1>4. \A x \in Orders : f[x] = 0
  BY <1>2, OrderPaymentAssumption DEF Init, Sold
<1>5. Integral(f, Orders) /\ IsFiniteSet(Orders)
  BY <1>4, OrderPaymentAssumption DEF Integral
<1>6. SumFunctionOnSet(f, Orders) = 0
  BY <1>4, <1>5, SumZero, Zenon
<1>7. InitStock[v] \in Nat /\ stock[v] = InitStock[v]
  BY OrderPaymentAssumption, Zenon DEF Init
<1>8. Max({0, InitStock[v] - 0}) = InitStock[v]
  BY <1>7, MaxOfTwo
<1> QED BY <1>2, <1>3, <1>6, <1>7, <1>8, Zenon

LEMMA StockStep == IInv /\ IInv' /\ StockAccounts /\ [Next]_vars => StockAccounts'
<1> SUFFICES ASSUME IInv, IInv', StockAccounts, [Next]_vars PROVE StockAccounts'
  BY Zenon
<1> USE DEF voucherVars, shopVars, webhookVars
<1>1. CASE UNCHANGED <<stock, settles>>
  BY <1>1, Zenon DEF StockAccounts
<1>2. ASSUME NEW h \in Handlers, Commit(h) PROVE StockAccounts'
  <2>1. CASE shouldSettle(h)
    BY <1>2, <2>1, CommitStock, Zenon
  <2>2. CASE ~shouldSettle(h)
    BY <1>1, <1>2, <2>2, Zenon DEF Commit
  <2> QED BY <2>1, <2>2, Zenon
<1>3. ASSUME NEW h \in Handlers,
             \/ \E n \in Notes : Receive(h, n)
             \/ ReadPayment(h) \/ UpdatePayment(h) \/ UpdateOrderPaid(h)
             \/ DecrementVariantStock(h) \/ SettleLookup(h) \/ InsertVoucherUsage(h)
             \/ IncreaseVoucherUsedCount(h) \/ UpdateOrderCanceled(h) \/ Emit(h) \/ Abort(h)
      PROVE  UNCHANGED <<stock, settles>>
  BY <1>3, Zenon DEF Receive, ReadPayment, UpdatePayment, UpdateOrderPaid,
              DecrementVariantStock, SettleLookup, InsertVoucherUsage, IncreaseVoucherUsedCount,
              UpdateOrderCanceled, Emit, Abort
<1>4. ASSUME NEW o \in Orders,
             \/ Create(o) \/ CreateIntentRead(o) \/ CreateIntentCheck(o) \/ CreateIntentInsert(o)
             \/ IntentExpires(o) \/ CancelRead(o) \/ CancelWrite(o)
             \/ \E target \in OrderStatuses : PatchStatus(o, target)
      PROVE  UNCHANGED <<stock, settles>>
  BY <1>4, Zenon DEF Create, CreateIntentRead, CreateIntentCheck, CreateIntentInsert, IntentExpires,
              CancelRead, CancelWrite, PatchStatus
<1>5. ASSUME NEW n \in Notes, ReplayExpires(n) PROVE UNCHANGED <<stock, settles>>
  BY <1>5, Zenon DEF ReplayExpires
<1>6. ASSUME UNCHANGED vars PROVE UNCHANGED <<stock, settles>>
  BY <1>6, Zenon DEF vars
<1> QED BY <1>1, <1>2, <1>3, <1>4, <1>5, <1>6, Zenon DEF Next, HandlerStep

\* For any orders, quantities and number of handlers: the stock is what the
\* committed settlements leave of it. DecrementVariantStock floors it at zero at
\* each settlement, and that is the same as flooring it once at the end.
THEOREM StockIsAccountedFor == Spec => []StockAccounts
  BY InitStockAccounts, StockStep, IInvAlways, PTL DEF Spec

============================================================================
