--------------------------- MODULE OrderPayment ---------------------------
(***************************************************************************)
(* Orders and their payments: checkout, payment intents, the provider's    *)
(* payment notifications, cancellation by the user, status changes by an   *)
(* administrator, stock and voucher settlement.                            *)
(*                                                                         *)
(* A notification is handled inside one READ COMMITTED transaction.  Its   *)
(* writes become visible at Commit; from the UPDATE of a row to the end of *)
(* the transaction the row is locked and every other UPDATE of it waits.   *)
(* Plain reads see the committed state and never wait.  Everything else,   *)
(* the voucher settlement inside the handler included, runs statement by   *)
(* statement on the pool.                                                  *)
(***************************************************************************)
EXTENDS OrderStatus, Sequences, FiniteSets, FiniteSetsExt, Functions

CONSTANTS
    Orders,             \* orders that may be checked out
    Variants,           \* product variants
    Items,              \* Items[o]: the variants of order o, in the order they are updated
    Qty,                \* Qty[o][v]: how many of v order o buys
    InitStock,          \* InitStock[v]
    VoucherOrders,      \* the orders whose cart carries the voucher code
    UsageLimit,         \* the voucher's usage_limit
    Notes,              \* distinct notification bodies of the providers
    NoteOrder,          \* NoteOrder[n]: the order notification n is about
    NoteProvider,       \* NoteProvider[n]: midtrans or xendit
    NoteStatus,         \* NoteStatus[n]: the status word in the provider's vocabulary
    AmountMatches,      \* AmountMatches[n]: the notified amount is the order's total
    Handlers,           \* notification requests in progress at the same time
    PoolSize,           \* connections of the database pool (DB_MAX_OPEN_CONNS)
    MaxPayments,        \* bound: payments per order
    MaxDeliveries       \* bound: times a body passes the replay guard

ASSUME OrderPaymentAssumption ==
    /\ Items \in [Orders -> Seq(Variants)]
    /\ Qty \in [Orders -> [Variants -> Nat]]
    /\ InitStock \in [Variants -> Nat]
    /\ VoucherOrders \subseteq Orders
    /\ IsFiniteSet(Orders)
    /\ UsageLimit \in Nat
    /\ PoolSize \in Nat
    /\ NoteOrder \in [Notes -> Orders]
    /\ AmountMatches \in [Notes -> BOOLEAN]
    /\ MaxPayments \in Nat
    /\ MaxDeliveries \in Nat

VARIABLES
    orders,         \* orders.status, "none" before checkout
    discounted,     \* orders checked out with the voucher's discount
    payments,       \* payments rows per order, oldest first: [status, live]
    asking,         \* orders that CreateIntent calls in progress have read as pending
    intents,        \* CreateIntent calls past their checks, per order
    canceling,      \* orders that Cancel calls in progress have read as pending
    tx,             \* the handlers' transactions
    replay,         \* bodies whose replay key is in Redis
    passed,         \* how often each body passed the replay guard
    stock,          \* variants.stock
    usages,         \* orders with a voucher_usages row
    usedCount,      \* vouchers.used_count
    announced,      \* domain events: <<order, topic>>
    settles         \* history: committed settlements per order

webhookVars == <<tx, replay, passed, announced, settles>>
shopVars == <<discounted, asking, intents, canceling>>
voucherVars == <<usages, usedCount>>
vars == <<orders, payments, stock, webhookVars, shopVars, voucherVars>>

---------------------------------------------------------------------------
PaymentStatuses == {"PENDING", "PAID", "FAILED", "EXPIRED", "REFUNDED"}

normaliseMidtransStatus(word) ==
    CASE word \in {"capture", "settlement"} -> "PAID"
      [] word \in {"deny", "cancel"} -> "FAILED"
      [] word = "expire" -> "EXPIRED"
      [] word = "refund" -> "REFUNDED"
      [] OTHER -> "PENDING"

normaliseXenditStatus(word) ==
    CASE word \in {"paid", "settled", "success"} -> "PAID"
      [] word \in {"failed", "canceled"} -> "FAILED"
      [] word = "expired" -> "EXPIRED"
      [] OTHER -> "PENDING"

normaliseWebhookStatus(status) ==
    CASE status \in {"PAID", "SUCCESS", "SETTLED"} -> "PAID"
      [] status \in {"FAILED", "CANCELED", "DENY"} -> "FAILED"
      [] status = "EXPIRED" -> "EXPIRED"
      [] OTHER -> "PENDING"

\* What VerifyWebhook and the handler make of a body's status word.
NewStatus(n) ==
    normaliseWebhookStatus(IF NoteProvider[n] = "midtrans"
                           THEN normaliseMidtransStatus(NoteStatus[n])
                           ELSE normaliseXenditStatus(NoteStatus[n]))

---------------------------------------------------------------------------
(* A handler's record: where it is; the body; the payment it read, with    *)
(* the status it read; the status it has written to the order row, if any; *)
(* how many items it has taken from stock.                                 *)

Places == {"idle", "read", "update", "order", "stock", "voucher", "insert",
           "increase", "cancel", "commit", "emit"}
Idle == [at |-> "idle", note |-> "none", pay |-> 0, seen |-> "PENDING",
         wrote |-> "none", item |-> 0]

OrderOf(h) == NoteOrder[tx[h].note]
Active(h) == tx[h].at # "idle"

InTransaction(h) == tx[h].at \in {"update", "order", "stock", "voucher", "insert",
                                  "increase", "cancel", "commit"}

\* An open transaction keeps its connection, so a statement on the pool needs
\* another one.  (The short statements of the other requests are not counted.)
ConnFree == Cardinality({h \in Handlers : InTransaction(h)}) < PoolSize

\* Row locks held by the open transactions.
PaymentLocked(o, i) ==
    \E h \in Handlers :
        InTransaction(h) /\ tx[h].at # "update" /\ OrderOf(h) = o /\ tx[h].pay = i
OrderLocked(o) ==
    \E h \in Handlers : InTransaction(h) /\ OrderOf(h) = o /\ tx[h].wrote # "none"
VariantHolders(v) ==
    {h \in Handlers : InTransaction(h) /\ \E k \in 1..tx[h].item : Items[OrderOf(h)][k] = v}

Init ==
    /\ orders = [o \in Orders |-> "none"]
    /\ discounted = {}
    /\ payments = [o \in Orders |-> <<>>]
    /\ asking = {}
    /\ intents = [o \in Orders |-> 0]
    /\ canceling = {}
    /\ tx = [h \in Handlers |-> Idle]
    /\ replay = {}
    /\ passed = [n \in Notes |-> 0]
    /\ stock = InitStock
    /\ usages = {}
    /\ usedCount = 0
    /\ announced = {}
    /\ settles = [o \in Orders |-> 0]

---------------------------------------------------------------------------
(* Checkout, intents, cancellation and administration.                     *)

\* checkout.Service.Create: the order row and its items in one transaction; a
\* voucher that does not validate only loses its discount, not its code.
Create(o) ==
    /\ orders[o] = "none"
    /\ orders' = [orders EXCEPT ![o] = "PENDING_PAYMENT"]
    /\ discounted' = IF o \in VoucherOrders /\ usedCount < UsageLimit
                     THEN discounted \cup {o} ELSE discounted
    /\ UNCHANGED <<payments, stock, webhookVars, voucherVars, asking, intents, canceling>>

Latest(o) == payments[o][Len(payments[o])]

\* CreateIntent reads the order: it must await payment.  Any number of calls
\* may have read it; none of them is stopped by a later change.
CreateIntentRead(o) ==
    /\ orders[o] = "PENDING_PAYMENT"
    /\ asking' = asking \cup {o}
    /\ UNCHANGED <<orders, payments, stock, webhookVars, voucherVars, discounted, intents, canceling>>

\* It then reads the latest payment, reuses one that is pending and live, and
\* otherwise asks the provider.
CreateIntentCheck(o) ==
    /\ o \in asking
    /\ payments[o] # <<>> =>
           Latest(o).status # "PAID" /\ ~(Latest(o).status = "PENDING" /\ Latest(o).live)
    /\ Len(payments[o]) + intents[o] < MaxPayments
    /\ intents' = [intents EXCEPT ![o] = @ + 1]
    /\ UNCHANGED <<orders, payments, stock, webhookVars, voucherVars, discounted, asking, canceling>>

\* CreatePayment.
CreateIntentInsert(o) ==
    /\ intents[o] > 0
    /\ intents' = [intents EXCEPT ![o] = @ - 1]
    /\ payments' = [payments EXCEPT ![o] = Append(@, [status |-> "PENDING", live |-> TRUE])]
    /\ UNCHANGED <<orders, stock, webhookVars, voucherVars, discounted, asking, canceling>>

\* A payment's expires_at passes.
IntentExpires(o) ==
    /\ \E i \in 1..Len(payments[o]) :
          /\ payments[o][i].live
          /\ payments' = [payments EXCEPT ![o][i].live = FALSE]
    /\ UNCHANGED <<orders, stock, webhookVars, voucherVars, shopVars>>

\* order.Handler.Cancel reads the order and checks that it is pending (any
\* number of calls may have) ...
CancelRead(o) ==
    /\ orders[o] = "PENDING_PAYMENT"
    /\ canceling' = canceling \cup {o}
    /\ UNCHANGED <<orders, payments, stock, webhookVars, voucherVars, discounted, asking, intents>>

\* ... and updates it, whatever it has become meanwhile.
CancelWrite(o) ==
    /\ o \in canceling
    /\ ~OrderLocked(o)
    /\ orders' = [orders EXCEPT ![o] = "CANCELED"]
    /\ UNCHANGED <<payments, stock, webhookVars, voucherVars, shopVars>>

\* AdminHandler.PatchStatus.  The rank check on the status read first only
\* refuses more than the UPDATE's own WHERE clause for the target CANCELED, so
\* read and UPDATE are one step.
PatchStatus(o, target) ==
    /\ isAllowedAdminTarget(target)
    /\ orders[o] # "none"
    /\ ~(orderStatusRank(orders[o]) >= orderStatusRank(target))
    /\ ~OrderLocked(o)
    /\ UpdateAllowed(orders[o], target)
    /\ orders' = [orders EXCEPT ![o] = target]
    /\ UNCHANGED <<payments, stock, webhookVars, voucherVars, shopVars>>

---------------------------------------------------------------------------
(* payment.Webhook.Handle, statement by statement.                         *)

Goto(h, place) == tx' = [tx EXCEPT ![h].at = place]
Finish(h) == tx' = [tx EXCEPT ![h] = Idle]

\* A verified body takes its replay key; while the key lives it is refused.
Receive(h, n) ==
    /\ ~Active(h)
    /\ n \notin replay
    /\ passed[n] < MaxDeliveries
    /\ replay' = replay \cup {n}
    /\ passed' = [passed EXCEPT ![n] = @ + 1]
    /\ tx' = [tx EXCEPT ![h] = [Idle EXCEPT !.at = "read", !.note = n]]
    /\ UNCHANGED <<orders, payments, stock, announced, settles, shopVars, voucherVars>>

\* The replay key's TTL ends.
ReplayExpires(n) ==
    /\ n \in replay
    /\ replay' = replay \ {n}
    /\ UNCHANGED <<orders, payments, stock, tx, passed, announced, settles, shopVars, voucherVars>>

\* BeginTx, GetLatestPaymentByOrder without a lock, and the checks on it.
ReadPayment(h) ==
    /\ tx[h].at = "read"
    /\ ConnFree
    /\ LET o == OrderOf(h) IN
       \/ /\ payments[o] = <<>> \/ ~AmountMatches[tx[h].note]
          /\ Finish(h)
       \/ /\ payments[o] # <<>> /\ AmountMatches[tx[h].note]
          /\ tx' = [tx EXCEPT ![h].at = "update", ![h].pay = Len(payments[o]),
                              ![h].seen = Latest(o).status]
    /\ UNCHANGED <<orders, payments, stock, replay, passed, announced, settles, shopVars, voucherVars>>

\* Mutant: only a pending payment is settled.
shouldSettle_OnlyPending(h) == NewStatus(tx[h].note) = "PAID" /\ tx[h].seen = "PENDING"

shouldSettle(h) == NewStatus(tx[h].note) = "PAID" /\ tx[h].seen # "PAID"

\* UpdatePaymentStatus, then GetOrderByID and the branch on what it returns.
UpdatePayment(h) ==
    /\ tx[h].at = "update"
    /\ ~PaymentLocked(OrderOf(h), tx[h].pay)
    /\ \/ shouldSettle(h) /\ Goto(h, "order")
       \/ /\ NewStatus(tx[h].note) \in {"FAILED", "EXPIRED"}
          /\ orders[OrderOf(h)] = "PENDING_PAYMENT"
          /\ Goto(h, "cancel")
       \/ /\ ~shouldSettle(h)
          /\ ~(/\ NewStatus(tx[h].note) \in {"FAILED", "EXPIRED"}
               /\ orders[OrderOf(h)] = "PENDING_PAYMENT")
          /\ Goto(h, "commit")
    /\ UNCHANGED <<orders, payments, stock, replay, passed, announced, settles, shopVars, voucherVars>>

AfterItem(o, k) ==
    IF k < Len(Items[o]) THEN "stock" ELSE IF o \in VoucherOrders THEN "voucher" ELSE "commit"

\* Settlement: UpdateOrderStatus(PAID), unconditionally.
UpdateOrderPaid(h) ==
    /\ tx[h].at = "order"
    /\ ~OrderLocked(OrderOf(h))
    /\ tx' = [tx EXCEPT ![h].at = AfterItem(OrderOf(h), 0), ![h].wrote = "PAID"]
    /\ UNCHANGED <<orders, payments, stock, replay, passed, announced, settles, shopVars, voucherVars>>

\* DecrementVariantStock for the next item.
DecrementVariantStock(h) ==
    /\ tx[h].at = "stock"
    /\ LET k == tx[h].item + 1 IN
       /\ VariantHolders(Items[OrderOf(h)][k]) = {}
       /\ tx' = [tx EXCEPT ![h].at = AfterItem(OrderOf(h), k), ![h].item = k]
    /\ UNCHANGED <<orders, payments, stock, replay, passed, announced, settles, shopVars, voucherVars>>

\* Mutant: the usage of an earlier settlement is not looked for.
SettleLookup_Skipped(h) ==
    /\ tx[h].at = "voucher"
    /\ ConnFree
    /\ Goto(h, "insert")
    /\ UNCHANGED <<orders, payments, stock, replay, passed, announced, settles, shopVars, voucherVars>>

\* voucher.Service.Settle, on the pool: look for a usage of this order, ...
SettleLookup(h) ==
    /\ tx[h].at = "voucher"
    /\ ConnFree
    /\ Goto(h, IF OrderOf(h) \in usages THEN "commit" ELSE "insert")
    /\ UNCHANGED <<orders, payments, stock, replay, passed, announced, settles, shopVars, voucherVars>>

\* Mutant: the foreign key check waits for the order row (as it would had the
\* transaction locked it FOR UPDATE).
InsertVoucherUsage_WaitsForOrder(h) ==
    /\ tx[h].at = "insert"
    /\ ConnFree
    /\ ~OrderLocked(OrderOf(h))
    /\ usages' = usages \cup {OrderOf(h)}
    /\ Goto(h, "increase")
    /\ UNCHANGED <<orders, payments, stock, replay, passed, announced, settles, shopVars, usedCount>>

\* ... InsertVoucherUsage (ON CONFLICT DO NOTHING), ...
InsertVoucherUsage(h) ==
    /\ tx[h].at = "insert"
    /\ ConnFree
    /\ usages' = usages \cup {OrderOf(h)}
    /\ Goto(h, "increase")
    /\ UNCHANGED <<orders, payments, stock, replay, passed, announced, settles, shopVars, usedCount>>

\* ... IncreaseVoucherUsedCount, up to the limit.
IncreaseVoucherUsedCount(h) ==
    /\ tx[h].at = "increase"
    /\ ConnFree
    /\ usedCount' = IF usedCount < UsageLimit THEN usedCount + 1 ELSE usedCount
    /\ Goto(h, "commit")
    /\ UNCHANGED <<orders, payments, stock, replay, passed, announced, settles, shopVars, usages>>

\* A failed or expired payment cancels the order that was read as pending.
UpdateOrderCanceled(h) ==
    /\ tx[h].at = "cancel"
    /\ ~OrderLocked(OrderOf(h))
    /\ tx' = [tx EXCEPT ![h].at = "commit", ![h].wrote = "CANCELED"]
    /\ UNCHANGED <<orders, payments, stock, replay, passed, announced, settles, shopVars, voucherVars>>

\* Mutant: no floor at zero.
Take_NoFloor(have, qty) == have - qty

\* GREATEST(0, stock - qty)
Take(have, qty) == IF have >= qty THEN have - qty ELSE 0

\* The transaction's writes become visible together.
Commit(h) ==
    /\ tx[h].at = "commit"
    /\ LET o == OrderOf(h) IN
       /\ payments' = [payments EXCEPT ![o][tx[h].pay].status = NewStatus(tx[h].note)]
       /\ orders' = IF tx[h].wrote = "none" THEN orders
                    ELSE [orders EXCEPT ![o] = tx[h].wrote]
       /\ IF shouldSettle(h)
          THEN /\ stock' = [v \in Variants |-> Take(stock[v], Qty[o][v])]
               /\ settles' = [settles EXCEPT ![o] = @ + 1]
          ELSE UNCHANGED <<stock, settles>>
    /\ Goto(h, "emit")
    /\ UNCHANGED <<replay, passed, announced, shopVars, voucherVars>>

Topics(h) ==
    CASE NewStatus(tx[h].note) = "PAID" -> {"order.paid"}
      [] NewStatus(tx[h].note) = "FAILED" -> {"payment.failed"}
      [] NewStatus(tx[h].note) = "EXPIRED" -> {"payment.expired"}
      [] OTHER -> {}

\* Events.Emit after the commit.
Emit(h) ==
    /\ tx[h].at = "emit"
    /\ ConnFree
    /\ announced' = announced
           \cup {<<OrderOf(h), t>> : t \in Topics(h) \cup
                    (IF tx[h].wrote = "CANCELED" THEN {"order.canceled"} ELSE {})}
    /\ Finish(h)
    /\ UNCHANGED <<orders, payments, stock, replay, passed, settles, shopVars, voucherVars>>

\* Mutant: the error of the commit is ignored.
Abort_CommitErrorIgnored(h) ==
    /\ Active(h)
    /\ IF tx[h].at = "commit" THEN Goto(h, "emit") ELSE Finish(h)
    /\ UNCHANGED <<orders, payments, stock, replay, passed, announced, settles, shopVars, voucherVars>>

\* A statement fails, the request is cancelled or the process dies: an open
\* transaction rolls back; the replay key and the voucher's rows stay.
Abort(h) ==
    /\ Active(h)
    /\ Finish(h)
    /\ UNCHANGED <<orders, payments, stock, replay, passed, announced, settles, shopVars, voucherVars>>

HandlerStep(h) ==
    \/ ReadPayment(h) \/ UpdatePayment(h) \/ UpdateOrderPaid(h) \/ DecrementVariantStock(h)
    \/ SettleLookup(h) \/ InsertVoucherUsage(h) \/ IncreaseVoucherUsedCount(h)
    \/ UpdateOrderCanceled(h) \/ Commit(h) \/ Emit(h)

Next ==
    \/ \E o \in Orders : \/ Create(o) \/ CreateIntentRead(o) \/ CreateIntentCheck(o)
                         \/ CreateIntentInsert(o) \/ IntentExpires(o) \/ CancelRead(o) \/ CancelWrite(o)
                         \/ \E target \in OrderStatuses : PatchStatus(o, target)
    \/ \E n \in Notes : ReplayExpires(n) \/ \E h \in Handlers : Receive(h, n)
    \/ \E h \in Handlers : HandlerStep(h) \/ Abort(h)

Spec == Init /\ [][Next]_vars

\* The transactions h waits for: those holding the variant it updates next.
WaitsFor(h) == IF tx[h].at = "stock" THEN VariantHolders(Items[OrderOf(h)][tx[h].item + 1]) ELSE {}

\* Postgres finds a cycle of transactions that wait for each other and fails a
\* statement of one of them.
DeadlockAbort(h) ==
    /\ \E cycle \in SUBSET Handlers :
          h \in cycle /\ \A g \in cycle : WaitsFor(g) \cap cycle # {}
    /\ Abort(h)

\* A handler proceeds unless it waits for a lock or a connection; nothing but a
\* lost client or process ends a request from outside.
FairSpec == Spec /\ \A h \in Handlers : WF_vars(HandlerStep(h)) /\ WF_vars(DeadlockAbort(h))

---------------------------------------------------------------------------
(* Properties.                                                             *)

Payment == [status : PaymentStatuses, live : BOOLEAN]

Transaction == [at : Places, note : Notes \cup {"none"}, pay : Nat, seen : PaymentStatuses,
                wrote : {"none", "PAID", "CANCELED"}, item : Nat]

TypeOK ==
    /\ orders \in [Orders -> OrderStatuses \cup {"none"}]
    /\ discounted \subseteq VoucherOrders
    /\ payments \in [Orders -> Seq(Payment)]
    /\ asking \subseteq Orders
    /\ intents \in [Orders -> Nat]
    /\ canceling \subseteq Orders
    /\ tx \in [Handlers -> Transaction]
    /\ replay \subseteq Notes
    /\ passed \in [Notes -> Nat]
    /\ stock \in [Variants -> Nat]
    /\ usages \subseteq VoucherOrders
    /\ usedCount \in 0..UsageLimit
    /\ announced \subseteq Orders \X {"order.paid", "payment.failed", "payment.expired",
                                     "order.canceled"}
    /\ settles \in [Orders -> Nat]

\* Nothing is paid, packed or shipped unless a settlement of the order was
\* committed, whatever notifications, cancellations and administrators do.
FulfilledOnlyIfSettled == \A o \in Orders : orders[o] \in Fulfilment => settles[o] > 0

\* A payment row says PAID only if the order has been settled, also when the
\* handler that wrote it skipped the settlement because it read PAID before;
\* and a settled order never awaits payment again, so that CreateIntent
\* refuses it.
PaidMeansSettled ==
    \A o \in Orders :
        /\ \A i \in 1..Len(payments[o]) : payments[o][i].status = "PAID" => settles[o] > 0
        /\ settles[o] > 0 => orders[o] \notin {"none", "PENDING_PAYMENT"}

\* Subscribers only hear of what was committed: order.paid implies a
\* settlement, order.canceled that the order left PENDING_PAYMENT for good.
AnnouncedIsCommitted ==
    \A o \in Orders :
        /\ <<o, "order.paid">> \in announced => settles[o] > 0
        /\ <<o, "order.canceled">> \in announced => orders[o] \notin {"none", "PENDING_PAYMENT"}

\* Settle is idempotent although it runs outside the transaction: concurrent
\* and repeated settlements of an order count the voucher once.
VoucherCountedOnce == usedCount <= Cardinality(usages)

\* No decrement is lost and none is taken twice, when settlements of different
\* orders race for the same variants: the stock is what the committed
\* settlements leave of the initial stock, never below zero.
StockAccounts ==
    \A v \in Variants :
        stock[v] = Max({0, InitStock[v] - SumFunction([o \in Orders |-> settles[o] * Qty[o][v]])})

\* Everything that is done to an order here is a step that the other components
\* expect: a settlement, a cancellation or one stage of its fulfilment.
Row == INSTANCE OrderRow WITH Orders <- Orders, orders <- orders, settles <- settles
ImplementsOrderRow == Row!Spec

\* Every notification is answered: no wait for a row lock, for the voucher's
\* statements on a second connection or inside a deadlock lasts for ever.
HandlersFinish == \A h \in Handlers : Active(h) ~> ~Active(h)

===========================================================================
