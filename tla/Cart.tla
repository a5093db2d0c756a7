-------------------------------- MODULE Cart --------------------------------
(***************************************************************************)
(* Carts, voucher rows and checkout (internal/cart, internal/voucher,      *)
(* internal/checkout).  Requests run concurrently, each SQL statement is a *)
(* step (the first one is the step that starts the request), and only      *)
(* checkout uses a transaction, at READ COMMITTED.  A sku is a product     *)
(* with an optional variant.  The catalogue does not change; there is one  *)
(* voucher code.  Titles, slugs and addresses are left out, and so are the *)
(* handlers' answers, which re-read the cart.                              *)
(***************************************************************************)
EXTENDS Voucher, FiniteSets, Sequences

CONSTANTS
    Users, Anons, Handlers,
    Skus,
    Ids,            \* ids of products, categories and brands
    Catalog,        \* the product row of each sku: product, category, brand, price, variant
    Quantities,     \* quantities a request may ask for
    Half,           \* half the range of the quantity column (INT: 2^31)
    Rules,          \* voucher payloads an administrator may send
    TaxBps, ShippingPrices,
    Carts0, Items0, Vouchers0,  \* the rows the requests find
    MaxCarts, MaxItems, MaxRequests,
    MaxEvents       \* bound: failures, expiries and changes of the voucher

CartIds == 1..MaxCarts

\* The columns of carts, cart_items and vouchers.
CartRows == [user : Users \union {None}, anon : Anons \union {None}, applied : BOOLEAN, live : BOOLEAN]
ItemRows == [id : Nat, cart : CartIds, sku : Skus, qty : 1..(Half - 1), price : Nat, subtotal : Nat]
RuleRows(kinds) ==
    [kind : kinds, value : Int, percentBps : Int \union {None}, minSpend : Int,
     usageLimit : Int \union {None}, usedCount : Nat, perUserLimit : Int \union {None},
     window : {"early", "open", "past"},
     products : SUBSET Ids, categories : SUBSET Ids, brands : SUBSET Ids]
StoredRules == RuleRows({"fixed_amount", "percent"})

ASSUME CartConstants ==
    /\ None \notin Users \union Anons \union Nat \union Ids
    /\ Quantities \subseteq Nat \ {0} /\ Half \in Nat \ {0}
    /\ Catalog \in [Skus -> [product : Ids, category : Ids \union {None}, brand : Ids \union {None},
                             price : Int, variant : BOOLEAN]]
    /\ \A v \in Rules : v \in RuleRows(STRING \union {None})
    /\ TaxBps \in Nat /\ DefaultPerUserLimit \in Int /\ ShippingPrices \subseteq Int
    /\ {MaxCarts, MaxItems, MaxRequests, MaxEvents} \subseteq Nat

\* The requests find rows that requests which did not race left: a cart has
\* an owner, an item row has a cart, and no two of a cart are for one sku.
ASSUME RowsFound ==
    /\ Carts0 \in Seq(CartRows) /\ Len(Carts0) <= MaxCarts
    /\ \A c \in 1..Len(Carts0) : Carts0[c].user # None \/ Carts0[c].anon # None
    /\ IsFiniteSet(Items0) /\ Items0 \subseteq ItemRows /\ Cardinality(Items0) <= MaxItems
    /\ \A i \in Items0 : i.id \in 1..Cardinality(Items0) /\ i.cart <= Len(Carts0)
    /\ \A i, j \in Items0 : i.id = j.id \/ (i.cart = j.cart /\ i.sku = j.sku) => i = j
    /\ Vouchers0 \subseteq StoredRules \union {None}

VARIABLES
    carts,      \* the rows of carts
    recent,     \* the order of updated_at: <<c, d>> when c was updated before d
    items,      \* the rows of cart_items
    made,       \* number of item rows created so far
    voucher,    \* the voucher's row, or None
    uses,       \* rows of voucher_usages of each user
    orders,     \* the orders checked out
    req,        \* the request each handler works on
    \* History: what each cart should hold of each sku if requests ran one
    \* after the other, the places where a write overtook another request's
    \* read, and the numbers of requests and of other events.
    due, raced, served, events

db == <<carts, recent, items, made, voucher, uses, orders>>
ledger == <<due, raced>>
counts == <<served, events>>
vars == <<db, req, ledger, counts>>

NoCart == [user |-> None, anon |-> None, applied |-> FALSE, live |-> FALSE]
NoItem == [id |-> 0, cart |-> 0, sku |-> None, qty |-> 0, price |-> 0, subtotal |-> 0]
NoReq == [at |-> "idle", kind |-> "none", user |-> None, anon |-> None, cart |-> 0, guest |-> 0,
          sku |-> None, qty |-> 0, item |-> NoItem, seen |-> {}, todo |-> {}, lines |-> {},
          rated |-> {}, discount |-> 0, applied |-> FALSE, rule |-> None, disturbed |-> {}]

FindCartItemByProductVariant(c, s) == {i \in items : i.cart = c /\ i.sku = s}
Sum(rows) == SumFunction([i \in rows |-> i.qty])

Init ==
    /\ voucher \in Vouchers0
    /\ carts = [c \in CartIds |->
                   IF c > Len(Carts0) THEN NoCart
                   ELSE [Carts0[c] EXCEPT !.applied = @ /\ voucher # None]]
    /\ recent = {p \in CartIds \X CartIds : p[1] < p[2] /\ p[2] <= Len(Carts0)}
    /\ items = Items0 /\ made = Cardinality(Items0)
    /\ uses = [u \in Users |-> 0]
    /\ orders = {}
    /\ req = [h \in Handlers |-> NoReq]
    /\ due = [c \in CartIds |-> [s \in Skus |-> Sum(FindCartItemByProductVariant(c, s))]] /\ raced = {}
    /\ served = 0 /\ events = 0

----------------------------------------------------------------------------
\* The statements of carts.sql, cart_items.sql, vouchers.sql and orders.sql.

GetCartByID(c) == carts[c] # NoCart

\* updated_at = now()
Updated(c) == recent' = {p \in recent : p[1] # c} \union {<<d, c>> : d \in {e \in CartIds : e # c /\ GetCartByID(e)}}

CreateCart(c, user, anon) ==
    /\ carts' = [carts EXCEPT ![c] = [NoCart EXCEPT !.user = user, !.anon = anon, !.live = TRUE]]
    /\ Updated(c)
TouchCart(c, live) == carts' = [carts EXCEPT ![c].live = live] /\ Updated(c)
UpdateCartVoucher(c, applied) == carts' = [carts EXCEPT ![c].applied = applied] /\ Updated(c)
TransferCartToUser(c, user) ==
    carts' = [carts EXCEPT ![c].user = user, ![c].anon = None] /\ Updated(c)
\* ORDER BY updated_at DESC LIMIT 1: no row when there is none, else the one.
Newest(C) == {c \in C : \A d \in C \ {c} : <<d, c>> \in recent}
GetActiveCartByUser(u) == Newest({c \in CartIds : carts[c].user = u /\ carts[c].live})
GetActiveCartByAnon(a) == Newest({c \in CartIds : carts[c].anon = a /\ carts[c].live})

CreateCartItem(c, s, qty, price, subtotal) ==
    /\ made < MaxItems /\ made' = made + 1
    /\ items' = items \union {[id |-> made', cart |-> c, sku |-> s, qty |-> qty, price |-> price,
                               subtotal |-> subtotal]}
UpdateCartItemQty(id, qty, subtotal) ==
    items' = {IF i.id = id THEN [i EXCEPT !.qty = qty, !.subtotal = subtotal] ELSE i : i \in items}
DeleteCartItem(id, c) == items' = {i \in items : ~(i.id = id /\ i.cart = c)}
GetCartItemByID(id) == {i \in items : i.id = id}
ListCartItems(c) == {i \in items : i.cart = c}

GetProductForCart(s) == Catalog[s]
GetVariantForCart(s, stock) == Catalog[s].variant => stock > 0
GetVoucherByCode == voucher
CountVoucherUsageByUser(u) == IF u = None THEN 0 ELSE uses[u]
CreateVoucher(v) == voucher' = [v EXCEPT !.usedCount = 0]
UpdateVoucher(v) == voucher' = [v EXCEPT !.usedCount = voucher.usedCount]
CreateOrder(o) == orders' = orders \union {o}

----------------------------------------------------------------------------
\* Mutant: the quantity is written as it was sent.
Int32_Wide(n) == n

\* A quantity as the INT column holds it; CHECK (qty > 0) refuses the rest.
Int32(n) == ((n + Half) % (2 * Half)) - Half
Fits(qty) == Int32(qty) > 0

\* A row of cart_items as the voucher rules and the prices see it.
Line(i) == [id |-> i.id, product |-> Catalog[i.sku].product, category |-> Catalog[i.sku].category,
            brand |-> Catalog[i.sku].brand, qty |-> i.qty, price |-> i.price, subtotal |-> i.subtotal]
Lines(rows) == {Line(i) : i \in rows}

Begin(h, r) ==
    /\ req[h].at = "idle" /\ served < MaxRequests
    /\ served' = served + 1
    /\ req' = [req EXCEPT ![h] = r]
    /\ UNCHANGED events
Step(h, r) == req' = [req EXCEPT ![h] = r] /\ UNCHANGED counts
Go(h, at) == Step(h, [req[h] EXCEPT !.at = at])
Done(h) == Step(h, NoReq)

\* Handler h changes the rows of sku s in cart c: what the cart should hold is
\* now n; a write on other rows than the handler had seen is a race.
Write(h, c, s, n, seen, r) ==
    /\ req' = [g \in Handlers |->
                  IF g = h THEN r
                  ELSE IF req[g].kind = "merge" /\ req[g].cart = c
                       THEN [req[g] EXCEPT !.disturbed = @ \union {s}] ELSE req[g]]
    /\ due' = [due EXCEPT ![c][s] = n]
    /\ raced' = IF seen = FindCartItemByProductVariant(c, s) THEN raced ELSE raced \union {<<c, s>>}
    /\ UNCHANGED <<carts, recent, voucher, uses, orders, counts>>

----------------------------------------------------------------------------
\* EnsureCart, for POST /carts, GET /carts/active and Merge.
EnsureGet(r) ==
    LET found == IF r.user # None THEN GetActiveCartByUser(r.user) ELSE GetActiveCartByAnon(r.anon)
    IN  IF found = {} THEN {[r EXCEPT !.at = "create"]}
        ELSE {[r EXCEPT !.at = "touch ensured", !.cart = c] : c \in found}

Ensured(h, c) ==
    IF req[h].kind = "merge" THEN Step(h, [req[h] EXCEPT !.cart = c, !.at = "list"]) ELSE Done(h)

Ensure(h, user, anon) ==
    /\ \E r \in EnsureGet([NoReq EXCEPT !.kind = "ensure", !.user = user, !.anon = anon]) : Begin(h, r)
    /\ UNCHANGED <<db, ledger>>

EnsureCreate(h) ==
    /\ req[h].at = "create"
    /\ \E c \in CartIds :
         /\ ~GetCartByID(c)
         /\ CreateCart(c, req[h].user, IF req[h].user # None THEN None ELSE req[h].anon)
         /\ Ensured(h, c)
    /\ UNCHANGED <<items, made, voucher, uses, orders, ledger>>

EnsureTouch(h) ==
    /\ req[h].at = "touch ensured"
    /\ TouchCart(req[h].cart, TRUE)
    /\ Ensured(h, req[h].cart)
    /\ UNCHANGED <<items, made, voucher, uses, orders, ledger>>

\* The TouchCart at the end of the other requests.
Touch(h) ==
    /\ req[h].at = "touch"
    /\ TouchCart(req[h].cart, TRUE)
    /\ Done(h)
    /\ UNCHANGED <<items, made, voucher, uses, orders, ledger>>

----------------------------------------------------------------------------
\* POST /carts/{id}/items.  A product or variant that is not there, belongs
\* to another product or is out of stock ends the request; so does a cart
\* that is not there (a foreign key).
AddItem(h, c, s, qty, stock) ==
    LET rows == FindCartItemByProductVariant(c, s)
        r    == [NoReq EXCEPT !.kind = "add", !.cart = c, !.sku = s, !.qty = qty, !.seen = rows]
    IN  /\ GetCartByID(c)
        /\ \/ \E i \in rows : Begin(h, [r EXCEPT !.at = "increment", !.item = i])
           \/ /\ rows = {} /\ GetVariantForCart(s, stock)
              /\ Begin(h, [r EXCEPT !.at = "insert"])
        /\ UNCHANGED <<db, ledger>>

\* Mutant: the quantity asked for replaces the one in the cart.
AddIncrement_Replaces(h) ==
    LET r == req[h]
    IN  /\ r.at = "increment"
        /\ GetCartItemByID(r.item.id) # {} /\ Fits(r.qty)
        /\ UpdateCartItemQty(r.item.id, Int32(r.qty), Int32(r.qty) * r.item.price)
        /\ Write(h, r.cart, r.sku, Int32(due[r.cart][r.sku] + r.qty), r.seen, [r EXCEPT !.at = "touch"])
        /\ UNCHANGED made

AddIncrement(h) ==
    LET r == req[h]
        newQty == Int32(r.item.qty + Int32(r.qty))
    IN  /\ r.at = "increment"
        /\ GetCartItemByID(r.item.id) # {} /\ newQty > 0
        /\ UpdateCartItemQty(r.item.id, newQty, newQty * r.item.price)
        /\ Write(h, r.cart, r.sku, Int32(due[r.cart][r.sku] + r.qty), r.seen, [r EXCEPT !.at = "touch"])
        /\ UNCHANGED made

AddInsert(h) ==
    LET r == req[h]
        unitPrice == Max({0, GetProductForCart(r.sku).price})
    IN  /\ r.at = "insert" /\ Fits(r.qty)
        /\ CreateCartItem(r.cart, r.sku, Int32(r.qty), unitPrice, r.qty * unitPrice)
        /\ Write(h, r.cart, r.sku, Int32(due[r.cart][r.sku] + r.qty), r.seen, [r EXCEPT !.at = "touch"])

\* PATCH /carts/{id}/items/{itemId}: the item alone decides which cart.
UpdateQty(h, i, qty) ==
    /\ i \in items
    /\ Begin(h, [NoReq EXCEPT !.at = "update", !.kind = "update", !.item = i, !.cart = i.cart, !.qty = qty])
    /\ UNCHANGED <<db, ledger>>

UpdateWrite(h) ==
    LET r == req[h]
        rows == FindCartItemByProductVariant(r.item.cart, r.item.sku)
    IN  /\ r.at = "update"
        /\ GetCartItemByID(r.item.id) # {} /\ Fits(r.qty)
        /\ UpdateCartItemQty(r.item.id, Int32(r.qty), r.qty * r.item.price)
        /\ Write(h, r.cart, r.item.sku, Int32(r.qty), rows, [r EXCEPT !.at = "touch"])
        /\ UNCHANGED made

\* The write finds no row, or a quantity the column refuses.
WriteRefused(h) ==
    LET r == req[h]
    IN  /\ \/ r.at = "increment" /\ Int32(r.item.qty + Int32(r.qty)) <= 0
           \/ r.at \in {"insert", "update"} /\ ~Fits(r.qty)
           \/ r.at \in {"increment", "update", "raise"} /\ GetCartItemByID(r.item.id) = {}
        /\ Done(h)
        /\ UNCHANGED <<db, ledger>>

\* DELETE /carts/{id}/items/{itemId}.
RemoveItem(h, i) ==
    /\ i \in items
    /\ req[h].at = "idle" /\ served < MaxRequests /\ served' = served + 1
    /\ DeleteCartItem(i.id, i.cart)
    /\ req' = [g \in Handlers |->
                  IF g = h THEN [NoReq EXCEPT !.at = "touch", !.kind = "remove", !.cart = i.cart]
                  ELSE IF req[g].kind = "merge" /\ req[g].cart = i.cart
                       THEN [req[g] EXCEPT !.disturbed = @ \union {i.sku}] ELSE req[g]]
    /\ due' = [due EXCEPT ![i.cart][i.sku] = 0]
    /\ UNCHANGED <<carts, recent, made, voucher, uses, orders, raced, events>>

----------------------------------------------------------------------------
\* POST /carts/{id}/apply-voucher.
ApplyVoucher(h, c) ==
    /\ GetCartByID(c)
    /\ Begin(h, [NoReq EXCEPT !.at = "rate", !.kind = "apply", !.cart = c, !.user = carts[c].user])
    /\ UNCHANGED <<db, ledger>>

\* An evaluation without a result: the voucher is not applied; checkout goes
\* on with no discount.
NotRated(h, r) == IF r.kind = "apply" THEN Done(h) ELSE Step(h, [r EXCEPT !.at = "commit"])

loadCartItems(h) ==
    LET r == [req[h] EXCEPT !.at = "rule", !.rated = Lines(ListCartItems(req[h].cart))]
    IN  /\ req[h].at = "rate"
        /\ IF r.rated = {} THEN NotRated(h, r) ELSE Step(h, r)
        /\ UNCHANGED <<db, ledger>>

RateVoucher(h) ==
    LET r == req[h]
        v == GetVoucherByCode
        e == IF v = None THEN Refused
             ELSE evaluateVoucher(r.rated, v, r.user, CountVoucherUsageByUser(r.user))
    IN  /\ r.at = "rule"
        /\ IF ~e.ok THEN NotRated(h, r)
           ELSE Step(h, [r EXCEPT !.at = IF r.kind = "apply" THEN "attach" ELSE "commit",
                                  !.discount = e.discount, !.rule = v])
        /\ UNCHANGED <<db, ledger>>

AttachVoucher(h) ==
    /\ req[h].at = "attach"
    /\ UpdateCartVoucher(req[h].cart, TRUE)
    /\ Go(h, "touch")
    /\ UNCHANGED <<items, made, voucher, uses, orders, ledger>>

\* DELETE /carts/{id}/voucher.
RemoveVoucher(h, c) ==
    /\ GetCartByID(c)
    /\ Begin(h, [NoReq EXCEPT !.at = "touch", !.kind = "unapply", !.cart = c])
    /\ UpdateCartVoucher(c, FALSE)
    /\ UNCHANGED <<items, made, voucher, uses, orders, ledger>>

----------------------------------------------------------------------------
\* POST /carts/merge.
Merge(h, g, u) ==
    /\ GetCartByID(g)
    /\ Begin(h, [NoReq EXCEPT !.at = "get", !.kind = "merge", !.guest = g, !.user = u])
    /\ UNCHANGED <<db, ledger>>

MergeEnsure(h) ==
    /\ req[h].at = "get"
    /\ \E r \in EnsureGet(req[h]) : Step(h, r)
    /\ UNCHANGED <<db, ledger>>

MergeList(h) ==
    /\ req[h].at = "list"
    /\ LET rows == ListCartItems(req[h].guest)
       IN  Step(h, [req[h] EXCEPT !.at = "find", !.todo = rows, !.lines = rows, !.disturbed = {}])
    /\ UNCHANGED <<db, ledger>>

\* Mutant: an item the user's cart holds already is left as it is.
MergeFind_Keeps(h) ==
    LET r == req[h]
    IN  /\ r.at = "find"
        /\ \/ r.todo = {} /\ Go(h, "touch user")
           \/ \E g \in r.todo :
                LET rows == FindCartItemByProductVariant(r.cart, g.sku)
                    s    == [r EXCEPT !.todo = @ \ {g}, !.sku = g.sku, !.seen = rows]
                IN  \/ rows = {} /\ Step(h, [s EXCEPT !.at = "copy", !.item = g])
                    \/ rows # {} /\ Step(h, s)
        /\ UNCHANGED <<db, ledger>>

\* The next item of the guest's cart (the code goes by title).
MergeFind(h) ==
    LET r == req[h]
    IN  /\ r.at = "find"
        /\ \/ r.todo = {} /\ Go(h, "touch user")
           \/ \E g \in r.todo :
                LET rows == FindCartItemByProductVariant(r.cart, g.sku)
                    s    == [r EXCEPT !.todo = @ \ {g}, !.sku = g.sku, !.seen = rows]
                IN  \/ rows = {} /\ Step(h, [s EXCEPT !.at = "copy", !.item = g])
                    \/ \E i \in rows :
                         Step(h, IF i.qty < g.qty
                                 THEN [s EXCEPT !.at = "raise", !.item = [i EXCEPT !.qty = g.qty]] ELSE s)
        /\ UNCHANGED <<db, ledger>>

Larger(m, n) == IF m < n THEN n ELSE m

MergeRaise(h) ==
    LET r == req[h]
    IN  /\ r.at = "raise"
        /\ GetCartItemByID(r.item.id) # {}
        /\ UpdateCartItemQty(r.item.id, r.item.qty, r.item.qty * r.item.price)
        /\ Write(h, r.cart, r.sku, Larger(due[r.cart][r.sku], r.item.qty), r.seen, [r EXCEPT !.at = "find"])
        /\ UNCHANGED made

MergeCopy(h) ==
    LET r == req[h]
    IN  /\ r.at = "copy"
        /\ CreateCartItem(r.cart, r.sku, r.item.qty, r.item.price, r.item.subtotal)
        /\ Write(h, r.cart, r.sku, Larger(due[r.cart][r.sku], r.item.qty), r.seen, [r EXCEPT !.at = "find"])

\* The four last statements, whose errors are ignored.
MergeEnd(h) ==
    LET r == req[h]
    IN  /\ \/ r.at = "touch user" /\ TouchCart(r.cart, TRUE) /\ Go(h, "expire guest")
           \/ r.at = "expire guest" /\ TouchCart(r.guest, FALSE) /\ Go(h, "clear guest")
           \/ r.at = "clear guest" /\ UpdateCartVoucher(r.guest, FALSE) /\ Go(h, "transfer")
           \/ r.at = "transfer" /\ TransferCartToUser(r.guest, r.user) /\ Done(h)
        /\ UNCHANGED <<items, made, voucher, uses, orders, ledger>>

----------------------------------------------------------------------------
\* POST /checkout.  The voucher is evaluated outside the transaction, on the
\* cart and the items as they are then.
Checkout(h, c, u) ==
    /\ GetCartByID(c) /\ carts[c].user \in {None, u}
    /\ Begin(h, [NoReq EXCEPT !.at = "items", !.kind = "checkout", !.cart = c, !.user = u,
                              !.applied = carts[c].applied])
    /\ UNCHANGED <<db, ledger>>

CheckoutItems(h) ==
    LET r == [req[h] EXCEPT !.lines = Lines(ListCartItems(req[h].cart))]
    IN  /\ req[h].at = "items"
        /\ IF r.lines = {} THEN Done(h)
           ELSE Step(h, [r EXCEPT !.at = IF r.applied THEN "owner" ELSE "commit"])
        /\ UNCHANGED <<db, ledger>>

\* EvaluateVoucher goes by the cart's owner, which a guest's cart has not.
EvaluateVoucher(h) ==
    /\ req[h].at = "owner"
    /\ Step(h, [req[h] EXCEPT !.at = "rate", !.user = carts[req[h].cart].user])
    /\ UNCHANGED <<db, ledger>>

\* Mutant: what the voucher takes off is not capped by what is in the order.
CheckoutCommit_Uncapped(h, shipping) ==
    LET r == req[h]
        s == Summary(r.lines, 0, TaxBps, Max({0, shipping}))
    IN  /\ r.at = "commit"
        /\ CreateOrder([lines |-> r.lines, rated |-> r.rated, rule |-> r.rule,
                        sum |-> [s EXCEPT !.discount = r.discount, !.total = s.total - r.discount]])
        /\ Done(h)
        /\ UNCHANGED <<carts, recent, items, made, voucher, uses, ledger>>

CheckoutCommit(h, shipping) ==
    LET r == req[h]
    IN  /\ r.at = "commit"
        /\ CreateOrder([lines |-> r.lines, rated |-> r.rated, rule |-> r.rule,
                        sum |-> Summary(r.lines, r.discount, TaxBps, Max({0, shipping}))])
        /\ Done(h)
        /\ UNCHANGED <<carts, recent, items, made, voucher, uses, ledger>>

----------------------------------------------------------------------------
Event == events < MaxEvents /\ events' = events + 1 /\ UNCHANGED served

\* A statement fails: the request ends with an error, or goes on where the
\* code ignores it.
Trouble(h) ==
    /\ req[h].at # "idle" /\ Event
    /\ req' = [req EXCEPT ![h] =
         CASE req[h].at = "touch ensured" /\ req[h].kind = "merge" -> [@ EXCEPT !.at = "list"]
           [] req[h].at = "touch user" -> [@ EXCEPT !.at = "expire guest"]
           [] req[h].at = "expire guest" -> [@ EXCEPT !.at = "clear guest"]
           [] req[h].at = "clear guest" -> [@ EXCEPT !.at = "transfer"]
           [] req[h].at \in {"owner", "rate", "rule"} /\ req[h].kind = "checkout" -> [@ EXCEPT !.at = "commit"]
           [] OTHER -> NoReq]
    /\ UNCHANGED <<db, ledger>>

\* The cart's expires_at passes.
Expire(c) ==
    /\ carts[c].live /\ Event
    /\ carts' = [carts EXCEPT ![c].live = FALSE]
    /\ UNCHANGED <<recent, items, made, voucher, uses, orders, req, ledger>>

\* POST /admin/vouchers (a code that exists is refused) and PUT
\* /admin/vouchers/{code}.  That they drop cached pages is in Catalog.
VoucherCreate(v) ==
    /\ Event
    /\ buildCreateParams(v) # None /\ voucher = None /\ CreateVoucher(buildCreateParams(v))
    /\ UNCHANGED <<carts, recent, items, made, uses, orders, req, ledger>>

VoucherUpdate(v) ==
    /\ Event
    /\ buildUpdateParams(v) # None /\ voucher # None /\ UpdateVoucher(buildUpdateParams(v))
    /\ UNCHANGED <<carts, recent, items, made, uses, orders, req, ledger>>

\* The passing of the validity window.
WindowPasses ==
    /\ voucher # None /\ Event
    /\ \E w \in {<<"early", "open">>, <<"open", "past">>} :
         voucher.window = w[1] /\ voucher' = [voucher EXCEPT !.window = w[2]]
    /\ UNCHANGED <<carts, recent, items, made, uses, orders, req, ledger>>

\* An order with the voucher is settled (OrderPayment): the usage row and the
\* counter.
Redeem(u) ==
    /\ voucher # None /\ Event
    /\ uses' = [uses EXCEPT ![u] = @ + 1]
    /\ voucher' = [voucher EXCEPT !.usedCount = @ + 1]
    /\ UNCHANGED <<carts, recent, items, made, orders, req, ledger>>

Request(h) ==
    \/ \E a \in Anons : Ensure(h, None, a)
    \/ \E u \in Users : Ensure(h, u, None)
    \/ \E c \in CartIds, s \in Skus, qty \in Quantities, stock \in {0, 1} : AddItem(h, c, s, qty, stock)
    \/ \E i \in items, qty \in Quantities : UpdateQty(h, i, qty)
    \/ \E i \in items : RemoveItem(h, i)
    \/ \E c \in CartIds : ApplyVoucher(h, c)
    \/ \E c \in CartIds : RemoveVoucher(h, c)
    \/ \E g \in CartIds, u \in Users : Merge(h, g, u)
    \/ \E c \in CartIds, u \in Users : Checkout(h, c, u)

Statement(h) ==
    \/ EnsureCreate(h) \/ EnsureTouch(h) \/ Touch(h)
    \/ AddIncrement(h) \/ AddInsert(h) \/ UpdateWrite(h) \/ WriteRefused(h)
    \/ loadCartItems(h) \/ RateVoucher(h) \/ AttachVoucher(h)
    \/ MergeEnsure(h) \/ MergeList(h) \/ MergeFind(h) \/ MergeRaise(h) \/ MergeCopy(h) \/ MergeEnd(h)
    \/ CheckoutItems(h) \/ EvaluateVoucher(h)
    \/ \E p \in ShippingPrices : CheckoutCommit(h, p)
    \/ Trouble(h)

Next ==
    \/ \E h \in Handlers : Request(h) \/ Statement(h)
    \/ \E c \in CartIds : Expire(c)
    \/ \E v \in Rules : VoucherCreate(v) \/ VoucherUpdate(v)
    \/ WindowPasses
    \/ \E u \in Users : Redeem(u)

Spec == Init /\ [][Next]_vars

----------------------------------------------------------------------------
\* Every item row belongs to a cart that exists and holds a positive quantity
\* its column can hold (AddItem and UpdateQty convert before they write, and
\* the table's CHECK refuses the rest).
TypeOK ==
    /\ made <= MaxItems
    /\ \A i \in items : /\ i.id \in 1..made /\ GetCartByID(i.cart) /\ i.sku \in Skus
                        /\ i.qty \in 1..(Half - 1) /\ i.price \in Nat /\ i.subtotal \in Nat
    /\ \A c, d \in CartIds :
         c # d => (<<c, d>> \in recent \/ <<d, c>> \in recent <=> GetCartByID(c) /\ GetCartByID(d))

\* Requests on one cart behave as if they ran one after the other: the cart
\* holds of each product what adding, setting, removing and merging would
\* leave, unless some request wrote after the rows it had read were changed
\* by another (AddItem and Merge read a quantity, then write an absolute one
\* with no lock and no unique constraint).
Serial ==
    \A c \in CartIds, s \in Skus :
        <<c, s>> \in raced \/ Sum(FindCartItemByProductVariant(c, s)) = due[c][s]

\* Merge loses nothing of the guest's cart: once its loop is over, whatever
\* fails afterwards, the user's cart holds at least what the guest's cart
\* listed, unless another request changed that item meanwhile.
MergeKeeps ==
    \A h \in Handlers :
        req[h].kind = "merge" /\ req[h].at \in {"touch user", "expire guest", "clear guest", "transfer"} =>
            \A g \in req[h].lines : g.sku \in req[h].disturbed \/
                \E i \in items : i.cart = req[h].cart /\ i.sku = g.sku /\ i.qty >= g.qty

\* An order is charged what its own lines cost, less a discount that never
\* exceeds them even when the voucher was evaluated on other lines (the cart
\* may change between checkout's two reads); when it was evaluated on the
\* same lines, the discount is what the voucher is worth on them.
OrdersAddUp ==
    \A o \in orders :
        LET cost == SumFunction([l \in o.lines |-> l.qty * l.price])
        IN  /\ o.sum.discount \in 0..cost
            /\ o.sum.total >= o.sum.shipping
            /\ o.sum.total = cost - o.sum.discount + o.sum.tax + o.sum.shipping
            /\ o.rule # None /\ o.rated = o.lines =>
                 o.sum.discount = Min({cost, WorthOf(o.rule, o.lines)})

\* The preview of a voucher and the evaluation of a cart with the same lines
\* agree on the discount, when the voucher's limits are positive and no line
\* lacks an attribute the voucher is scoped by.
Comparable(v, lines) ==
    /\ v.perUserLimit # None => v.perUserLimit > 0
    /\ v.usageLimit # None => v.usageLimit >= 0
    /\ \A l \in lines : /\ v.categories # {} => l.category # None
                        /\ v.brands # {} => l.brand # None
EnginesAgree ==
    voucher # None =>
        \A c \in CartIds :
            LET lines == Lines(ListCartItems(c))
                u == carts[c].user
            IN  Comparable(voucher, lines) =>
                  evaluateVoucher(lines, voucher, u, CountVoucherUsageByUser(u)).discount =
                  Preview(lines, voucher, u, CountVoucherUsageByUser(u), Total(lines)).discount
=============================================================================
