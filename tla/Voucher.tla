------------------------------ MODULE Voucher ------------------------------
(***************************************************************************)
(* What a voucher takes off a basket and what the basket then costs: the   *)
(* rule engine of internal/voucher (used by the preview), the evaluation   *)
(* of internal/cart (used by carts and checkout) and internal/pricing.     *)
(* A line is a record with fields product, category, brand, qty, price     *)
(* and subtotal; a rule is a row of the table vouchers.  The instants of   *)
(* the validity window are abstracted to the field window.                 *)
(***************************************************************************)
EXTENDS Integers, FiniteSetsExt

CONSTANTS
    None,       \* a NULL column or a nil pointer
    DefaultPerUserLimit

Scoped(v) == v.products \union v.categories \union v.brands # {}

Total(lines) == SumFunction([l \in lines |-> l.subtotal])

\* An evaluation answers a discount, or refuses.
Refused == [ok |-> FALSE, discount |-> 0]
Granted(d) == [ok |-> TRUE, discount |-> d]

----------------------------------------------------------------------------
\* internal/cart/service.go

itemEligible(l, v) ==
    \/ ~Scoped(v)
    \/ l.product \in v.products
    \/ l.category # None /\ l.category \in v.categories
    \/ l.brand # None /\ l.brand \in v.brands

\* The limit of the row, even a zero, overrides the default.
cartLimit(v) == IF v.perUserLimit = None THEN DefaultPerUserLimit ELSE v.perUserLimit

cartAdmits(v, user, used, subtotal) ==
    /\ v.window = "open"
    /\ v.usageLimit # None => v.usedCount < v.usageLimit
    /\ cartLimit(v) > 0 /\ user # None => used < cartLimit(v)
    /\ subtotal >= v.minSpend

cartDiscount(v, eligible) ==
    Max({0, Min({eligible,
                 IF v.kind = "percent" THEN (eligible * v.percentBps) \div 10000 ELSE v.value})})

evaluateVoucher(lines, v, user, used) ==
    LET eligible == Total({l \in lines : itemEligible(l, v)})
    IN  IF /\ lines # {}
           /\ cartAdmits(v, user, used, Total(lines))
           /\ Scoped(v) => eligible # 0
           /\ v.kind = "percent" => v.percentBps # None /\ v.percentBps > 0
        THEN Granted(cartDiscount(v, eligible))
        ELSE Refused

----------------------------------------------------------------------------
\* internal/voucher/engine.go and service.go

\* The scopes are tried in turn; an item that lacks the attribute of a scope
\* is turned away before the later scopes are tried.
ruleMatchesItem(v, l) ==
    LET Try(ids, id, rest) == IF ids = {} THEN rest ELSE id # None /\ (id \in ids \/ rest)
    IN  Try(v.products, l.product,
            Try(v.categories, l.category, Try(v.brands, l.brand, ~Scoped(v))))

EligibleSubtotal(lines, v) ==
    Total({l \in lines : l.subtotal > 0 /\ (~Scoped(v) \/ ruleMatchesItem(v, l))})

effectivePerUserLimit(v) ==
    IF v.perUserLimit # None /\ v.perUserLimit > 0 THEN v.perUserLimit
    ELSE Max({0, DefaultPerUserLimit})

Validate(v, used, total) ==
    /\ total >= v.minSpend
    /\ v.window = "open"
    /\ v.usageLimit # None /\ v.usageLimit >= 0 => v.usedCount < v.usageLimit
    /\ effectivePerUserLimit(v) > 0 => used < effectivePerUserLimit(v)

\* Mutant: a percentage is rounded up.
Compute_RoundsUp(eligible, v) ==
    IF eligible <= 0 \/ (v.kind = "percent" /\ (v.percentBps = None \/ v.percentBps <= 0)) THEN 0
    ELSE Min({eligible,
              IF v.kind = "percent" THEN (eligible * v.percentBps + 9999) \div 10000 ELSE v.value})

Compute(eligible, v) ==
    IF eligible <= 0 \/ (v.kind = "percent" /\ (v.percentBps = None \/ v.percentBps <= 0)) THEN 0
    ELSE Max({0, Min({eligible,
                      IF v.kind = "percent" THEN (eligible * v.percentBps) \div 10000 ELSE v.value})})

\* The lines of a preview that the engine sees.
toEngineItems(lines) == {l \in lines : l.subtotal > 0}

\* POST /vouchers/preview; the caller gives the total.  A voucher that would
\* take nothing off is refused.
Preview(lines, v, user, used, total) ==
    LET items == toEngineItems(lines)
        d == Compute(EligibleSubtotal(items, v), v)
    IN  IF items # {} /\ Validate(v, IF user = None THEN 0 ELSE used, total) /\ d > 0
        THEN Granted(d) ELSE Refused

\* What an administrator's payload becomes: without a kind it is a fixed
\* amount, with an unknown one it is refused.
buildCreateParams(v) ==
    IF v.kind \in {None, "fixed_amount", "percent"}
    THEN [v EXCEPT !.kind = IF @ = None THEN "fixed_amount" ELSE @]
    ELSE None
buildUpdateParams(v) == buildCreateParams(v)

----------------------------------------------------------------------------
\* internal/pricing/engine.go

Summary(lines, voucher, taxBps, shipping) ==
    LET subtotal == SumFunction([l \in lines |-> IF l.qty <= 0 THEN 0 ELSE l.qty * l.price])
        discount == Min({voucher, subtotal})
        taxable  == Max({0, subtotal - discount})
        tax      == (taxable * taxBps) \div 10000
    IN  [subtotal |-> subtotal, discount |-> discount, tax |-> tax, shipping |-> shipping,
         total |-> taxable + tax + shipping]

----------------------------------------------------------------------------
\* Reference definitions, from what a voucher is for rather than from the code.

\* A line is in scope when it matches one of the scopes the voucher names.
InScope(l, v) ==
    Scoped(v) => \/ l.product \in v.products
                 \/ l.category \in v.categories
                 \/ l.brand \in v.brands

\* An amount is at most the face value, or the percentage.
Affords(v, base, d) == IF v.kind = "percent" THEN d * 10000 <= base * v.percentBps ELSE d <= v.value

\* The largest such amount that is at most the price of what is in scope.
WorthOf(v, lines) ==
    LET base == Total({l \in lines : InScope(l, v)})
    IN  Max({0} \union {d \in 0..base : Affords(v, base, d)})
=============================================================================
