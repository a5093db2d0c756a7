---------------------------- MODULE OrderStatus ----------------------------
(* The order life cycle shared by payments, administration and shipping:   *)
(* the statuses, their ranks and the transitions the database accepts.     *)
EXTENDS Integers

OrderStatuses == {"PENDING_PAYMENT", "PAID", "PACKED", "SHIPPED",
                  "OUT_FOR_DELIVERY", "DELIVERED", "CANCELED"}

Fulfilment == {"PAID", "PACKED", "SHIPPED", "OUT_FOR_DELIVERY", "DELIVERED"}

orderStatusRank(s) ==
    CASE s = "PENDING_PAYMENT" -> 0
      [] s = "PAID" -> 1
      [] s = "PACKED" -> 2
      [] s = "SHIPPED" -> 3
      [] s = "OUT_FOR_DELIVERY" -> 4
      [] s = "DELIVERED" -> 5
      [] s = "CANCELED" -> -1
      [] OTHER -> -2

\* Mutant: any later stage will do.
UpdateAllowed_Later(from, to) == orderStatusRank(to) > orderStatusRank(from)

\* The WHERE clause of UpdateOrderStatusIfAllowed.
UpdateAllowed(from, to) ==
    \/ from = "PENDING_PAYMENT" /\ to \in {"PAID", "CANCELED"}
    \/ from = "PAID" /\ to \in {"PACKED", "CANCELED"}
    \/ from = "PACKED" /\ to = "SHIPPED"
    \/ from = "SHIPPED" /\ to = "OUT_FOR_DELIVERY"
    \/ from = "OUT_FOR_DELIVERY" /\ to = "DELIVERED"

isAllowedAdminTarget(s) ==
    s \in {"PACKED", "SHIPPED", "OUT_FOR_DELIVERY", "DELIVERED", "CANCELED"}

============================================================================
