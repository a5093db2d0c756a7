-------------------------- MODULE MCOrderPayment --------------------------
(* TLC instances of OrderPayment.                                          *)
EXTENDS OrderPayment, TLC

CONSTANTS o1, o2, v1, v2, settlement, capture, expire, paid2

\* One order of two pieces of one variant.
OneOrder == {o1}
OneItem == (o1 :> <<v1>>)
OneQty == (o1 :> (v1 :> 2))
OneStock == (v1 :> 3)

\* Two orders over two variants, listed in opposite orders.
TwoOrders == {o1, o2}
CrossedItems == (o1 :> <<v1, v2>>) @@ (o2 :> <<v2, v1>>)
CrossedQty == (o1 :> ((v1 :> 1) @@ (v2 :> 2))) @@ (o2 :> ((v1 :> 1) @@ (v2 :> 1)))
CrossedStock == (v1 :> 3) @@ (v2 :> 2)

Notifications == {settlement, capture, expire, paid2}
AboutOrder == [n \in Notes |-> IF n = paid2 THEN o2 ELSE o1]
ByProvider == [n \in Notes |-> IF n = paid2 THEN "xendit" ELSE "midtrans"]
Word == [n \in Notes |-> CASE n = settlement -> "settlement"
                           [] n = capture -> "capture"
                           [] n = expire -> "expire"
                           [] n = paid2 -> "paid"]
AllMatch == [n \in Notes |-> TRUE]

Symmetry == Permutations(Handlers)

===========================================================================
