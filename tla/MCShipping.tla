---------------------------- MODULE MCShipping ----------------------------
(* TLC instances of Shipping.                                              *)
EXTENDS Shipping, TLC

CONSTANTS o1, shipped, onTheWay, delivered, lost

OneOrder == {o1}
AboutOrder == [b \in Bodies |-> o1]
Word == [b \in Bodies |-> CASE b = shipped -> "in_transit"
                            [] b = onTheWay -> "out_for_delivery"
                            [] b = delivered -> "delivered"
                            [] b = lost -> "lost"]

Symmetry == Permutations(Requests)

===========================================================================
