------------------------- MODULE MCWebhookDelivery -------------------------
(***************************************************************************)
(* Small instances: topics as clients write them, in any case, and the     *)
(* blank one that leaves an endpoint subscribed to every topic.            *)
(***************************************************************************)
EXTENDS WebhookDelivery, TLC

PaidTopic == [e \in Events |-> "order.paid"]
Written == {{" ", "Order.Paid"}, {"shipment.shipped", " "}}
Normal == (" " :> "") @@ ("Order.Paid" :> "order.paid") @@ ("shipment.shipped" :> "shipment.shipped")
OnlyPaid == {"order.paid"}

Symmetry == Permutations(Workers)
============================================================================
