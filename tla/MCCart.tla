------------------------------- MODULE MCCart -------------------------------
\* Two products, one with a category and a variant, the other with a brand;
\* a fixed voucher with limits, a percentage on the category and one on
\* either scope.
EXTENDS Cart, TLC

CONSTANTS h1, h2, s1, s2, u1, a1

MCIds == {"p1", "p2", "k", "b"}
MCCatalog ==
    (s1 :> [product |-> "p1", category |-> "k", brand |-> None, price |-> 3, variant |-> TRUE]) @@
    (s2 :> [product |-> "p2", category |-> None, brand |-> "b", price |-> 5, variant |-> FALSE])

Rule == [kind |-> "fixed_amount", value |-> 4, percentBps |-> None, minSpend |-> 0, usageLimit |-> None,
         usedCount |-> 0, perUserLimit |-> None, window |-> "open",
         products |-> {}, categories |-> {}, brands |-> {}]

MCRules == {[Rule EXCEPT !.kind = None, !.minSpend = 5, !.usageLimit = 1, !.window = "early"],
            [Rule EXCEPT !.kind = "percent", !.percentBps = 3300, !.categories = {"k"}],
            [Rule EXCEPT !.value = 20, !.categories = {"k"}, !.brands = {"b"}],
            [Rule EXCEPT !.kind = "percent"],
            [Rule EXCEPT !.kind = "free"]}

\* A guest's cart and a user's cart with the same product, the guest's with
\* the voucher applied if there is one; its rule may have changed since.
MCCarts0 == <<[user |-> None, anon |-> a1, applied |-> TRUE, live |-> TRUE],
              [user |-> u1, anon |-> None, applied |-> FALSE, live |-> TRUE]>>
MCItems0 == {[id |-> 1, cart |-> 1, sku |-> s1, qty |-> 2, price |-> 3, subtotal |-> 6],
             [id |-> 2, cart |-> 2, sku |-> s1, qty |-> 1, price |-> 3, subtotal |-> 3]}
MCVouchers0 == {None} \union {v \in MCRules : v.kind # "free" /\ v.percentBps # None}
               \union {v \in MCRules : v.categories # {} /\ v.brands # {}}

Symmetry == Permutations(Handlers)
=============================================================================
