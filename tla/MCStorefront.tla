---------------------------- MODULE MCStorefront ----------------------------
(* An instance of Storefront for TLC. *)
EXTENDS Storefront, TLC

\* The first address is the default, the third id is free.
MCAddr0 == (1 :> "default") @@ (2 :> "plain") @@ (3 :> "none")

Item(category, price, title, created) ==
    [category |-> category, price |-> price, title |-> title, created |-> created]

\* One category below another, and two that are each other's parent.
MCParents == "c1" :> None @@ "c2" :> "c1" @@ "c3" :> "c4" @@ "c4" :> "c3"

\* Two products at one price, the first with two variants; one in no category.
MCProducts == "kopi" :> Item("c2", 2, 1, 1) @@ "teh" :> Item("c3", 2, 3, 2) @@ "gula" :> Item(None, 1, 2, 3)
MCVariants == (1 :> "kopi") @@ (2 :> "kopi") @@ (3 :> "teh")
MCStock0 == (1 :> 2) @@ (2 :> 1) @@ (3 :> 1)
MCBaskets == {(1 :> 1) @@ (2 :> 1) @@ (3 :> 0), (1 :> 2) @@ (2 :> 0) @@ (3 :> 1)}

Listing(page, limit, category, sort, min, max) ==
    [page |-> page, limit |-> limit, category |-> category, sort |-> sort,
     minPrice |-> min, maxPrice |-> max]

MCListings ==
    {Listing(None, l, None, s, None, None) :
        l \in {None, 1}, s \in {"", "price:asc", "price:desc", "title:asc", "title:desc"}}
    \union {Listing(None, 1, "c2", "", None, None), Listing(None, 9, None, "", None, 1), Listing(None, 9, None, "title:asc", 2, None),
            Listing(1, 0, None, "", None, None), Listing(1, 1, None, "", 2, 1)}
=============================================================================
