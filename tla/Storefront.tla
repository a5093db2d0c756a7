----------------------------- MODULE Storefront -----------------------------
(***************************************************************************)
(* What a shopper's requests do besides buying: the address book,           *)
(* favourites and reviews, and the catalogue behind its caches.  The parts  *)
(* share no state, so the requests of one behaviour all go to one of them,  *)
(* part; served bounds their number.                                        *)
(***************************************************************************)
EXTENDS Integers, FiniteSets

CONSTANTS
    AddrHandlers, Addrs, Addr0, MaxFaults,
    Shoppers, Tenants, FavHandlers, Ratings, RatingBits, NoTenant,
    None, Readers, Products, Variants, Stock0, Baskets, Listings, DefaultLimit, MaxLimit, Half,
    Parents, MaxSales, MaxMisses,
    MaxServed

\* The unique index holds at the start.
ASSUME BookConstants ==
    /\ Addr0 \in [Addrs -> {"none", "plain", "default"}]
    /\ \A a, b \in Addrs : Addr0[a] = "default" /\ Addr0[b] = "default" => a = b

ASSUME FansConstants == NoTenant \notin Tenants

\* Slugs are none of the names of the other entries, parents are categories,
\* no two products were created at the same time, and int32 counts the products.
ASSUME ShopConstants ==
    /\ IsFiniteSet(DOMAIN Products) /\ {"list", "sales"} \cap DOMAIN Products = {}
    /\ \A p \in DOMAIN Products :
          /\ Products[p].price \in Int /\ Products[p].title \in Int /\ Products[p].created \in Int
          /\ Products[p].category \in DOMAIN Parents \union {None}
          /\ \A o \in DOMAIN Products : Products[o].created = Products[p].created => o = p
    /\ Parents \in [DOMAIN Parents -> DOMAIN Parents \union {None}] /\ None \notin DOMAIN Parents
    /\ Half \in Nat \ {0} /\ Cardinality(DOMAIN Products) <= Half
    /\ DefaultLimit \in Nat \ {0} /\ MaxLimit \in Nat \ {0}
    /\ \A q \in Listings :
          /\ q = [page |-> q.page, limit |-> q.limit, category |-> q.category, sort |-> q.sort,
                  minPrice |-> q.minPrice, maxPrice |-> q.maxPrice]
          /\ {q.page, q.limit, q.minPrice, q.maxPrice} \subseteq Int \union {None}
    /\ None \notin Int

VARIABLES addr, req, faults, favs, reviews, fav, told,
          stock, sold, view, cache, rd, sale, misses, part, served

Book == INSTANCE Addresses
Fans == INSTANCE Engagement
Shop == INSTANCE Catalog

bookVars == <<addr, req, faults>>
fansVars == <<favs, reviews, fav, told>>
shopVars == <<stock, sold, view, cache, rd, sale, misses>>
storeVars == <<bookVars, fansVars, shopVars, part, served>>

StoreInit == Book!Init /\ Fans!Init /\ Shop!Init /\ part \in {"book", "fans", "shop"} /\ served = 0

InBook == part = "book" /\ UNCHANGED <<fansVars, shopVars, part>>
InFans == part = "fans" /\ UNCHANGED <<bookVars, shopVars, part>>
InShop == part = "shop" /\ UNCHANGED <<bookVars, fansVars, part>>

Serve == served < MaxServed /\ served' = served + 1
Goes  == UNCHANGED served

BookRuns(h) == InBook /\ Book!Run(h) /\ Goes
ShopReads(r) == InShop /\ Shop!Run(r) /\ Goes
ShopSells == InShop /\ Shop!Sell /\ Goes
Expires(k) == InShop /\ Shop!TTL(k) /\ Goes

StoreNext ==
    \/ \E h \in AddrHandlers : InBook /\ Book!Start(h) /\ Serve
    \/ \E h \in AddrHandlers : BookRuns(h) \/ (InBook /\ Book!Fail(h) /\ Goes)
    \/ \E h \in FavHandlers : InFans /\ Fans!Start(h) /\ Serve
    \/ InFans /\ Fans!Review /\ Serve
    \/ \E h \in FavHandlers : InFans /\ Fans!Step(h) /\ Goes
    \/ \E r \in Readers : InShop /\ Shop!Start(r) /\ Serve
    \/ \E r \in Readers : ShopReads(r) \/ (InShop /\ Shop!ReadFails(r) /\ Goes)
    \/ \E b \in Baskets : InShop /\ Shop!Settle(b) /\ Serve
    \/ ShopSells \/ (InShop /\ Shop!Rollback /\ Goes)
    \/ InShop /\ Shop!invalidateCaches /\ Goes
    \/ InShop /\ Shop!RefreshSalesDaily /\ Goes
    \/ \E k \in Shop!Keys : Expires(k)

\* A handler goroutine that can go on does, PostgreSQL's deadlock detector
\* and Redis' expiry run; nothing is assumed of new requests.
StoreSpec ==
    /\ StoreInit /\ [][StoreNext]_storeVars
    /\ \A h \in AddrHandlers : WF_storeVars(BookRuns(h))
    /\ \A r \in Readers : WF_storeVars(ShopReads(r))
    /\ WF_storeVars(ShopSells)
    /\ \A k \in Shop!Keys : WF_storeVars(Expires(k))

----------------------------------------------------------------------------
\* Addresses (user/service.go): a user who has a default address keeps one.  A
\* request that moves the default, whether it succeeds, fails at the unique
\* index, is cancelled or races another, never leaves the user without, unless
\* a request deleted the default or changed that very address.  There are
\* never two.
DefaultKept == [][Book!DefaultMoves]_bookVars

\* Addresses: every request ends, also when three close a cycle of waits.
RequestsEnd == Book!RequestsEnd

\* Favourites: the last answer a shopper had is what the table holds.
LastAnswerHolds == Fans!LastAnswerHolds

\* Catalogue and analytics: stale cache entries do not outlive the sales.
CachesConverge == Shop!CachesConverge

\* Catalogue (catalog/service.go:272): at any moment the pages of a listing
\* partition the matching products.
PagesPartition == part = "shop" => Shop!PagesPartition

\* Catalogue (catalog/service.go:477): a category path in a cached product page
\* is the category's ancestry.
PathIsAncestry == Shop!PathIsAncestry
=============================================================================
