------------------------------ MODULE Catalog ------------------------------
(***************************************************************************)
(* The public catalogue (internal/catalog) and the sales figures           *)
(* (internal/analytics) behind their Redis caches, read while the payment  *)
(* webhook takes sold items off the stock.  A reader looks the cache up,    *)
(* reads the database in one or two statements and stores what it read;     *)
(* the webhook drops the entries inside its transaction, before the commit. *)
(***************************************************************************)
EXTENDS Integers, FiniteSets, Sequences, FiniteSetsExt, Functions

CONSTANTS
    None,
    Readers,
    Products,       \* [slug -> [category, price, title, created]]
    Variants,       \* [variant -> slug]
    Stock0,         \* [variant -> units]
    Baskets,        \* orders that may be paid: [variant -> quantity]
    Listings,       \* parameters that GET /products may carry, after parsing
    DefaultLimit, MaxLimit,
    Half,           \* 2^31: offsets are converted to int32
    Parents,        \* categories: [id -> parent or None]
    MaxSales, MaxMisses

VARIABLES
    stock,          \* committed stock
    sold, view,     \* paid orders; paid orders in the materialised view
    cache,          \* [Keys -> entry or None]
    rd,             \* per reader, the request it serves
    sale,           \* the webhook's transaction
    misses          \* Redis commands that failed

catVars == <<stock, sold, view, cache, rd, sale, misses>>

Slugs == DOMAIN Products
Keys  == Slugs \union {"list", "sales"}
Away  == [at |-> "idle", key |-> None, q |-> None, cat |-> None, value |-> None]
Quiet == [at |-> "idle", basket |-> None, drop |-> {}]

Init ==
    /\ stock = Stock0 /\ sold = 0 /\ view = 0
    /\ cache = [k \in Keys |-> None]
    /\ rd = [r \in Readers |-> Away]
    /\ sale = Quiet /\ misses = 0

----------------------------------------------------------------------------
\* Queries: internal/db/gen/products.sql.go, categories.sql.go, analytics.sql.go

Total(f, vs) == MapThenSumSet(LAMBDA v : f[v], vs)
VariantsOf(p) == {v \in DOMAIN Variants : Variants[v] = p}
TotalStock(p) == Total(stock, VariantsOf(p))

GetProductBySlug(p) == [total |-> TotalStock(p), category |-> Products[p].category]
GetCategoryByID(c) == Parents[c]
ListVariantsByProduct(p) == [v \in VariantsOf(p) |-> stock[v]]

Matches(q) ==
    {p \in Slugs : /\ q.category # None => Products[p].category = q.category
                   /\ q.minPrice # None => Products[p].price >= q.minPrice
                   /\ q.maxPrice # None => Products[p].price <= q.maxPrice}
CountProductsPublic(q) == Cardinality(Matches(q))

\* ORDER BY compares the chosen column, then puts the newest first.
Before(sort, p, q) ==
    LET a == Products[p]
        b == Products[q]
        x == CASE sort = "price:asc" -> a.price - b.price [] sort = "price:desc" -> b.price - a.price
               [] sort = "title:asc" -> a.title - b.title [] sort = "title:desc" -> b.title - a.title
               [] OTHER -> 0
    IN  x < 0 \/ (x = 0 /\ a.created > b.created)
\* The row with n - 1 rows before it.
RowAt(q, n) ==
    CHOOSE p \in Matches(q) : Cardinality({r \in Matches(q) : Before(q.sort, r, p)}) = n - 1
Item(p) == [slug |-> p, stock |-> TotalStock(p)]

\* LIMIT and OFFSET
ListProductsPublic(q, offset, limit) ==
    [i \in 1..Min({limit, CountProductsPublic(q) - offset}) |-> Item(RowAt(q, offset + i))]

GetSalesDailyRange == view

----------------------------------------------------------------------------
\* internal/catalog/service.go: parameters and pages

\* An absent limit takes the default, a large one the maximum; a zero, a
\* negative one or an inverted price range is a bad request.
ParseListParams(q) ==
    IF \/ q.page # None /\ q.page < 1
       \/ q.limit # None /\ q.limit < 1
       \/ q.minPrice # None /\ q.maxPrice # None /\ q.minPrice > q.maxPrice
    THEN None
    ELSE [q EXCEPT !.page = IF @ = None THEN 1 ELSE @,
                   !.limit = IF @ = None THEN DefaultLimit ELSE IF @ > MaxLimit THEN MaxLimit ELSE @]

Int32(n) == ((n + Half) % (2 * Half)) - Half

\* Mutant: pages are counted from zero.
pageOffset_FromZero(q) == Int32(q.page * q.limit)

pageOffset(q) == LET n == Int32((q.page - 1) * q.limit) IN IF n < 0 THEN 0 ELSE n

PageOf(q) == ListProductsPublic(q, pageOffset(q), q.limit)
ListOf(q) == [items |-> PageOf(q), total |-> CountProductsPublic(q)]

\* Only the plain first page is cached.
Plain == [page |-> 1, limit |-> DefaultLimit, category |-> None, sort |-> "",
          minPrice |-> None, maxPrice |-> None]
listCacheKey(q) == q = Plain

----------------------------------------------------------------------------
\* The caches: internal/catalog/cache.go and internal/analytics/service.go

\* A Redis command fails; readers and writers alike carry on without it.
Miss == misses < MaxMisses /\ misses' = misses + 1

GetJSON(k) == cache[k]

SetJSON(k, value) ==
    \/ cache' = [cache EXCEPT ![k] = value] /\ UNCHANGED misses
    \/ Miss /\ UNCHANGED cache

DeleteKey(k) ==
    \/ cache' = [cache EXCEPT ![k] = None] /\ UNCHANGED misses
    \/ Miss /\ UNCHANGED cache

\* Mutant: entries are stored without a time to live.
TTL_None(k) == FALSE /\ UNCHANGED catVars

TTL(k) ==
    /\ cache[k] # None
    /\ cache' = [cache EXCEPT ![k] = None]
    /\ UNCHANGED <<stock, sold, view, rd, sale, misses>>

----------------------------------------------------------------------------
\* Readers

ReadTo(r, s) == rd' = [rd EXCEPT ![r] = s]

\* The lookup: a hit is the answer; a miss or an error reads the database.
Lookup(r, k, q) ==
    /\ rd[r].at = "idle"
    /\ \/ GetJSON(k) # None /\ UNCHANGED <<rd, misses>>
       \/ /\ GetJSON(k) = None /\ UNCHANGED misses
          /\ ReadTo(r, [Away EXCEPT !.at = "read", !.key = k, !.q = q])
       \/ Miss /\ ReadTo(r, [Away EXCEPT !.at = "read", !.key = k, !.q = q])
    /\ UNCHANGED <<stock, sold, view, cache, sale>>

\* GET /products, of which only the plain first page goes through the cache.
\* Any other page, or a bad request, reads and stores nothing.
Products_(r, raw) ==
    LET q == ParseListParams(raw)
    IN  q # None /\ listCacheKey(q) /\ Lookup(r, "list", q)

\* The count (no request changes it), then the rows.
ListProducts(r) ==
    /\ rd[r].at = "read" /\ rd[r].key = "list"
    /\ ReadTo(r, [rd[r] EXCEPT !.at = "store", !.value = ListOf(rd[r].q)])
    /\ UNCHANGED <<stock, sold, view, cache, sale, misses>>

\* GET /products/{slug}: the product with its total, the path of its category,
\* then its variants.
GetProductDetail(r) ==
    /\ rd[r].at = "read" /\ rd[r].key \in Slugs
    /\ LET product == GetProductBySlug(rd[r].key)
       IN  ReadTo(r, [rd[r] EXCEPT !.at = IF product.category = None THEN "variants" ELSE "category",
                          !.cat = product.category,
                          !.value = [total |-> product.total, path |-> <<>>, variants |-> None]])
    /\ UNCHANGED <<stock, sold, view, cache, sale, misses>>

\* Mutant: the slug of an ancestor is added behind instead of in front.
categoryPath_Behind(r) ==
    /\ rd[r].at = "category"
    /\ LET path   == rd[r].value.path
           parent == GetCategoryByID(rd[r].cat)
           done   == rd[r].cat \in Range(path) \/ parent = None
       IN  ReadTo(r, [rd[r] EXCEPT !.at = IF done THEN "variants" ELSE "category",
                          !.cat = IF done THEN None ELSE parent,
                          !.value.path = Append(path, rd[r].cat)])
    /\ UNCHANGED <<stock, sold, view, cache, sale, misses>>

\* One round of the climb from the category to its root: the category goes in
\* front of the path; one met before, or one without a parent, is the last.
categoryPath(r) ==
    /\ rd[r].at = "category"
    /\ LET path   == rd[r].value.path
           parent == GetCategoryByID(rd[r].cat)
           done   == rd[r].cat \in Range(path) \/ parent = None
       IN  ReadTo(r, [rd[r] EXCEPT !.at = IF done THEN "variants" ELSE "category",
                          !.cat = IF done THEN None ELSE parent,
                          !.value.path = <<rd[r].cat>> \o path])
    /\ UNCHANGED <<stock, sold, view, cache, sale, misses>>

\* A category that cannot be read: the page goes without its path.
PathLeftOut(r) ==
    /\ rd[r].at = "category" /\ Miss
    /\ ReadTo(r, [rd[r] EXCEPT !.at = "variants", !.cat = None, !.value.path = <<>>])
    /\ UNCHANGED <<stock, sold, view, cache, sale>>

DetailVariants(r) ==
    /\ rd[r].at = "variants"
    /\ ReadTo(r, [rd[r] EXCEPT !.at = "store", !.value.variants = ListVariantsByProduct(rd[r].key)])
    /\ UNCHANGED <<stock, sold, view, cache, sale, misses>>

\* GET /analytics/sales
SalesRange(r) ==
    /\ rd[r].at = "read" /\ rd[r].key = "sales"
    /\ ReadTo(r, [rd[r] EXCEPT !.at = "store", !.value = GetSalesDailyRange])
    /\ UNCHANGED <<stock, sold, view, cache, sale, misses>>

Store(r) ==
    /\ rd[r].at = "store"
    /\ SetJSON(rd[r].key, rd[r].value)
    /\ ReadTo(r, Away)
    /\ UNCHANGED <<stock, sold, view, sale>>

\* A statement fails: the answer is 500 and nothing is stored.
ReadFails(r) ==
    /\ rd[r].at \in {"read", "variants"} /\ Miss
    /\ ReadTo(r, Away)
    /\ UNCHANGED <<stock, sold, view, cache, sale>>

----------------------------------------------------------------------------
\* Writers

\* The payment webhook settles an order: DecrementVariantStock for each item,
\* seen by no reader before the commit.
Settle(b) ==
    /\ sale.at = "idle" /\ sold < MaxSales
    /\ sale' = [at |-> "detail", basket |-> b, drop |-> {Variants[v] : v \in {x \in DOMAIN b : b[x] > 0}}]
    /\ UNCHANGED <<stock, sold, view, cache, rd, misses>>

SaleTo(at, drop) == sale' = [sale EXCEPT !.at = at, !.drop = drop]

\* invalidateProductCache: for each slug its page, then the list.
InvalidateProduct ==
    /\ sale.at = "detail"
    /\ \E p \in sale.drop : DeleteKey(p) /\ SaleTo("list", sale.drop \ {p})
    /\ UNCHANGED <<stock, sold, view, rd>>

InvalidateList ==
    /\ sale.at = "list"
    /\ DeleteKey("list") /\ SaleTo("detail", sale.drop)
    /\ UNCHANGED <<stock, sold, view, rd>>

\* clearAnalyticsCache
Clear ==
    /\ sale.at = "detail" /\ sale.drop = {}
    /\ DeleteKey("sales") /\ SaleTo("commit", {})
    /\ UNCHANGED <<stock, sold, view, rd>>

\* stock = GREATEST(stock - qty, 0)
Decremented(v) == IF stock[v] < sale.basket[v] THEN 0 ELSE stock[v] - sale.basket[v]

Commit ==
    /\ sale.at = "commit"
    /\ stock' = [v \in DOMAIN stock |-> Decremented(v)]
    /\ sold' = sold + 1
    /\ sale' = Quiet
    /\ UNCHANGED <<view, cache, rd, misses>>

Rollback ==
    /\ sale.at # "idle" /\ Miss
    /\ sale' = Quiet
    /\ UNCHANGED <<stock, sold, view, cache, rd>>

\* internal/voucher/handlers.go, after a voucher was created or changed: the
\* list and the sales figures are dropped.
invalidateCaches ==
    /\ \E dropped \in SUBSET {"list", "sales"} :
           cache' = [k \in Keys |-> IF k \in dropped THEN None ELSE cache[k]]
    /\ UNCHANGED <<stock, sold, view, rd, sale, misses>>

\* The view is refreshed by a job outside the program.
RefreshSalesDaily ==
    /\ view # sold /\ view' = sold
    /\ UNCHANGED <<stock, sold, cache, rd, sale, misses>>

Start(r) == \/ \E q \in Listings : Products_(r, q)
            \/ \E p \in Slugs : Lookup(r, p, None)
            \/ Lookup(r, "sales", None)
Run(r)   == ListProducts(r) \/ GetProductDetail(r) \/ categoryPath(r) \/ PathLeftOut(r)
            \/ DetailVariants(r) \/ SalesRange(r) \/ Store(r)
Step(r)  == Run(r) \/ ReadFails(r)
Sell     == InvalidateProduct \/ InvalidateList \/ Clear \/ Commit

----------------------------------------------------------------------------
\* The path of a page is there or left out; what it is, PathIsAncestry says.
Current(k) ==
    CASE k = "list"  -> cache[k] = ListOf(Plain)
      [] k = "sales" -> cache[k] = view
      [] OTHER       -> /\ cache[k].total = TotalStock(k)
                        /\ cache[k].variants = ListVariantsByProduct(k)
                        /\ (cache[k].path = <<>>) <=> (Products[k].category = None)

\* Entries that are dropped before the commit, or stored by a reader that
\* read before it, go stale; once the sales stop every entry is again absent
\* or what the database holds, because entries expire.
CachesConverge == <>[](\A k \in Keys : cache[k] # None => Current(k))

\* Sequences one after the other.
Concat(seqs) ==
    LET upto[i \in 0..Len(seqs)] == IF i = 0 THEN <<>> ELSE upto[i - 1] \o seqs[i]
    IN  upto[Len(seqs)]

\* The pages of any listing, put together, are the matching products with
\* their stock, each once and in order, and the total that goes with them is
\* their number; no two products have the same creation time.
PagesPartition ==
    \A raw \in Listings :
        LET q == ParseListParams(raw)
            n == CountProductsPublic(q)
            pages == [i \in 1..((n + q.limit - 1) \div q.limit) |-> PageOf([q EXCEPT !.page = i])]
            all == Concat(pages)
        IN  q # None => /\ Len(all) = n
                        /\ Range(all) = {Item(p) : p \in Matches(q)}
                        /\ \A i \in 1..(n - 1) : Before(q.sort, all[i].slug, all[i + 1].slug)

\* The category path shown with a product leads from a root down to its
\* category, each the parent of the next; where the parents form a loop, the
\* climb ends at the first category it meets again.
PathIsAncestry ==
    \A p \in Slugs : cache[p] # None /\ cache[p].path # <<>> =>
        LET path == cache[p].path
        IN  /\ path[Len(path)] = Products[p].category
            /\ \A i \in 2..Len(path) : path[i - 1] = Parents[path[i]]
            /\ Parents[path[1]] = None \/ \E i \in 2..Len(path) : path[i] = path[1]
            /\ \A i, j \in 2..Len(path) : path[i] = path[j] => i = j
=============================================================================
