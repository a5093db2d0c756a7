CONSTANTS
    AddrHandlers = {h1, h2, h3}
    Addrs = {1, 2, 3}
    Addr0 <- MCAddr0
    MaxFaults = 1
    Shoppers = {u}
    Tenants = {t1, t2}
    FavHandlers = {f1, f2}
    Ratings = {0, 5, 9}
    RatingBits = 3
    NoTenant = NoTenant
    None = None
    Readers = {r1, r2}
    Products <- MCProducts
    Variants <- MCVariants
    Stock0 <- MCStock0
    Baskets <- MCBaskets
    Listings <- MCListings
    DefaultLimit = 2
    MaxLimit = 3
    Half = 16
    Parents <- MCParents
    MaxSales = 2
    MaxMisses = 1
    MaxServed = 3
SPECIFICATION StoreSpec
INVARIANTS  PagesPartition PathIsAncestry
PROPERTIES DefaultKept RequestsEnd 
CHECK_DEADLOCK FALSE
