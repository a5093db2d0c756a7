CONSTANTS
    None = None
    h1 = h1
    h2 = h2
    s1 = s1
    s2 = s2
    u1 = u1
    a1 = a1
    Users = {u1}
    Anons = {a1}
    Handlers = {h1, h2}
    Skus = {s1, s2}
    Ids <- MCIds
    Catalog <- MCCatalog
    Quantities = {2, 9}
    Half = 4
    Rules <- MCRules
    DefaultPerUserLimit = 1
    TaxBps = 1100
    ShippingPrices = {2}
    Carts0 <- MCCarts0
    Items0 <- MCItems0
    Vouchers0 <- MCVouchers0
    MaxCarts = 3
    MaxItems = 4
    MaxRequests = 2
    MaxEvents = 2
SPECIFICATION Spec
SYMMETRY Symmetry
INVARIANTS  Serial MergeKeeps OrdersAddUp EnginesAgree
CHECK_DEADLOCK FALSE
