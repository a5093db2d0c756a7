SPECIFICATION Spec
CONSTANTS
    o1 = o1
    o2 = o2
    v1 = v1
    v2 = v2
    settlement = settlement
    capture = capture
    expire = expire
    paid2 = paid2
    Orders <- OneOrder
    Variants = {v1}
    Items <- OneItem
    Qty <- OneQty
    InitStock <- OneStock
    VoucherOrders <- OneOrder
    UsageLimit = 2
    Notes = {settlement, capture, expire}
    NoteOrder <- AboutOrder
    NoteProvider <- ByProvider
    NoteStatus <- Word
    AmountMatches <- AllMatch
    Handlers = {h1, h2}
    PoolSize = 3
    MaxPayments = 2
    MaxDeliveries = 1
SYMMETRY Symmetry
CHECK_DEADLOCK FALSE
INVARIANTS PaidMeansSettled AnnouncedIsCommitted VoucherCountedOnce
