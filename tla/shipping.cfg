SPECIFICATION Spec
CONSTANTS
    o1 = o1
    shipped = shipped
    onTheWay = onTheWay
    delivered = delivered
    lost = lost
    Orders <- OneOrder
    Bodies = {shipped, delivered, lost}
    BodyOrder <- AboutOrder
    BodyStatus <- Word
    Requests = {r1, r2}
    MaxSettles = 1
SYMMETRY Symmetry
INVARIANTS StatusHasEvent
PROPERTIES ImplementsOrderRow
