\* Two orders, one of two items, two requests in flight.
CONSTANTS
    o1 = o1
    o2 = o2
    p1 = p1
    p2 = p2
    p3 = p3
    Orders = {o1, o2}
    Items = {p1, p2, p3}
    OrderOf <- OrderOfItem
    Ordered <- OneEach
    Deliveries <- ManyDeliveries
    Requests = {r1, r2}
    MaxReceived = 2
    NoTxn = NoTxn
SPECIFICATION Spec
INVARIANTS
    ReceiptsAddUp
    GoodsNeedApproval
    StatusTellsReceipt
SYMMETRY Symmetry
CHECK_DEADLOCK FALSE
