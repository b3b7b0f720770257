\* One material request, two requests in flight.
CONSTANTS
    StockItems = {s1, s2}
    Mrs = {m1}
    Quantities <- Corrections
    Approvals = {1, 2}
    Requests = {r1, r2}
    MaxMoved = 2
    NoTxn = NoTxn
    NoItem = NoItem
    NoMr = NoMr
SPECIFICATION Spec
INVARIANTS
    OnHandIsLedger
    NeverNegative
    DrawnOnce
    IssuedAsApproved
    OneStockItem
SYMMETRY Symmetry
CHECK_DEADLOCK FALSE
