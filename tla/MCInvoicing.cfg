\* Three requests in flight on one invoice, sub-paisa amounts included.
CONSTANTS
    Invoices = {i1}
    Requests = {r1, r2, r3}
    Totals <- SmallTotals
    Amounts <- SmallAmounts
    MaxReceived = 12
    NoTxn = NoTxn
SPECIFICATION Spec
INVARIANTS
    BooksBalance
    PaidMeansCollected
    MoneyNeedsApproval
    CleanInvoice
PROPERTY KeepsPromise
\* The system may stop: nothing is left to do once every invoice is settled or refused.
SYMMETRY Symmetry
CHECK_DEADLOCK FALSE
