\* Two requests in flight on two certificates.
CONSTANTS
    MaxCerts = 2
    MaxInvoices = 2
    Requests = {r1, r2}
    Assigned = 2
    Rate = 10
    RetentionPct = 10
    Deductions = {0}
    Amounts = {9}
    MaxReceived = 30
    NoTxn = NoTxn
SPECIFICATION Spec
INVARIANTS
    InvoiceBacks
    PaidIsSettled
    TotalsTrack
PROPERTIES
    CertifiedStands
    KeepsBilling
SYMMETRY Symmetry
CHECK_DEADLOCK FALSE
