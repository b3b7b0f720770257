\* Every register, four rows of a key, four requests in flight.
CONSTANTS
    Rows = {x1, x2, x3, x4}
    Requests = {r1, r2, r3, r4}
    NoTxn = NoTxn
SPECIFICATION Spec
INVARIANTS
    OneRowPerKey
SYMMETRY Symmetry
\* Rows of a key are used up.
CHECK_DEADLOCK FALSE
