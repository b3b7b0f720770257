\* Two entries and two requests in flight.
CONSTANTS
    Entries = {e1, e2}
    Requests = {r1, r2}
    Quantities = {1, 2}
    Days = {d1, d2}
    Assigned = 3
    BoqTotal = 2
    NoTxn = NoTxn
SPECIFICATION Spec
INVARIANTS
    DeletedIsDraft
PROPERTIES
    DecidedIsFinal
    KeepsLog
SYMMETRY Symmetry
CHECK_DEADLOCK FALSE
