\* A project and an item of each kind, two requests in flight.
CONSTANTS
    Beside = {"expense", "change_order", "invoice", "order", "material_request", "approval"}
    Requests = {r1, r2}
    NoTxn = NoTxn
SPECIFICATION Spec
INVARIANTS
    DatesTellStatus
    ActiveIsCounted
PROPERTY SettledStays
SYMMETRY Symmetry
\* A deleted project and a settled item stay as they are.
CHECK_DEADLOCK FALSE
