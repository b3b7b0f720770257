\* Two approvers, one revision, two requests in flight.
CONSTANTS
    Approvers = {a1, a2}
    Requests = {r1, r2}
    MaxRevision = 1
    Patches = {"approved", "archived"}
    NoTxn = NoTxn
    NoOne = NoOne
SPECIFICATION Spec
INVARIANTS
    RejectionHolds
    ConsentCounts
SYMMETRY Symmetry
\* A deleted document takes no more requests.
CHECK_DEADLOCK FALSE
