\* Two versions of up to two items, three requests in flight.
CONSTANTS
    Versions = {v1, v2}
    Slots = {s1, s2}
    Amounts = {1}
    Requests = {r1, r2, r3}
    NoTxn = NoTxn
SPECIFICATION Spec
INVARIANTS
    OneApprovedUnlessCrossed
    TotalIsSum
    NumbersCount
PROPERTY ApprovedIsFrozen
SYMMETRY Symmetry
\* The ids are used up, and a project whose versions are all approved stays so.
CHECK_DEADLOCK FALSE
