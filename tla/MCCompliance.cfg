\* Three days and a window of one, two requests in flight.
CONSTANTS
    LastDay = 2
    Window = 1
    Requests = {r1, r2}
    NoTxn = NoTxn
    NoDoc = NoDoc
    NoDate = NoDate
    Kept = Kept
SPECIFICATION Spec
INVARIANTS
    StatusTellsDate
    OneReminderADay
PROPERTY NoBetterByItself
SYMMETRY Symmetry
\* A deleted document is the end of it.
CHECK_DEADLOCK FALSE
