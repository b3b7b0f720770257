\* Two children, two requests in flight, each waiting for rows of the other.
CONSTANTS
    Children = {c1, c2}
    Percents = {0, 100}
    Requests = {r1, r2}
    NoTxn = NoTxn
    NoChild = NoChild
    NoRow = NoRow
    DeletedRow = DeletedRow
SPECIFICATION Spec
INVARIANTS
    FigureIsAverage
    LocksInOrder
PROPERTIES
    RequestsEnd
