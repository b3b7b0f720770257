\* Two requests in flight, and a login renewed twice.
CONSTANTS
    Tokens = {1, 2, 3}
    Requests = {r1, r2}
    NoTxn = NoTxn
SPECIFICATION Spec
INVARIANTS
    GivenMustChange
    MailedOpens
    OneLiveToken
SYMMETRY Symmetry
CHECK_DEADLOCK FALSE
