\* Two requests and a user who clicks Reconnect.  The tunnel stops for good.
SPECIFICATION Spec
CONSTANTS
    Requests = {r1, r2}
    Clients = {c1, c2, c3}
    Users = {u1}
    None = None
SYMMETRY Symmetry
INVARIANTS
    StopClean
    OneLink
    NoLostWakeup
PROPERTIES
    NoSpuriousTeardown
    ReconnectHonoured
    RetryKeepsReason
CHECK_DEADLOCK FALSE
