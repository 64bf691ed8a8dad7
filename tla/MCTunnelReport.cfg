\* One request is enough, and two connections, one after the other.
SPECIFICATION Spec
CONSTANTS
    Requests = {r1}
    Clients = {c1, c2}
    Users = {}
    None = None
INVARIANTS
    BrokenIsDead
CHECK_DEADLOCK FALSE
