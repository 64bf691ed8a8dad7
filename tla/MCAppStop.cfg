SPECIFICATION Spec
CONSTANTS
    Tunnels = {t1, t2, t3}
    Listens = {p}
    Versions = {v1, v2}
    MaxEdits = 1
    Bad = Bad
    None = None
INVARIANTS
    StopIsFinal
CHECK_DEADLOCK FALSE
