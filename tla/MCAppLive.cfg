\* One proxy that one save adds or removes, while its port comes and goes.
SPECIFICATION FairSpec
CONSTANTS
    Tunnels = {t1, t2, t3}
    Listens = {p}
    Versions = {v1}
    MaxEdits = 1
    Bad = Bad
    None = None
PROPERTIES
    OperationsEnd
CHECK_DEADLOCK FALSE
