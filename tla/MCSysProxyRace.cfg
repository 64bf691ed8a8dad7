SPECIFICATION Spec
CONSTANTS
    Listens <- MCListens
    Foreign = {corp}
    MaxReloads = 1
    None = None
INVARIANTS
    OriginalNotLost
