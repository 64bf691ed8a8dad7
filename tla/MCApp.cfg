\* One address, two versions of its proxy, two saves.
SPECIFICATION Spec
CONSTANTS
    Tunnels = {t1, t2, t3}
    Listens = {p}
    Versions = {v1, v2}
    MaxEdits = 2
    Bad = Bad
    None = None
SYMMETRY Symmetry
INVARIANTS
    NoOrphan
    ListMatchesConfig
    AlarmIsRight
PROPERTIES
    UnchangedGoesOn
    PortIsFree
    SavesAreRead

CHECK_DEADLOCK FALSE
