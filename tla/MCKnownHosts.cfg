\* Two dials, two hosts, two types of keys, one reinstallation of each server.
SPECIFICATION Spec
CONSTANTS
    Dials = {d1, d2}
    Hosts = {h1, h2}
    Preference <- PreferenceMC
    MaxAge = 1
    MaxMishaps = 1
    None = None
SYMMETRY Symmetry
INVARIANTS
    TrustedStaysRecorded
PROPERTIES
    RecordedOnce
    NoFalseAlarm
