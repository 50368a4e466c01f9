\* Every way through the releases, with two processes that seed at once.
CONSTANTS
    Lifts = {e1, e2}
    Backends = {b1, b2}
    Reports = {p1}
    Identities = {i1, i2}
    MaxReadings = 3
    None = none

SPECIFICATION Spec

INVARIANTS
    FleetIsOfItsRelease
    FirstStoredIsKept

PROPERTIES
    WrittenDataSurvives
