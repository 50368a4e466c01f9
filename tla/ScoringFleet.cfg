\* Three lifts in scope and one out of it, with rows older than the validation.
CONSTANTS
    e1 = e1
    e2 = e2
    e3 = e3
    e4 = e4
    Elevators = {e1, e2, e3, e4}
    InScope = {e1, e2, e3}
    RawScores = {80004}
    TrendLength = 2
    DayLength = 1
    Skew = 1
    Window = 1
    Retention = 1
    Runs = {r1, r2}
    NoRun = NoRun
    MaxTime = 1
    MaxReadings = 2
    SeedTrends <- FullTrend
    LegacyReadings <- MixedRows

SPECIFICATION FairSpec

INVARIANTS
    LockIsHeld
    DecisionIsCurrent

PROPERTIES
    BadLiftsStayAMinority
    EveryRunEnds
