\* A run waits while a reading from ahead of its clock is accepted.
CONSTANTS
    e1 = e1
    e2 = e2
    e3 = e3
    e4 = e4
    Elevators = {e1}
    InScope = {e1}
    RawScores = {80004}
    TrendLength = 2
    DayLength = 2
    Skew = 1
    Window = 1
    Retention = 2
    Runs = {r1, r2}
    NoRun = NoRun
    MaxTime = 1
    MaxReadings = 2
    SeedTrends <- FullTrend
    LegacyReadings <- FutureRow

SPECIFICATION Spec

PROPERTY AcceptedReadingsSurvive
