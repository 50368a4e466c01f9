\* A run that began before midnight commits after one that began after it.
CONSTANTS
    e1 = e1
    Elevators = {e1}
    InScope = {e1}
    RawScores = {80004}
    TrendLength = 2
    DayLength = 1
    Skew = 1
    Window = 1
    Retention = 1
    Runs = {r1, r2}
    NoRun = NoRun
    MaxTime = 1
    MaxReadings = 1
    SeedTrends <- FullTrend
    LegacyReadings <- FreshReading

SPECIFICATION CalendarSpec

PROPERTY OneAdvancePerDay
