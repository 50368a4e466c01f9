\* Two inference runs move lifts between the levels.
CONSTANTS
    Lifts <- FleetOfThree
    InScope <- ScoredLifts
    MaxRuns = 2

SPECIFICATION FairSpec

INVARIANTS
    ExportIsOneSnapshot
    RefreshStopsFirst

PROPERTIES
    CountsCatchUp
