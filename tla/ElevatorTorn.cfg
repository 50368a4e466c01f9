\* A run commits between the statements of a detail page.
CONSTANTS
    Requests <- Pages
    Asks <- PageAsks
    Lifts <- OneLift
    ScoreOf <- ScoreThatReturns
    MaxVersion = 2
    PoolSize = 2
    NoText = none

SPECIFICATION Spec

INVARIANTS
    TrendEndsAtTheScore

CHECK_DEADLOCK FALSE
