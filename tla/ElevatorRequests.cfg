\* Three requests share two connections while two runs commit.
CONSTANTS
    Requests <- Pages
    Asks <- PageAsks
    Lifts <- OneLift
    ScoreOf <- ScoreThatReturns
    MaxVersion = 2
    PoolSize = 2
    NoText = none

SPECIFICATION FairSpec

INVARIANTS
    TypeOK
    CachedTextIsOfItsKey
    NothingIsKeptOrLost

PROPERTIES
    EveryRequestIsAnswered

CHECK_DEADLOCK FALSE
