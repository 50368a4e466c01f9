\* Two producers whose batches overlap, each with a retry.
CONSTANTS
    p1 = p1
    p2 = p2
    Elevators = {"e1", "e2"}
    Producers = {p1, p2}
    MaxTries = 2
    Source <- OneSource
    Batch <- Overlapping

SPECIFICATION FairSpec

INVARIANTS
    TypeOK
    StoredOnce
    ConfirmedIsStored
    OneTryCounts
    RetriesNeverDeadlock

PROPERTIES
    FirstReportStays
    RequestsAreAtomic
    EveryRequestIsAnswered

CHECK_DEADLOCK FALSE
