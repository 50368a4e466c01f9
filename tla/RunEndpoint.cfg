\* Three requests in a row, two sandboxes or threads of the scorer.
CONSTANTS
    Models <- ModelNames
    Columns <- ModelColumns
    Supplied <- SuppliedOrders
    None = none
    Sandboxes = {s1, s2}
    Environments = {"ci", "prod"}
    MaxRequests = 3

SPECIFICATION Spec

INVARIANTS
    TypeOK
    ScoredInBuiltColumns
    StatusTellsWhoFailed
