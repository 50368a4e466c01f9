\* Two invocations of one sandbox.
CONSTANTS
    MaxRequests = 2
    Durations <- TimesTaken
    Timeout = 14
    StopReserve = 5
    StopDeadline = 4
    ReadinessDeadline = 6
    Pause = 1
    MaxNotRegistered = 2

SPECIFICATION Spec

INVARIANTS
    TypeOK
    N8nIsOwn
    CalledOnlyWhenReady
    WorkflowStartsOnce
    SuccessIsReal

PROPERTIES
    InTimeStopIsNotCut
    FirstCallLeavesReserve

CHECK_DEADLOCK FALSE
