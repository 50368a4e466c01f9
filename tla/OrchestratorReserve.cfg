\* A webhook that is registered late.
CONSTANTS
    MaxRequests = 2
    Durations <- TimesTaken
    Timeout = 14
    StopReserve = 5
    StopDeadline = 4
    ReadinessDeadline = 6
    Pause = 1
    MaxNotRegistered = 2

SPECIFICATION Spec

PROPERTY WaitsLeaveReserve

CHECK_DEADLOCK FALSE
