SPECIFICATION Spec
CONSTANTS
    Requests <- MCRequests
    Dependencies <- MCDependencies
    Priorities = {1, 2}
    IdRank <- MCIdRank
    Minimum <- MCMinimum
    Counts = {1, 2}
    MaxQueued = 2
    MaxInFlight = 1
    Timeout = 1
    MaxAttempts = 2
    Backoff = 1
INVARIANTS
    LanesBounded
    OutcomesFollowEnding
PROPERTIES
    ServedInPriorityOrder
    NoIdleLane
    EveryRequestEnds
    ImplementsContract
