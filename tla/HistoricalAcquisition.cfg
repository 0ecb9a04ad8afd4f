SPECIFICATION AcqSpec
CONSTANTS
    Requests <- MCRequests
    Dependencies <- MCDependencies
    Priorities = {1}
    IdRank <- MCIdRank
    Minimum <- MCMinimum
    Counts = {0, 1}
    MaxQueued = 3
    MaxInFlight = 1
    Timeout = 1
    MaxAttempts = 2
    Backoff = 1
    Limit <- MCLimit
    MaxPerRequest = 2
    MaxObservations = 3
    Fits = {}
INVARIANTS
    ObservationsBudgeted
    StartupGate
    StoppedLeavesNothing
PROPERTIES
    WrongAnswerOnlyWhenLate
CHECK_DEADLOCK FALSE
