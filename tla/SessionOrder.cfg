CONSTANTS
    Calendars = {c1}
    Consumers = {n1}
    Faulty = {c1}
    ResponseTimeout = 1
    RetryBackoff = 1
    MaximumElapsed = 3
    MaximumAttempts = 2
    BufferPerCalendar = 1
    BufferTotal = 1
    MaxBoundary = 4
SPECIFICATION SessionSpec
INVARIANT LiveIsCurrent
PROPERTIES SyncSettles
