CONSTANTS
    Calendars = {c1}
    Consumers = {n1, n2}
    Faulty = {}
    ResponseTimeout = 1
    RetryBackoff = 1
    MaximumElapsed = 2
    MaximumAttempts = 2
    BufferPerCalendar = 1
    BufferTotal = 1
    MaxBoundary = 3
SPECIFICATION SessionSpec
PROPERTIES MarksOnlyAdvance LiveSeesTheWall
