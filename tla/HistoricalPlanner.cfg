SPECIFICATION Spec
CONSTANTS
    c1 = c1
    c2 = c2
    d1 = d1
    d2 = d2
    Calendars = {c1, c2}
    Demands = {d1, d2}
    Definition <- MCDefinition
    Asked <- MCAsked
    Faulty = {c2}
    Day = 3
    Minute = 2
    Second = 1
    ResponseTimeout = 1
    RetryBackoff = 1
    MaximumAttempts = 2
    MaximumElapsed = 4
    LookbackDays = 1
    LookaheadDays = 1
    MaximumDays = 3
    MaximumCalendars = 2
    Interval = 1
    MaximumPerRequest = 1
    MaximumTotal = 1
    Began = 3
    Horizon = 6
    MaxLate = 1
    LastTick = 12
INVARIANTS
    CycleInv
    ReadyIsFresh
    NothingForgotten
    PlansAreExact
PROPERTIES
    RetryResolves
    CycleSettles
CHECK_DEADLOCK FALSE
