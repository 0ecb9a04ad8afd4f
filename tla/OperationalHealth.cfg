CONSTANTS
    StartupTarget = "FAILED"
    RunningTarget = "DEGRADED"
    Keys <- MCKeys
    Incidents <- MCIncidents
    NoIncident = NoIncident
    QueueCapacity = 2
    CriticalReserve = 1
    BatchSize = 2
    MonitorEvents = {"NORMAL", "CRITICAL", "STALE", "FAULT"}
    MaxUnread = 2
SPECIFICATION Spec
INVARIANTS FailuresAgree ReadyIsEarned NoMissedReady StartupLossIsFatal
