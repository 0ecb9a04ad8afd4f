CONSTANTS
    StartupTarget = "DEGRADED"
    RunningTarget = "DEGRADED"
    Keys <- MCKeys
    Incidents <- MCIncidents
    NoIncident = NoIncident
    QueueCapacity = 2
    CriticalReserve = 0
    BatchSize = 2
    MonitorEvents = {"NORMAL"}
    MaxUnread = 1
SPECIFICATION Spec
PROPERTY RecoversWhenCalm
