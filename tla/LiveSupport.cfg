SPECIFICATION SupportSpec
CONSTANTS
    bid = bid
    trades = trades
    forever = forever
    none = none
    NoReading = none
    None = none
    Forever = forever
    Readings <- MCReadings
    CriticalAt <- MCCriticalAt
    WarningAt <- MCWarningAt
    Confirmations <- MCConfirmations
    Recovery = 2
    Cooldown = 2
    Window = 2
    StaleWarning = 2
    StaleCritical = 3
    QueueCapacity = 1
    MaxUnread = 1
    Streams = {bid, trades}
    Offered <- MCOffered
    Unsupported = {trades}
    MaxNow = 3
    Feeds = {bid}
    Asked <- MCAsked
    Policy <- MCPolicy
    Phases = {"RTH"}
    Entities = {1, 2, 3, 4}
    Instrument <- MCInstrument
    EntityType <- MCEntityType
    Durability <- MCDurability
    MaximumEntities = 3
    MaximumPerInstrument = 2
    MaximumPerType = 1
    Proposed <- MCProposed
    Keys = {k1, k2, k3}
    Contents = {u, v}
    MaximumSubjects = 2
    MaximumRevision = 3
    MaximumOffers = 4
    Required = {f, g}
    Strangers = {h}
    Bodies = {u, v}
    BarrierStart = 1
    Timeout = 2
    Instants = {0, 1, 2, 3, 4}
    NoTime = none
    Series = "es"
    Interval = 2
    Slots = {1, 2}
    RequestedStart = 1
    RequestedEnd = 5
    MaximumRaw = 4
    MaximumLineage = 2
    MaximumReferences = 2
    EntryReferences <- MCEntryReferences
    ForeignEntries = {"live"}
    Received <- MCReceived
    NoCode = none
    NoSignal = none
    MaxSignals = 2
    MaximumSeriesPerInstance = 1
    MaximumTotalSeries = 2
    NothingOffered = none
    Manifests <- MCManifests
    noDigest = noDigest
    noFile = noFile
    NoDigest = noDigest
    NoFile = noFile
    Zones = {"UTC"}
    Intervals = {0, 1, 2, 3}
    MarketTimes <- MCMarketTimes
    OfferedConfigurations <- MCOfferedFiles
INVARIANTS
    AlertInv
    DemandInv
    EvidenceInv
    RevisionsInv
    ReadinessInv
    ValidationInv
    DeclarationsInv
    RunInv
PROPERTIES
    SteadyLevelReported
    SilenceNoticed
CHECK_DEADLOCK FALSE
