---------------------------- MODULE Configuration ----------------------------
(* load_system_config: what one system configuration must be to be loaded,  *)
(* and what the components are then given.  A section is a function of its  *)
(* keys, and a file one of its sections and its version.  Keys whose values *)
(* only pass through (names, paths, host names, switches) are left out, in  *)
(* the files as in what is assembled of them, and so are digests; ratios    *)
(* that are read as floats are counted in thousandths.  The calendar engine *)
(* and the time zones it knows are external.                                *)
EXTENDS EvidencePolicy, FiniteSets, Sequences

CONSTANTS
    Zones,            \* IANA time zones
    MarketTimes,      \* of each calendar of the engine, the columns it can give
    NoDigest, NoFile,
    Intervals,        \* bound: means and deviations that are learned
    OfferedConfigurations    \* to be loaded: [file, policy], the policy NoFile if not named

ASSUME ConfigurationAssumption == Intervals \subseteq Nat

VARIABLE configuration    \* the one that is offered

------------------------------------------------------------------------------
(* _require_keys, _positive_int and the loops over bounds.                  *)
HasKeys(v, names) == DOMAIN v = names
PositiveInt(v, names) == \A n \in names : v[n] \in Nat \ {0}
Percentage(v, names) == \A n \in names : v[n] \in 1..100000
Within(v, name, low, high) == low <= v[name] /\ v[name] <= high
Distinct(s) == \A i, j \in DOMAIN s : s[i] = s[j] => i = j
UniqueStrings(s) == s \in Seq(STRING) /\ Distinct(s)
Members(s) == {s[i] : i \in DOMAIN s}

SectionNames ==
    {"runtime", "system_control", "ib", "preload_instruments", "logging", "discord",
     "runtime_resources", "persistence", "historical", "sessions", "evidence_health"}

(* _load_split_system_config: the operator's file and the policy it names   *)
(* make one configuration if no key of a shared section is in both.         *)
OperatorKeys ==
    [runtime |-> {"environment"},
     ib |-> {"port", "client_id", "symbology_method", "market_data_type"},
     preload_instruments |-> {"ids"},
     discord |-> {"enabled", "ping_critical_resource_alerts"}]

SharedSections == {"ib", "discord"}
PolicySections == SectionNames \ {"runtime", "preload_instruments"}

Merge(a, b) == [k \in DOMAIN a \cup DOMAIN b |-> IF k \in DOMAIN b THEN b[k] ELSE a[k]]

Splits(operator, policy) ==
    /\ HasKeys(operator, DOMAIN OperatorKeys \cup {"schema_version"})
    /\ \A s \in DOMAIN OperatorKeys : HasKeys(operator[s], OperatorKeys[s])
    /\ HasKeys(policy, PolicySections \cup {"policy_version"}) /\ policy.policy_version = 4
    /\ \A s \in SharedSections : DOMAIN policy[s] \cap DOMAIN operator[s] = {}

Assembled(operator, policy) ==
    [s \in SectionNames \cup {"schema_version"} |->
        IF s \in SharedSections THEN Merge(policy[s], operator[s])
        ELSE IF s \in PolicySections THEN policy[s] ELSE operator[s]]

------------------------------------------------------------------------------
(* _load_system_control: a rule for each component, at most 32.             *)
SystemControlLoads(v) ==
    /\ DOMAIN v # {} /\ Cardinality(DOMAIN v) <= 32
    /\ \A c \in DOMAIN v :
          /\ HasKeys(v[c], {"startup", "running"})
          /\ \A when \in {"startup", "running"} : v[c][when] \in {"FAILED", "DEGRADED"}

RuntimeLoads(v) ==
    HasKeys(v, {"environment"}) /\ v.environment \in {"live", "sandbox"}

InteractiveBrokersKeys ==
    {"port", "client_id", "symbology_method", "market_data_type",
     "connection_timeout_seconds", "request_timeout_seconds"}

InteractiveBrokersLoads(v) ==
    /\ HasKeys(v, InteractiveBrokersKeys)
    /\ v.symbology_method \in {"raw", "simplified"}
    /\ v.market_data_type \in {"realtime", "frozen", "delayed", "delayed_frozen"}
    /\ PositiveInt(v, {"port", "connection_timeout_seconds", "request_timeout_seconds"})
    /\ v.client_id \in Nat

(* An instrument is a record of its name and whether it is in raw notation. *)
PreloadLoads(v, ib) ==
    /\ HasKeys(v, {"ids"})
    /\ Distinct(v.ids) /\ Len(v.ids) <= 64
    /\ \A i \in DOMAIN v.ids : v.ids[i].raw = (ib.symbology_method = "raw")

LoggingLoads(v) ==
    /\ DOMAIN v \subseteq {"max_file_size_bytes", "max_backup_count"}
    /\ "max_file_size_bytes" \in DOMAIN v => v.max_file_size_bytes \in 1000000..1000000000
    /\ "max_backup_count" \in DOMAIN v => v.max_backup_count \in 1..20

DiscordLoads(v) ==
    /\ HasKeys(v, {"enabled", "request_timeout_seconds", "queue_capacity",
                   "ping_critical_resource_alerts"})
    /\ v.enabled \in BOOLEAN /\ v.ping_critical_resource_alerts \in BOOLEAN
    /\ PositiveInt(v, {"request_timeout_seconds", "queue_capacity"})

------------------------------------------------------------------------------
LowerIsWorseThresholds ==
    {"host_memory_available_percent", "disk_free_bytes", "disk_free_percent"}
HigherIsWorseThresholds ==
    {"host_cpu_percent", "host_swap_percent", "process_rss_bytes",
     "process_rss_growth_bytes", "process_cpu_percent", "thread_count", "open_fd_ratio"}

ThresholdsLoad(v) ==
    /\ HasKeys(v, LowerIsWorseThresholds \cup HigherIsWorseThresholds)
    /\ Percentage(v, {"host_memory_available_percent", "host_cpu_percent",
                      "host_swap_percent", "disk_free_percent"})
    /\ PositiveInt(v, {"disk_free_bytes", "process_rss_bytes", "process_rss_growth_bytes",
                       "process_cpu_percent", "thread_count"})
    /\ v.open_fd_ratio \in 1..999

ThresholdsOrdered(warning, critical) ==
    /\ \A n \in LowerIsWorseThresholds : critical[n] < warning[n]
    /\ \A n \in HigherIsWorseThresholds : critical[n] > warning[n]

ResourceHealthCounts ==
    {"warning_consecutive_samples", "critical_consecutive_samples",
     "recovery_consecutive_samples", "notification_cooldown_ms",
     "rss_growth_window_samples", "stale_warning_ms", "stale_critical_ms"}

RuntimeResourcesLoad(v) ==
    /\ HasKeys(v, {"sample_interval_ms", "log_every_samples", "health"})
    /\ PositiveInt(v, {"sample_interval_ms", "log_every_samples"})
    /\ HasKeys(v.health, ResourceHealthCounts \cup {"warning", "critical"})
    /\ PositiveInt(v.health, ResourceHealthCounts)
    /\ ThresholdsLoad(v.health.warning) /\ ThresholdsLoad(v.health.critical)
    /\ ThresholdsOrdered(v.health.warning, v.health.critical)
    /\ v.health.stale_critical_ms > v.health.stale_warning_ms

PersistenceKeys ==
    {"connect_timeout_seconds", "queue_capacity", "critical_queue_reserve",
     "write_batch_size", "result_poll_interval_ms", "shutdown_timeout_seconds",
     "write_max_attempts", "write_retry_backoff_ms"}

PersistenceLoads(v) ==
    /\ HasKeys(v, PersistenceKeys)
    /\ PositiveInt(v, PersistenceKeys \ {"critical_queue_reserve", "write_retry_backoff_ms"})
    /\ v.critical_queue_reserve \in Nat /\ v.write_retry_backoff_ms \in Nat
    /\ v.critical_queue_reserve < v.queue_capacity
    /\ v.write_batch_size <= v.queue_capacity

HistoricalKeys ==
    {"maximum_plan_requests", "maximum_observations_per_request",
     "maximum_total_observations", "maximum_outstanding_requests",
     "maximum_in_flight_requests", "timeout_seconds", "maximum_attempts",
     "retry_backoff_ms", "poll_interval_ms"}

HistoricalLoads(v) ==
    /\ HasKeys(v, HistoricalKeys) /\ PositiveInt(v, HistoricalKeys)
    /\ v.maximum_total_observations >= v.maximum_observations_per_request
    /\ v.maximum_outstanding_requests <= v.maximum_plan_requests
    /\ v.maximum_in_flight_requests = 1

EvidenceHealthLoads(v) ==
    /\ HasKeys(v, {"evaluation_interval_ms", "consumer_retry_interval_ms",
                   "profile_checkpoint_samples", "policies"})
    /\ PositiveInt(v, {"evaluation_interval_ms", "consumer_retry_interval_ms",
                       "profile_checkpoint_samples"})
    /\ Len(v.policies) > 0
    /\ \A i \in DOMAIN v.policies :
          v.policies[i].kind \in {"quotes", "bars"} /\ Loads(v.policies[i].limits)
    /\ \A i, j \in DOMAIN v.policies :
          v.policies[i].kind = v.policies[j].kind
          /\ v.policies[i].selector = v.policies[j].selector => i = j

------------------------------------------------------------------------------
(* The calendar catalog.  A boundary of a phase is [kind, value, offset].   *)
BoundaryLoads(b) == b.kind \in {"schedule_boundary", "local_time"} /\ b.offset \in -7..7

PhasesLoad(phases) ==
    /\ \A i \in DOMAIN phases :
          /\ phases[i].name \notin {"CLOSED", "BREAK"}
          /\ BoundaryLoads(phases[i].from) /\ BoundaryLoads(phases[i].to)
          /\ phases[i].constraint \in {"none", "clip", "omit_if_exchange_closes_before_start"}
    /\ \A i, j \in DOMAIN phases : phases[i].name = phases[j].name => i = j

SourcesLoad(sources) ==
    /\ \A i, j \in DOMAIN sources : sources[i].id = sources[j].id => i = j
    /\ \A i \in DOMAIN sources :
          /\ sources[i].status \in {"VERIFIED", "HASH_UNAVAILABLE"}
          /\ sources[i].status = "VERIFIED" => sources[i].digest # NoDigest

CorrectionsLoad(corrections, sources) ==
    /\ \A i, j \in DOMAIN corrections : corrections[i].id = corrections[j].id => i = j
    /\ \A i \in DOMAIN corrections :
          /\ corrections[i].kind = "remove_regular_break"
          /\ corrections[i].source \in {sources[j].id : j \in DOMAIN sources}
          /\ corrections[i].zone \in Zones
          /\ corrections[i].roots # <<>> /\ UniqueStrings(corrections[i].roots)

BoundaryAdmitted(b, columns) == b.kind = "schedule_boundary" => b.value \in Members(columns)

CalendarLoads(calendar, catalog) ==
    /\ PhasesLoad(calendar.phases)
    /\ UniqueStrings(calendar.corrections)
    /\ Members(calendar.corrections) \subseteq
          {catalog.corrections[i].id : i \in DOMAIN catalog.corrections}
    /\ calendar.provider \in DOMAIN MarketTimes
    /\ UniqueStrings(calendar.columns) /\ calendar.columns # <<>>
    /\ \A i \in DOMAIN calendar.phases :
          /\ calendar.phases[i].zone \in Zones \cup {"provider"}
          /\ BoundaryAdmitted(calendar.phases[i].from, calendar.columns)
          /\ BoundaryAdmitted(calendar.phases[i].to, calendar.columns)
    /\ calendar.columns[1] = "market_open"
    /\ calendar.columns[Len(calendar.columns)] = "market_close"
    /\ Members(calendar.columns) \subseteq MarketTimes[calendar.provider]
    /\ "break_start" \in Members(calendar.columns) <=> "break_end" \in Members(calendar.columns)
    /\ calendar.version \in Nat \ {0}

CatalogLoads(catalog) ==
    /\ catalog # NoFile /\ catalog.schema_version = 3
    /\ SourcesLoad(catalog.sources)
    /\ CorrectionsLoad(catalog.corrections, catalog.sources)
    /\ catalog.calendars # <<>>
    /\ \A i \in DOMAIN catalog.calendars : CalendarLoads(catalog.calendars[i], catalog)
    /\ \A i, j \in DOMAIN catalog.calendars :
          catalog.calendars[i].id = catalog.calendars[j].id => i = j

RetryKeys == {"response_timeout_ms", "maximum_attempts", "retry_backoff_ms", "maximum_elapsed_ms"}

RetryLoads(v) ==
    /\ PositiveInt(v, RetryKeys)
    /\ Within(v, "response_timeout_ms", 100, 60000) /\ Within(v, "maximum_attempts", 1, 10)
    /\ Within(v, "retry_backoff_ms", 100, 60000)
    /\ Within(v, "maximum_elapsed_ms", 1000, 600000)
    /\ v.maximum_elapsed_ms >= v.response_timeout_ms

DeliveryKeys ==
    RetryKeys \cup {"policy_version", "maximum_buffered_transitions_per_calendar",
                    "maximum_total_buffered_transitions", "boundary_delivery_grace_ms"}

DeliveryLoads(v) ==
    /\ HasKeys(v, DeliveryKeys) /\ PositiveInt(v, DeliveryKeys)
    /\ v.policy_version = 1
    /\ RetryLoads(v)
    /\ Within(v, "maximum_buffered_transitions_per_calendar", 1, 256)
    /\ Within(v, "maximum_total_buffered_transitions", 1, 1024)
    /\ Within(v, "boundary_delivery_grace_ms", 1, 60000)
    /\ v.maximum_total_buffered_transitions >= v.maximum_buffered_transitions_per_calendar

SessionCounts ==
    {"evaluation_interval_ms", "projection_lookback_days", "projection_lookahead_days",
     "maximum_projection_days", "maximum_calendars_per_request"}

(* Fault: the day that is under way is not counted.                         *)
ProjectionFitsBesidesToday(v) ==
    v.projection_lookback_days + v.projection_lookahead_days <= v.maximum_projection_days
ProjectionFits(v) ==
    v.projection_lookback_days + v.projection_lookahead_days + 1 <= v.maximum_projection_days

(* The catalog file is given with the section that names it.                *)
SessionsLoad(v) ==
    /\ HasKeys(v, SessionCounts \cup {"projection_retry", "current_state_delivery",
                                      "calendar_catalog", "calendar_ids"})
    /\ CatalogLoads(v.calendar_catalog)
    /\ UniqueStrings(v.calendar_ids) /\ v.calendar_ids # <<>>
    /\ Members(v.calendar_ids) \subseteq
          {v.calendar_catalog.calendars[i].id : i \in DOMAIN v.calendar_catalog.calendars}
    /\ PositiveInt(v, SessionCounts)
    /\ ProjectionFits(v)
    /\ Len(v.calendar_ids) <= v.maximum_calendars_per_request
    /\ HasKeys(v.projection_retry, RetryKeys) /\ RetryLoads(v.projection_retry)
    /\ DeliveryLoads(v.current_state_delivery)

------------------------------------------------------------------------------
ConfigurationLoads(c) ==
    /\ HasKeys(c, SectionNames \cup {"schema_version"})
    /\ RuntimeLoads(c.runtime)
    /\ SystemControlLoads(c.system_control)
    /\ InteractiveBrokersLoads(c.ib) /\ PreloadLoads(c.preload_instruments, c.ib)
    /\ LoggingLoads(c.logging) /\ DiscordLoads(c.discord)
    /\ RuntimeResourcesLoad(c.runtime_resources)
    /\ PersistenceLoads(c.persistence) /\ HistoricalLoads(c.historical)
    /\ SessionsLoad(c.sessions) /\ EvidenceHealthLoads(c.evidence_health)
    /\ c.persistence.queue_capacity - c.persistence.critical_queue_reserve >= 16

(* load_system_config: a file that names a policy is joined with it.        *)
Loaded(c) == IF c.policy = NoFile THEN c.file ELSE Assembled(c.file, c.policy)

LoadSystemConfig(c) ==
    /\ "schema_version" \in DOMAIN c.file /\ c.file.schema_version = 32
    /\ c.policy # NoFile => Splits(c.file, c.policy)
    /\ ConfigurationLoads(Loaded(c))

ConfigurationInit == configuration \in OfferedConfigurations

------------------------------------------------------------------------------
(* SessionCalendarActor._publish_projection counts the days of a request so *)
(* (days from today); it rejects one of too many days or calendars, which   *)
(* ends the planner's cycle for good.                                       *)
RequestedDays(from, to) == to - from + 1
ProjectionServed(v) ==
    /\ RequestedDays(-v.projection_lookback_days, v.projection_lookahead_days)
          <= v.maximum_projection_days
    /\ Len(v.calendar_ids) <= v.maximum_calendars_per_request

(* CanonicalCalendar looks up in the schedule the columns of every phase    *)
(* boundary and of a break, in the engine the times of every column, and    *)
(* for a correction its source: all are there.  A phase is not mistaken for *)
(* the state of a closed market.                                            *)
CalendarServed(calendar, catalog) ==
    LET boundaries == {calendar.phases[i].from : i \in DOMAIN calendar.phases}
                      \cup {calendar.phases[i].to : i \in DOMAIN calendar.phases}
        columns == {b.value : b \in {x \in boundaries : x.kind = "schedule_boundary"}}
                   \cup {"market_open", "market_close"}
        corrections == {i \in DOMAIN catalog.corrections :
                           catalog.corrections[i].id \in Members(calendar.corrections)}
    IN  /\ columns \subseteq Members(calendar.columns) \cap MarketTimes[calendar.provider]
        /\ {"break_start", "break_end"} \cap Members(calendar.columns)
              \in {{}, {"break_start", "break_end"}}
        /\ Cardinality(corrections) = Len(calendar.corrections)
        /\ \A i \in corrections :
              \E j \in DOMAIN catalog.sources : catalog.sources[j].id = catalog.corrections[i].source
        /\ \A i \in DOMAIN calendar.phases : calendar.phases[i].name \notin {"CLOSED", "BREAK"}

CalendarsServed(v) ==
    \A i \in DOMAIN v.calendar_ids :
        \E j \in DOMAIN v.calendar_catalog.calendars :
            /\ v.calendar_catalog.calendars[j].id = v.calendar_ids[i]
            /\ CalendarServed(v.calendar_catalog.calendars[j], v.calendar_catalog)

(* Whatever intervals are learned, evidence is first fresh, then stale,     *)
(* then unavailable, and no later than the policy's greatest age.           *)
Rising(t) == 0 < t.fresh /\ t.fresh < t.stale /\ t.stale < t.unavailable
LearnedRises(p) ==
    \A mean, deviation \in Intervals :
        /\ Rising(Adaptive(p, mean, deviation))
        /\ Adaptive(p, mean, deviation).unavailable <= p.maxUnavailable
EvidenceServed(v) ==
    \A i \in DOMAIN v.policies : Rising(Fixed(v.policies[i].limits)) /\ LearnedRises(v.policies[i].limits)

(* Of a configuration in two files: what the operator chose is what the     *)
(* system gets, whatever the policy says, and the policy decides all else.  *)
FilesKept(c, operator, policy) ==
    /\ \A s \in DOMAIN OperatorKeys : \A k \in OperatorKeys[s] : c[s][k] = operator[s][k]
    /\ \A s \in PolicySections : \A k \in DOMAIN policy[s] :
          c[s][k] = policy[s][k] /\ (s \in SharedSections => k \notin OperatorKeys[s])
    /\ \A s \in SharedSections : \A k \in DOMAIN c[s] :
          k \in OperatorKeys[s] \/ k \in DOMAIN policy[s]

(* A configuration that is loaded, from one file or two, gives its          *)
(* consumers what they take for granted and cannot check: projection        *)
(* requests their producer does not refuse for their size, calendars whose  *)
(* columns, corrections and sources are all there, thresholds in order      *)
(* whatever is learned, and each key from the one file that decides it.     *)
ConfigurationInv ==
    LoadSystemConfig(configuration) =>
        LET c == Loaded(configuration)
        IN  /\ ProjectionServed(c.sessions) /\ CalendarsServed(c.sessions)
            /\ EvidenceServed(c.evidence_health)
            /\ configuration.policy # NoFile =>
                  FilesKept(c, configuration.file, configuration.policy)
=============================================================================
